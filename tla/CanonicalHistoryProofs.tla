----------------------- MODULE CanonicalHistoryProofs -----------------------
(***************************************************************************)
(* The safety properties of CanonicalHistory, for every number of batches, *)
(* every assignment of sources and every set of files that satisfies the   *)
(* assumptions of the module.                                              *)
(***************************************************************************)
EXTENDS CanonicalHistory, TLAPS

----------------------------------------------------------------------------
(* The inductive invariant.                                                *)

\* A transaction that is not running has nothing, and only a record of a
\* price has its prices looked for or closed.
TransactionInv ==
    /\ file \in [Batches -> Files]
    /\ phase \in [Batches -> {"waiting", "loading", "loaded", "failed"}]
    /\ next \in [Batches -> Nat \ {0}]
    /\ closed \in [Batches -> BOOLEAN]
    /\ DOMAIN scan = Batches /\ DOMAIN writes = Batches
    /\ tidy \in BOOLEAN
    /\ \A b \in Batches :
         /\ phase[b] # "loading" => writes[b] = NoRows
         /\ scan[b] # None \/ closed[b] => AtRecord(b) /\ Record(b).entity = "price"
         /\ scan[b] # None => ~closed[b] /\ \A id \in scan[b] : id[1] = "price"

\* The product of a price, which is the same in every record that names it.
Named(id) ==
    {q \in Batches \X Records : q[2].entity = "price" /\ PriceKey(q[1], q[2]) = id}
ProductOf(id) == CHOOSE p \in {ProductKey(q[1], q[2].product) : q \in Named(id)} : TRUE

PriceColumns == {"from", "product", "valid_from", "valid_to", "current", "value"}

\* The identifier of a row says what the columns of the row repeat, and no
\* price, balance or snapshot is ever deleted.
PriceShape(id, row) ==
    /\ DOMAIN row = PriceColumns
    /\ row.product = ProductOf(id)
    /\ row.valid_from = id[4] /\ id[4] \in Nat

ItemShape(id, row) ==
    ~IsGone(row) => id = <<"item", row.sale[2], row.sale[3], row.line>>

InstantShape(id, row) ==
    /\ ~IsGone(row) /\ row.instant \in Nat
    /\ id[1] = "balance" => id = BalanceKey(id[2])

Shape(rows) ==
    \A id \in DOMAIN rows :
        /\ id[1] = "price" => PriceShape(id, rows[id])
        /\ id[1] = "item" => ItemShape(id, rows[id])
        /\ id[1] \in {"balance", "snapshot"} => InstantShape(id, rows[id])

ShapeInv ==
    /\ Shape(db) /\ \A id \in DOMAIN db : ~IsGone(db[id])
    /\ \A b \in Batches : Shape(writes[b])

Prices(rows) == {id \in DOMAIN rows : id[1] = "price"}
Newer(y, x) == ProductOf(y) = ProductOf(x) /\ y[4] > x[4]
Open(row) == row.current /\ row.valid_to = None

\* A price that is not open has a newer one, committed, written by the same
\* transaction, or about to be.
NewestInv ==
    /\ \A x \in Prices(db) : Open(db[x]) \/ \E y \in Prices(db) : Newer(y, x)
    /\ \A b \in Batches : \A x \in Prices(writes[b]) :
         \/ Open(writes[b][x])
         \/ \E y \in Prices(writes[b]) \cup Prices(db) : Newer(y, x)
         \/ closed[b] /\ Newer(PriceKey(b, Record(b)), x)

Later(rows, x) == {y \in Prices(rows) : Newer(y, x)}
EndsWhereTheNextBegins(rows, x) ==
    /\ ~rows[x].current
    /\ \E y \in Later(rows, x) : /\ rows[x].valid_to = y[4]
                                 /\ \A z \in Later(rows, x) : y[4] <= z[4]

ExactPrices(rows) ==
    \A x \in Prices(rows) :
        IF Later(rows, x) = {} THEN rows[x].current ELSE EndsWhereTheNextBegins(rows, x)

\* The same when the prices that the price `p' ends are already closed.
ExactUpTo(rows, p) ==
    \A x \in Prices(rows) :
        IF Later(rows, x) # {} THEN EndsWhereTheNextBegins(rows, x)
        ELSE IF ProductOf(x) = ProductOf(p) THEN ~rows[x].current /\ rows[x].valid_to = p[4]
        ELSE rows[x].current

ExactBalances(rows) ==
    \A x, y \in DOMAIN rows :
        x[1] = "balance" /\ y[1] = "snapshot" /\ rows[y].product = x[2]
        => rows[y].instant <= rows[x].instant

\* The prices of the product of `p' all began before it.
AllBefore(rows, p) ==
    \A x \in Prices(rows) : ProductOf(x) = ProductOf(p) => x[4] < p[4]

Found(b) == {id \in DOMAIN Seen(b) : id[1] = "price" /\ Closes(b, Seen(b)[id])}

\* What a batch sees is exact, but for the price that it is loading.
Orderly(b) ==
    phase[b] = "loading" =>
        /\ scan[b] # None => scan[b] = Found(b)
        /\ ExactBalances(Seen(b))
        /\ ~closed[b] => ExactPrices(Seen(b))
        /\ closed[b] /\ AllBefore(Seen(b), PriceKey(b, Record(b))) =>
               ExactUpTo(Seen(b), PriceKey(b, Record(b)))

\* An orderly load is alone, so that what its UPDATE found is still there.
OrderlyInv ==
    tidy =>
        /\ \A b, c \in Batches : phase[b] = "loading" /\ phase[c] = "loading" => b = c
        /\ ExactPrices(db) /\ ExactBalances(db)
        /\ \A b \in Batches : Orderly(b)

MemberColumns == {"key", "value", "hash", "begin", "current"}

\* A current member shows what it was made from, and a refresh closes those
\* that were made from something else.
MemberInv ==
    \A m \in members :
        /\ DOMAIN m = MemberColumns
        /\ m.current => m.value = m.hash
        /\ m.current /\ refresh = "done" => \A s \in Sources : s.key = m.key => s.value = m.hash

----------------------------------------------------------------------------
(* The transactions.                                                       *)

\* A batch begins, loads, commits or gives up, or the dimensions are refreshed.
LEMMA NextCases ==
    ASSUME [Next]_vars
    PROVE  \/ \E b \in Batches :
                Begin(b) \/ FindPrices(b) \/ ClosePrices(b) \/ LoadRecord(b) \/ Commit(b)
                \/ GiveUp(b)
           \/ SyncDimensions
           \/ UNCHANGED vars
BY DEF Next, Refused, Deadlock

\* A batch that is not loading has written nothing.
LEMMA TransactionInvariant == Spec => []TransactionInv
<1>1. Init => TransactionInv
  BY DEF Init, TransactionInv
<1>2. TransactionInv /\ [Next]_vars => TransactionInv'
  <2> SUFFICES ASSUME TransactionInv, [Next]_vars
               PROVE  TransactionInv'
    OBVIOUS
  <2>1. ASSUME NEW b \in Batches, Begin(b)
        PROVE  TransactionInv'
    BY <2>1 DEF Begin, TransactionInv, AtRecord, Record
  <2>2. ASSUME NEW b \in Batches, FindPrices(b)
        PROVE  TransactionInv'
    BY <2>2 DEF FindPrices, TransactionInv, AtRecord, Record
  <2>3. ASSUME NEW b \in Batches, ClosePrices(b)
        PROVE  TransactionInv'
    BY <2>3 DEF ClosePrices, TransactionInv, AtRecord, Record
  <2>4. ASSUME NEW b \in Batches, LoadRecord(b)
        PROVE  TransactionInv'
    BY <2>4 DEF LoadRecord, TransactionInv, AtRecord, Record
  <2>5. ASSUME NEW b \in Batches, Commit(b)
        PROVE  TransactionInv'
    BY <2>5, FilesAssumption DEF Commit, TransactionInv, AtRecord, Record
  <2>6. ASSUME NEW b \in Batches, GiveUp(b)
        PROVE  TransactionInv'
    BY <2>6 DEF GiveUp, Abandon, TransactionInv, AtRecord, Record
  <2>7. ASSUME SyncDimensions
        PROVE  TransactionInv'
    BY <2>7 DEF SyncDimensions, transaction, TransactionInv, AtRecord, Record
  <2>8. ASSUME UNCHANGED vars
        PROVE  TransactionInv'
    BY <2>8 DEF vars, transaction, TransactionInv, AtRecord, Record
  <2> QED
    BY <2>1, <2>2, <2>3, <2>4, <2>5, <2>6, <2>7, <2>8, NextCases
<1> QED
  BY <1>1, <1>2, PTL DEF Spec

----------------------------------------------------------------------------
(* The dimension members.                                                  *)

\* Only a commit changes what is committed, and it makes a refresh due.
LEMMA CommitMakesDue ==
    ASSUME [Next]_vars
    PROVE  \/ \E b \in Batches : Commit(b)
           \/ SyncDimensions /\ UNCHANGED db
           \/ UNCHANGED <<db, members, refresh>>
BY DEF Next, Begin, FindPrices, ClosePrices, LoadRecord, Refused, Deadlock, GiveUp, Abandon,
       SyncDimensions, vars

LEMMA MemberInvariant == Spec => []MemberInv
<1>1. Init => MemberInv
  BY DEF Init, MemberInv
<1>2. MemberInv /\ [Next]_vars => MemberInv'
  <2> SUFFICES ASSUME MemberInv, [Next]_vars
               PROVE  MemberInv'
    OBVIOUS
  <2>1. ASSUME NEW b \in Batches, Commit(b)
        PROVE  MemberInv'
    BY <2>1 DEF Commit, MemberInv
  <2>2. ASSUME SyncDimensions, UNCHANGED db
        PROVE  MemberInv'
    <3>1. Sources' = Sources
      BY <2>2 DEF Sources
    <3>2. ASSUME NEW m \in Closed
          PROVE  /\ DOMAIN m = MemberColumns
                 /\ m.current => m.value = m.hash
                 /\ m.current => \A s \in Sources : s.key = m.key => s.value = m.hash
      <4> PICK o \in members : m = IF o.current /\ \E s \in Sources : s.key = o.key /\ s.value # o.hash
                                   THEN [o EXCEPT !.current = FALSE] ELSE o
        BY DEF Closed
      <4> QED
        BY DEF MemberInv, MemberColumns
    <3>3. CASE UNCHANGED members /\ refresh' = "failed"
      BY <3>3, <3>1 DEF MemberInv
    <3>4. CASE refresh' = "done" /\ members' = {IF \E s \in Missing : m \in Begun(s)
                  THEN [m EXCEPT !.value = (CHOOSE s \in Missing : m \in Begun(s)).value]
                  ELSE m : m \in Closed}
                 \cup {[key |-> s.key, value |-> s.value, hash |-> s.value, begin |-> s.updated,
                        current |-> TRUE] : s \in {x \in Missing : Begun(x) = {}}}
      <4> SUFFICES ASSUME NEW n \in members'
                   PROVE  /\ DOMAIN n = MemberColumns
                          /\ n.current => n.value = n.hash
                          /\ n.current => \A s \in Sources : s.key = n.key => s.value = n.hash
        BY <3>1 DEF MemberInv
      <4>1. ASSUME NEW m \in Closed, NEW s \in Missing, m \in Begun(s)
            PROVE  ~m.current
        BY <4>1 DEF Missing, Begun
      <4>2. ASSUME NEW m \in Closed, n = m
            PROVE  /\ DOMAIN n = MemberColumns
                   /\ n.current => n.value = n.hash
                   /\ n.current => \A s \in Sources : s.key = n.key => s.value = n.hash
        BY <4>2, <3>2
      <4>3. ASSUME NEW m \in Closed, ~m.current, NEW v, n = [m EXCEPT !.value = v]
            PROVE  DOMAIN n = MemberColumns /\ ~n.current
        BY <4>3, <3>2 DEF MemberColumns
      <4>4. ASSUME NEW s \in Missing,
                   n = [key |-> s.key, value |-> s.value, hash |-> s.value, begin |-> s.updated,
                        current |-> TRUE]
            PROVE  /\ DOMAIN n = MemberColumns
                   /\ n.value = n.hash
                   /\ \A x \in Sources : x.key = n.key => x.value = n.hash
        <5>1. s \in Sources
          BY DEF Missing
        <5>2. ASSUME NEW x \in Sources, x.key = s.key
              PROVE  x.value = s.value
          BY <5>1, <5>2 DEF Sources
        <5> QED
          BY <4>4, <5>2 DEF MemberColumns
      <4> QED
        BY <3>4, <4>1, <4>2, <4>3, <4>4
    <3> QED
      BY <2>2, <3>3, <3>4 DEF SyncDimensions
  <2>3. ASSUME UNCHANGED <<db, members, refresh>>
        PROVE  MemberInv'
    BY <2>3 DEF MemberInv, Sources
  <2> QED
    BY <2>1, <2>2, <2>3, CommitMakesDue
<1> QED
  BY <1>1, <1>2, PTL DEF Spec

\* After a refresh a current member shows what the catalogue shows
\* (_sync_dimensions): the refresh closes what differs, the versions it writes
\* over are closed ones, and any later commit makes another refresh due.
THEOREM CurrentMembersAreTrue == Spec => []CurrentMemberIsTrue
<1>1. MemberInv => CurrentMemberIsTrue
  BY DEF MemberInv, CurrentMemberIsTrue
<1> QED
  BY <1>1, MemberInvariant, PTL

----------------------------------------------------------------------------
(* The rows of a record.                                                   *)

\* Rows in front of others keep their shape.
LEMMA ShapeOver ==
    ASSUME NEW new, NEW old, Shape(new), Shape(old)
    PROVE  Shape(new (+) old)
BY DEF Shape, \oplus

LEMMA ShapeOverlay ==
    ASSUME NEW new, NEW old, Shape(new), Shape(old)
    PROVE  Shape(Overlay(new, old))
BY ShapeOver DEF Shape, Overlay

\* The tables a record goes to.
LEMMA LoadedTables ==
    ASSUME NEW b \in Batches, NEW r, NEW seen, r.entity \in Entities
    PROVE  /\ r.entity # "price" => Prices(Loader(b, r, seen).rows) = {}
           /\ r.entity # "sale" => \A id \in DOMAIN Loader(b, r, seen).rows : id[1] # "item"
           /\ r.entity # "stock" => \A id \in DOMAIN Loader(b, r, seen).rows :
                                       id[1] \notin {"balance", "snapshot"}
<1>1. CASE r.entity = "product"
  <2>1. \A id \in DOMAIN LoadProduct(b, r, seen).rows :
            id[1] \in {"brand", "product", "identifier", "presentation"}
    BY DEF Upsert, Put, \oplus, LoadProduct, Rows, ProductKey
  <2> QED
    BY <1>1, <2>1 DEF Loader, Prices
<1>2. CASE r.entity = "supplier"
  <2>1. \A id \in DOMAIN LoadSupplier(b, r, seen).rows :
            id[1] \in {"supplier", "supplier_identifier"}
    BY DEF Upsert, Put, \oplus, LoadSupplier, Rows, SupplierKey
  <2> QED
    BY <1>2, <2>1 DEF Loader, Prices
<1>3. CASE r.entity = "sale"
  <2>1. \A id \in DOMAIN LoadSale(b, r, seen).rows : id[1] \in {"sale", "item"}
    BY DEF Upsert, Put, \oplus, LoadSale, Rows, LineId
  <2> QED
    BY <1>3, <2>1 DEF Loader, Prices
<1>4. CASE r.entity = "purchase"
  <2> DEFINE order == <<"purchase", SourceOf[b], r.external>>
             supplier == SupplierKey(b, r.supplier)
             Product(line) == ProductKey(b, r.lines[line])
             head == Upsert(seen, order, [from |-> Origin(b)], {})
             items == [id \in {<<"purchase_item", order, line>> : line \in DOMAIN r.lines}
                          |-> [from |-> Origin(b)]]
             gone == [id \in {i \in DOMAIN seen : i[1] = "purchase_item" /\ i[2] = order} |-> Gone]
             known == [id \in {<<"supplier_product", supplier, Product(line)>> : line \in DOMAIN r.lines}
                          |-> [from |-> Origin(b), value |-> r.value]]
             costs == [id \in {<<"cost", RecordId(b), line>> : line \in DOMAIN r.lines}
                          |-> [from |-> Origin(b), value |-> r.value]]
             receipt == Upsert(seen, <<"receipt", order>>, [from |-> Origin(b)], {})
             tables == {"purchase", "purchase_item", "supplier_product", "cost", "receipt"}
  <2>1. LoadPurchase(b, r, seen).rows = head (+) items (+) gone (+) known (+) costs (+) receipt
    BY DEF LoadPurchase, Rows
  <2>2. /\ \A id \in DOMAIN head : id[1] \in tables
        /\ \A id \in DOMAIN items : id[1] \in tables
        /\ \A id \in DOMAIN gone : id[1] \in tables
        /\ \A id \in DOMAIN receipt : id[1] \in tables
    BY DEF Upsert, Put
  <2>3. /\ \A id \in DOMAIN known : id[1] \in tables
        /\ \A id \in DOMAIN costs : id[1] \in tables
    OBVIOUS
  <2>4. \A id \in DOMAIN LoadPurchase(b, r, seen).rows : id[1] \in tables
    <3> HIDE DEF head, items, gone, known, costs, receipt, tables
    <3> QED
      BY <2>1, <2>2, <2>3 DEF \oplus
  <2> QED
    BY <1>4, <2>4 DEF Loader, Prices
<1>5. CASE r.entity = "stock"
  <2>1. \A id \in DOMAIN LoadStock(b, r, seen).rows :
            id[1] \in {"lot", "balance", "snapshot", "movement"}
    BY DEF Upsert, InsertOnce, NoRows, Put, \oplus, LoadStock, Rows, Balance, BalanceKey
  <2> QED
    BY <1>5, <2>1 DEF Loader, Prices
<1>6. CASE r.entity = "price"
  <2>1. \A id \in DOMAIN LoadPrice(b, r, seen).rows :
            id[1] \in {"price", "promotion", "promoted"}
    BY DEF Upsert, Put, \oplus, LoadPrice, Rows, PriceKey
  <2> QED
    BY <1>6, <2>1 DEF Loader, Prices
<1> QED
  BY <1>1, <1>2, <1>3, <1>4, <1>5, <1>6 DEF Entities

\* The lines of a sale carry the key and the number they are identified by,
\* and the lines they replace are gone.
LEMMA SaleRows ==
    ASSUME NEW b \in Batches, NEW r, NEW seen, r.entity = "sale",
           NEW id \in DOMAIN Loader(b, r, seen).rows, id[1] = "item"
    PROVE  ItemShape(id, Loader(b, r, seen).rows[id])
<1> DEFINE sale == <<"sale", SourceOf[b], r.external, r.at>>
           old == {i \in DOMAIN seen : i[1] = "item" /\ seen[i].sale = sale}
           new == {LineId(b, r, line) : line \in DOMAIN r.lines}
           first == Upsert(seen, sale, [from |-> Origin(b)], {})
           lines == [i \in new |-> [from |-> Origin(b), sale |-> sale, line |-> i[4]]]
           gone == [i \in old |-> Gone]
<1>1. Loader(b, r, seen).rows = first (+) lines (+) gone
  BY DEF Loader, LoadSale, Rows
<1>2. id \notin DOMAIN first
  BY DEF Upsert, Put
<1>3. CASE id \in new
  <2>1. Loader(b, r, seen).rows[id] = [from |-> Origin(b), sale |-> sale, line |-> id[4]]
    BY <1>1, <1>2, <1>3 DEF \oplus
  <2> QED
    BY <2>1, <1>3 DEF ItemShape, LineId, IsGone
<1>4. CASE id \in old /\ id \notin new
  <2>1. Loader(b, r, seen).rows[id] = Gone
    BY <1>1, <1>2, <1>4 DEF \oplus
  <2> QED
    BY <2>1 DEF ItemShape, Gone, IsGone
<1> QED
  BY <1>1, <1>2, <1>3, <1>4 DEF \oplus

\* What stock writes: the balance of the product, and a snapshot unless the
\* record has one.
LEMMA StockRows ==
    ASSUME NEW b \in Batches, NEW r, NEW seen, r.entity = "stock"
    PROVE  LET rows == Loader(b, r, seen).rows
               product == ProductKey(b, r.product)
           IN /\ BalanceKey(product) \in DOMAIN rows
              /\ ~IsGone(rows[BalanceKey(product)])
              /\ rows[BalanceKey(product)].instant = r.at
              /\ \A id \in DOMAIN rows : id[1] = "balance" => id = BalanceKey(product)
              /\ \A id \in DOMAIN rows : id[1] = "snapshot" =>
                     /\ ~IsGone(rows[id])
                     /\ rows[id].product = product
                     /\ rows[id].instant = r.at
<1> DEFINE product == ProductKey(b, r.product)
           lot == Upsert(seen, <<"lot", product>>, [from |-> Origin(b), value |-> r.value], {})
           balance == Balance(b, r, seen)
           snapshot == InsertOnce(seen, <<"snapshot", RecordId(b)>>,
                    [from |-> Origin(b), product |-> product, instant |-> r.at, value |-> r.value])
           movement == Upsert(seen, <<"movement", SourceOf[b], r.external>>,
                    [from |-> Origin(b), product |-> product, instant |-> r.at, value |-> r.value],
                    {"product", "instant"})
           rows == Loader(b, r, seen).rows
<1>1. rows = lot (+) balance (+) snapshot (+) movement
  BY DEF Loader, LoadStock, Rows
<1>2. /\ DOMAIN lot = {<<"lot", product>>} /\ DOMAIN balance = {BalanceKey(product)}
      /\ DOMAIN movement = {<<"movement", SourceOf[b], r.external>>}
  BY DEF Balance, Upsert, Put
<1>3. /\ balance[BalanceKey(product)].instant = r.at
      /\ ~IsGone(balance[BalanceKey(product)])
  BY DEF Balance, Upsert, Put, IsGone
<1>4. /\ DOMAIN snapshot \subseteq {<<"snapshot", RecordId(b)>>}
      /\ \A id \in DOMAIN snapshot : snapshot[id] =
            [from |-> Origin(b), product |-> product, instant |-> r.at, value |-> r.value]
  BY DEF InsertOnce, Put, NoRows
<1>5. /\ BalanceKey(product) \in DOMAIN rows
      /\ rows[BalanceKey(product)] = balance[BalanceKey(product)]
  <2> HIDE DEF lot, balance, snapshot, movement, rows, product
  <2> QED
    BY <1>1, <1>2, <1>4 DEF \oplus, BalanceKey
<1>6. \A id \in DOMAIN rows : id[1] = "balance" => id = BalanceKey(product)
  <2> HIDE DEF lot, balance, snapshot, movement, rows, product
  <2> QED
    BY <1>1, <1>2, <1>4 DEF \oplus, BalanceKey
<1>7. \A id \in DOMAIN rows : id[1] = "snapshot" => id \in DOMAIN snapshot /\ rows[id] = snapshot[id]
  <2> HIDE DEF lot, balance, snapshot, movement, rows, product
  <2> QED
    BY <1>1, <1>2, <1>4 DEF \oplus, BalanceKey
<1>8. \A id \in DOMAIN rows : id[1] = "snapshot" =>
         ~IsGone(rows[id]) /\ rows[id].product = product /\ rows[id].instant = r.at
  BY <1>4, <1>7 DEF IsGone
<1> QED
  BY <1>3, <1>5, <1>6, <1>8

\* What a price writes: a current row, which keeps the product, the beginning
\* and the end of the row that has its identifier.
LEMMA PriceRows ==
    ASSUME NEW b \in Batches, NEW r, NEW seen, r.entity = "price"
    PROVE  LET rows == Loader(b, r, seen).rows
               row == rows[PriceKey(b, r)]
           IN /\ PriceKey(b, r) \in DOMAIN rows
              /\ \A id \in DOMAIN rows : id[1] = "price" => id = PriceKey(b, r)
              /\ DOMAIN row = PriceColumns
              /\ row.current
              /\ IF PriceKey(b, r) \in DOMAIN seen
                 THEN /\ row.product = seen[PriceKey(b, r)].product
                      /\ row.valid_from = seen[PriceKey(b, r)].valid_from
                      /\ row.valid_to = seen[PriceKey(b, r)].valid_to
                 ELSE /\ row.product = ProductKey(b, r.product)
                      /\ row.valid_from = r.at
                      /\ row.valid_to = None
<1> DEFINE columns == [from |-> Origin(b), product |-> ProductKey(b, r.product), valid_from |-> r.at,
                       valid_to |-> None, current |-> TRUE, value |-> r.value]
           promotion == <<"promotion", SourceOf[b], r.external>>
           price == Upsert(seen, PriceKey(b, r), columns, {"product", "valid_from", "valid_to"})
           offer == Upsert(seen, promotion, [from |-> Origin(b), value |-> r.at], {})
           link == Upsert(seen, <<"promoted", promotion, ProductKey(b, r.product)>>,
                          [from |-> Origin(b)], {})
           rows == Loader(b, r, seen).rows
<1>1. rows = price (+) offer (+) link
  BY DEF Loader, LoadPrice, Rows
<1>2. /\ DOMAIN price = {PriceKey(b, r)} /\ DOMAIN offer = {promotion}
      /\ DOMAIN link = {<<"promoted", promotion, ProductKey(b, r.product)>>}
  BY DEF Upsert, Put
<1>3. price[PriceKey(b, r)] =
        IF PriceKey(b, r) \in DOMAIN seen
        THEN [c \in DOMAIN columns |->
                IF c \in {"product", "valid_from", "valid_to"} THEN seen[PriceKey(b, r)][c]
                ELSE columns[c]]
        ELSE columns
  BY DEF Upsert, Put
<1>4. /\ PriceKey(b, r) \in DOMAIN rows
      /\ rows[PriceKey(b, r)] = price[PriceKey(b, r)]
      /\ \A id \in DOMAIN rows : id[1] = "price" => id = PriceKey(b, r)
  <2> HIDE DEF price, offer, link, rows, columns
  <2> QED
    BY <1>1, <1>2 DEF \oplus, PriceKey
<1>5. /\ DOMAIN rows[PriceKey(b, r)] = PriceColumns
      /\ rows[PriceKey(b, r)].current
  BY <1>3, <1>4 DEF PriceColumns
<1>6. IF PriceKey(b, r) \in DOMAIN seen
      THEN /\ rows[PriceKey(b, r)].product = seen[PriceKey(b, r)].product
           /\ rows[PriceKey(b, r)].valid_from = seen[PriceKey(b, r)].valid_from
           /\ rows[PriceKey(b, r)].valid_to = seen[PriceKey(b, r)].valid_to
      ELSE /\ rows[PriceKey(b, r)].product = ProductKey(b, r.product)
           /\ rows[PriceKey(b, r)].valid_from = r.at
           /\ rows[PriceKey(b, r)].valid_to = None
  BY <1>3, <1>4
<1> QED
  BY <1>4, <1>5, <1>6

\* The product of a price is the one that any record with its key names.
LEMMA ProductOfPrice ==
    ASSUME NEW b \in Batches, NEW r \in Records, r.entity = "price"
    PROVE  /\ ProductOf(PriceKey(b, r)) = ProductKey(b, r.product)
           /\ PriceKey(b, r)[4] = r.at /\ r.at \in Nat
<1> DEFINE P == {ProductKey(q[1], q[2].product) : q \in Named(PriceKey(b, r))}
<1>1. ProductKey(b, r.product) \in P
  <2>1. <<b, r>> \in Named(PriceKey(b, r))
    BY DEF Named
  <2> QED
    BY <2>1
<1>2. ASSUME NEW q \in Named(PriceKey(b, r))
      PROVE  ProductKey(q[1], q[2].product) = ProductKey(b, r.product)
  <2>1. /\ SourceOf[q[1]] = SourceOf[b] /\ q[1] \in Batches /\ q[2] \in Records
        /\ q[2].entity = "price" /\ q[2].external = r.external /\ q[2].at = r.at
    BY DEF Named, PriceKey
  <2>2. q[2].product = r.product
    BY <2>1, PriceIdAssumption
  <2> QED
    BY <2>1, <2>2 DEF ProductKey
<1>3. ProductOf(PriceKey(b, r)) \in P
  BY <1>1 DEF ProductOf
<1> QED
  BY <1>2, <1>3, FilesAssumption DEF PriceKey

LEMMA RecordIsRecord ==
    ASSUME TransactionInv, NEW b \in Batches, AtRecord(b)
    PROVE  Record(b) \in Records /\ Record(b).entity \in Entities
<1>1. /\ file[b] \in Files /\ next[b] \in 1 .. Len(file[b])
  BY FilesAssumption DEF TransactionInv, AtRecord
<1>2. Record(b) \in Records
  BY <1>1 DEF Record, Records
<1> QED
  BY <1>2, FilesAssumption

\* The rows of any record have the shape of their tables.
LEMMA LoadedShape ==
    ASSUME NEW b \in Batches, NEW r \in Records, NEW seen, Shape(seen)
    PROVE  Shape(Loader(b, r, seen).rows)
<1> DEFINE rows == Loader(b, r, seen).rows
<1>1. r.entity \in Entities
  BY FilesAssumption
<1>2. ASSUME NEW id \in DOMAIN rows, id[1] = "item"
      PROVE  ItemShape(id, rows[id])
  BY <1>1, <1>2, LoadedTables, SaleRows
<1>3. ASSUME NEW id \in DOMAIN rows, id[1] \in {"balance", "snapshot"}
      PROVE  InstantShape(id, rows[id])
  <2>1. r.entity = "stock"
    BY <1>1, <1>3, LoadedTables
  <2>2. r.at \in Nat
    BY <2>1, FilesAssumption
  <2>3. ~IsGone(rows[id]) /\ rows[id].instant = r.at
    BY <1>3, <2>1, StockRows DEF BalanceKey
  <2>4. id[1] = "balance" => id = BalanceKey(ProductKey(b, r.product))
    BY <2>1, StockRows
  <2> HIDE DEF rows
  <2> QED
    BY <2>2, <2>3, <2>4 DEF InstantShape, BalanceKey
<1>4. ASSUME NEW id \in DOMAIN rows, id[1] = "price"
      PROVE  PriceShape(id, rows[id])
  <2>1. r.entity = "price"
    BY <1>1, <1>4, LoadedTables DEF Prices
  <2>2. id = PriceKey(b, r)
    BY <1>4, <2>1, PriceRows
  <2>3. DOMAIN rows[id] = PriceColumns
    BY <2>1, <2>2, PriceRows
  <2>4. id \in DOMAIN seen => rows[id].product = seen[id].product /\ rows[id].valid_from = seen[id].valid_from
    BY <2>1, <2>2, PriceRows
  <2>5. id \notin DOMAIN seen => rows[id].product = ProductKey(b, r.product) /\ rows[id].valid_from = r.at
    BY <2>1, <2>2, PriceRows
  <2>6. id \in DOMAIN seen => PriceShape(id, seen[id])
    BY <1>4 DEF Shape
  <2> HIDE DEF rows
  <2> QED
    BY <2>1, <2>2, <2>3, <2>4, <2>5, <2>6, ProductOfPrice DEF PriceShape
<1> QED
  BY <1>2, <1>3, <1>4 DEF Shape

\* The prices that the UPDATE closes keep their identity.
LEMMA ClosedShape ==
    ASSUME NEW seen, Shape(seen), NEW hit, NEW at,
           \A id \in hit : id \in DOMAIN seen /\ id[1] = "price"
    PROVE  Shape([id \in hit |-> [seen[id] EXCEPT !.current = FALSE, !.valid_to = at]])
<1> DEFINE rows == [id \in hit |-> [seen[id] EXCEPT !.current = FALSE, !.valid_to = at]]
<1>1. ASSUME NEW id \in hit
      PROVE  PriceShape(id, rows[id]) /\ id[1] = "price"
  <2>1. PriceShape(id, seen[id])
    BY DEF Shape
  <2> QED
    BY <2>1 DEF PriceShape, PriceColumns
<1> QED
  BY <1>1 DEF Shape

LEMMA ShapeInvariant == Spec => []ShapeInv
<1>1. Init => ShapeInv
  BY DEF Init, ShapeInv, Shape, NoRows
<1>2. TransactionInv /\ ShapeInv /\ [Next]_vars => ShapeInv'
  <2> SUFFICES ASSUME TransactionInv, ShapeInv, [Next]_vars
               PROVE  ShapeInv'
    OBVIOUS
  <2>1. ASSUME NEW b \in Batches
        PROVE  Shape(Seen(b))
    BY ShapeOverlay DEF Seen, ShapeInv
  <2>2. ASSUME UNCHANGED <<writes, db>>
        PROVE  ShapeInv'
    BY <2>2 DEF ShapeInv, Shape
  <2>3. ASSUME NEW b \in Batches, NEW new, Shape(new), UNCHANGED db,
               writes' = [writes EXCEPT ![b] = new]
        PROVE  ShapeInv'
    BY <2>3 DEF ShapeInv, Shape, TransactionInv
  <2>4. ASSUME NEW b \in Batches, ClosePrices(b)
        PROVE  ShapeInv'
    <3> DEFINE hit == {id \in scan[b] \cap DOMAIN Seen(b) : Closes(b, Seen(b)[id])}
               rows == [id \in hit |->
                          [Seen(b)[id] EXCEPT !.current = FALSE, !.valid_to = Record(b).at]]
    <3>1. \A id \in hit : id \in DOMAIN Seen(b) /\ id[1] = "price"
      BY <2>4 DEF ClosePrices, TransactionInv
    <3>2. Shape(rows)
      <4> HIDE DEF hit
      <4> QED
        BY <3>1, <2>1, ClosedShape
    <3>3. Shape(rows (+) writes[b])
      <4> HIDE DEF rows
      <4> QED
        BY <3>2, ShapeOver DEF ShapeInv
    <3>4. writes' = [writes EXCEPT ![b] = rows (+) writes[b]] /\ UNCHANGED db
      BY <2>4 DEF ClosePrices
    <3> HIDE DEF rows
    <3> QED
      BY <3>3, <3>4, <2>3
  <2>5. ASSUME NEW b \in Batches, LoadRecord(b)
        PROVE  ShapeInv'
    <3> DEFINE lineage == Put(<<"lineage", RecordId(b)>>, [from |-> Origin(b)])
               rows == Loaded(b).rows
    <3>1. Shape(rows)
      BY <2>1, <2>5, RecordIsRecord, LoadedShape DEF LoadRecord, Loaded
    <3>2. Shape(lineage)
      BY DEF Put, Shape
    <3>3. Shape(lineage (+) rows (+) writes[b])
      <4> HIDE DEF rows, lineage
      <4>1. Shape(lineage (+) rows)
        BY <3>1, <3>2, ShapeOver
      <4> QED
        BY <4>1, ShapeOver DEF ShapeInv
    <3>4. writes' = [writes EXCEPT ![b] = lineage (+) rows (+) writes[b]] /\ UNCHANGED db
      BY <2>5 DEF LoadRecord
    <3> HIDE DEF rows, lineage
    <3> QED
      BY <3>3, <3>4, <2>3
  <2>6. ASSUME NEW b \in Batches, GiveUp(b)
        PROVE  ShapeInv'
    <3>1. Shape(NoRows)
      BY DEF NoRows, Shape
    <3> QED
      BY <2>6, <2>3, <3>1 DEF GiveUp, Abandon
  <2>7. ASSUME NEW b \in Batches, Commit(b)
        PROVE  ShapeInv'
    <3>1. db' = Seen(b)
      BY <2>7 DEF Commit, Seen
    <3>2. \A c \in Batches : writes'[c] = writes[c] \/ writes'[c] = NoRows
      BY <2>7 DEF Commit, TransactionInv
    <3>3. Shape(db') /\ \A id \in DOMAIN db' : ~IsGone(db'[id])
      BY <3>1, <2>1 DEF Seen, Overlay
    <3>4. ASSUME NEW c \in Batches
          PROVE  Shape(writes'[c])
      <4>1. Shape(NoRows)
        BY DEF NoRows, Shape
      <4> QED
        BY <4>1, <3>2 DEF ShapeInv
    <3> QED
      BY <3>3, <3>4 DEF ShapeInv, Shape
  <2> QED
    BY <2>2, <2>4, <2>5, <2>6, <2>7, NextCases
       DEF Begin, FindPrices, SyncDimensions, transaction, vars
<1> QED
  BY <1>1, <1>2, TransactionInvariant, PTL DEF Spec

\* However often a sale comes, no line of it is there twice: _load_sale
\* identifies a line by the key of its sale, which the row repeats, and its
\* number, and only the loader of sales writes lines.
THEOREM SaleLinesAreCountedOnce == Spec => []SaleLineCountedOnce
<1>1. ShapeInv /\ TransactionInv => SaleLineCountedOnce
  <2> SUFFICES ASSUME ShapeInv, NEW x \in RowsOf("item"), NEW y \in RowsOf("item"),
                      db[x].sale[2] = db[y].sale[2], db[x].sale[3] = db[y].sale[3],
                      db[x].line = db[y].line
               PROVE  x = y
    BY DEF SaleLineCountedOnce
  <2> QED
    BY DEF ShapeInv, Shape, ItemShape, RowsOf
<1> QED
  BY <1>1, ShapeInvariant, TransactionInvariant, PTL

----------------------------------------------------------------------------
(* The newest price.                                                       *)

\* Prices, balances and snapshots are never deleted: a transaction sees those
\* that are committed, in front of them its own.
LEMMA SeenRows ==
    ASSUME NEW new, NEW old, Shape(new), Shape(old),
           NEW id, id[1] \in {"price", "balance", "snapshot"}
    PROVE  /\ id \in DOMAIN Overlay(new, old) <=> id \in DOMAIN new \cup DOMAIN old
           /\ id \in DOMAIN Overlay(new, old) =>
                Overlay(new, old)[id] = IF id \in DOMAIN new THEN new[id] ELSE old[id]
<1> DEFINE all == new (+) old
<1>1. DOMAIN all = DOMAIN new \cup DOMAIN old
  BY DEF \oplus
<1>2. id \in DOMAIN all => all[id] = IF id \in DOMAIN new THEN new[id] ELSE old[id]
  BY DEF \oplus
<1>3. id \in DOMAIN all => ~IsGone(all[id])
  BY <1>2 DEF \oplus, Shape, PriceShape, InstantShape, IsGone, PriceColumns
<1>4. Overlay(new, old) = [i \in {j \in DOMAIN all : ~IsGone(all[j])} |-> all[i]]
  BY DEF Overlay
<1> HIDE DEF all
<1> QED
  BY <1>1, <1>2, <1>3, <1>4

\* What the UPDATE of a price looks for, said of the identifiers.
LEMMA ClosesOlder ==
    ASSUME TransactionInv, ShapeInv, NEW b \in Batches, AtRecord(b), Record(b).entity = "price",
           NEW x \in Prices(Seen(b))
    PROVE  /\ PriceShape(x, Seen(b)[x])
           /\ Closes(b, Seen(b)[x]) <=>
                Seen(b)[x].current /\ Newer(PriceKey(b, Record(b)), x)
<1>1. Shape(Seen(b))
  BY ShapeOverlay DEF ShapeInv, Seen
<1>2. PriceShape(x, Seen(b)[x])
  BY <1>1 DEF Shape, Prices
<1>3. /\ ProductOf(PriceKey(b, Record(b))) = ProductKey(b, Record(b).product)
      /\ PriceKey(b, Record(b))[4] = Record(b).at /\ Record(b).at \in Nat
  BY RecordIsRecord, ProductOfPrice
<1> QED
  BY <1>2, <1>3 DEF Closes, Newer, PriceShape

LEMMA NewestInvariant == Spec => []NewestInv
<1>1. Init => NewestInv
  BY DEF Init, NewestInv, NoRows, Prices
<1>2. TransactionInv /\ ShapeInv /\ NewestInv /\ [Next]_vars => NewestInv'
  <2> SUFFICES ASSUME TransactionInv, ShapeInv, NewestInv, [Next]_vars
               PROVE  NewestInv'
    OBVIOUS
  <2>1. ASSUME NEW b \in Batches, NEW new, UNCHANGED <<db, file>>,
               writes' = [writes EXCEPT ![b] = new],
               \A c \in Batches : c # b => next'[c] = next[c] /\ closed'[c] = closed[c],
               \A x \in Prices(new) :
                  \/ Open(new[x])
                  \/ \E y \in Prices(new) \cup Prices(db) : Newer(y, x)
                  \/ closed'[b] /\ Newer(PriceKey(b, Record(b)'), x)
        PROVE  NewestInv'
    <3>1. writes'[b] = new /\ \A c \in Batches : c # b => writes'[c] = writes[c]
      BY <2>1 DEF TransactionInv
    <3>2. \A c \in Batches : c # b => Record(c)' = Record(c)
      BY <2>1 DEF Record
    <3>3. ASSUME NEW c \in Batches, NEW x \in Prices(writes'[c])
          PROVE  \/ Open(writes'[c][x])
                 \/ \E y \in Prices(writes'[c]) \cup Prices(db) : Newer(y, x)
                 \/ closed'[c] /\ Newer(PriceKey(c, Record(c)'), x)
      BY <2>1, <3>1, <3>2, <3>3 DEF NewestInv
    <3> QED
      BY <2>1, <3>3 DEF NewestInv, PriceKey, Prices
  <2>2. ASSUME UNCHANGED <<writes, db, file, next, closed>>
        PROVE  NewestInv'
    BY <2>2 DEF NewestInv, Prices, Record, PriceKey
  <2>3. ASSUME NEW b \in Batches, ClosePrices(b)
        PROVE  NewestInv'
    <3> DEFINE hit == {id \in scan[b] \cap DOMAIN Seen(b) : Closes(b, Seen(b)[id])}
               rows == [id \in hit |->
                          [Seen(b)[id] EXCEPT !.current = FALSE, !.valid_to = Record(b).at]]
               new == rows (+) writes[b]
    <3>1. /\ AtRecord(b) /\ Record(b).entity = "price" /\ ~closed[b]
          /\ closed' = [closed EXCEPT ![b] = TRUE] /\ UNCHANGED <<db, file, next>>
          /\ writes' = [writes EXCEPT ![b] = new]
      BY <2>3 DEF ClosePrices
    <3>2. \A id \in hit : id \in Prices(Seen(b)) /\ Closes(b, Seen(b)[id])
      BY <2>3 DEF ClosePrices, TransactionInv, Prices
    <3>3. \A id \in hit : Newer(PriceKey(b, Record(b)), id)
      <4> HIDE DEF hit
      <4> QED
        BY <3>1, <3>2, ClosesOlder
    <3>4. Record(b)' = Record(b)
      BY <3>1 DEF Record
    <3>5. ASSUME NEW x \in Prices(new)
          PROVE  \/ Open(new[x])
                 \/ \E y \in Prices(new) \cup Prices(db) : Newer(y, x)
                 \/ closed'[b] /\ Newer(PriceKey(b, Record(b)'), x)
      <4>1. closed'[b]
        BY <3>1 DEF TransactionInv
      <4>2. CASE x \in hit
        BY <4>1, <4>2, <3>3, <3>4
      <4>3. CASE x \notin hit
        <5>1. x \in Prices(writes[b]) /\ new[x] = writes[b][x]
          <6> HIDE DEF hit
          <6> QED
            BY <4>3 DEF Prices, \oplus
        <5>2. Prices(writes[b]) \subseteq Prices(new)
          <6> HIDE DEF rows
          <6> QED
            BY DEF Prices, \oplus
        <5> HIDE DEF new
        <5> QED
          BY <3>1, <5>1, <5>2 DEF NewestInv
      <4> QED
        BY <4>2, <4>3
    <3>6. \A c \in Batches : c # b => next'[c] = next[c] /\ closed'[c] = closed[c]
      BY <3>1 DEF TransactionInv
    <3> HIDE DEF new
    <3> QED
      BY <2>1, <3>1, <3>5, <3>6
  <2>4. ASSUME NEW b \in Batches, LoadRecord(b)
        PROVE  NewestInv'
    <3> DEFINE lineage == Put(<<"lineage", RecordId(b)>>, [from |-> Origin(b)])
               rows == Loaded(b).rows
               new == lineage (+) rows (+) writes[b]
    <3>1. /\ writes' = [writes EXCEPT ![b] = new] /\ UNCHANGED <<db, file>>
          /\ \A c \in Batches : c # b => next'[c] = next[c] /\ closed'[c] = closed[c]
      BY <2>4 DEF LoadRecord, TransactionInv
    <3>2. AtRecord(b) /\ (Record(b).entity = "price" => closed[b])
      BY <2>4 DEF LoadRecord
    <3>3. Record(b) \in Records /\ Record(b).entity \in Entities
      BY <3>2, RecordIsRecord
    <3>4. /\ Prices(new) = Prices(rows) \cup Prices(writes[b])
          /\ \A x \in Prices(rows) : new[x] = rows[x]
          /\ \A x \in Prices(writes[b]) : x \notin Prices(rows) => new[x] = writes[b][x]
      <4>1. DOMAIN lineage = {<<"lineage", RecordId(b)>>}
        BY DEF Put
      <4> HIDE DEF lineage, rows
      <4> QED
        BY <4>1 DEF Prices, \oplus
    <3>5. CASE Record(b).entity # "price"
      <4>1. Prices(rows) = {}
        BY <3>3, <3>5, LoadedTables DEF Loaded
      <4>2. ~closed[b]
        BY <3>5 DEF TransactionInv
      <4> HIDE DEF new, rows
      <4>3. \A x \in Prices(new) :
               Open(new[x]) \/ \E y \in Prices(new) \cup Prices(db) : Newer(y, x)
        BY <3>4, <4>1, <4>2 DEF NewestInv
      <4> QED
        BY <2>1, <3>1, <4>3
    <3>6. CASE Record(b).entity = "price"
      <4> DEFINE id == PriceKey(b, Record(b))
      <4>1. /\ Prices(rows) = {id} /\ rows[id].current
            /\ id \notin DOMAIN Seen(b) => rows[id].valid_to = None
            /\ id \in DOMAIN Seen(b) => rows[id].valid_to = Seen(b)[id].valid_to
        <5>1. id \in DOMAIN rows /\ \A i \in DOMAIN rows : i[1] = "price" => i = id
          BY <3>6, PriceRows DEF Loaded
        <5>2. id[1] = "price"
          BY DEF PriceKey
        <5>3. Prices(rows) = {id}
          BY <5>1, <5>2 DEF Prices
        <5>4. /\ rows[id].current
              /\ id \notin DOMAIN Seen(b) => rows[id].valid_to = None
              /\ id \in DOMAIN Seen(b) => rows[id].valid_to = Seen(b)[id].valid_to
          BY <3>6, PriceRows DEF Loaded
        <5> QED
          BY <5>3, <5>4
      <4>2. /\ id \in DOMAIN Seen(b) <=> id \in Prices(writes[b]) \cup Prices(db)
            /\ id \in DOMAIN Seen(b) =>
                 Seen(b)[id] = IF id \in Prices(writes[b]) THEN writes[b][id] ELSE db[id]
        <5>1. id[1] = "price"
          BY DEF PriceKey
        <5>2. Shape(writes[b]) /\ Shape(db)
          BY DEF ShapeInv
        <5> HIDE DEF id
        <5>3. /\ id \in DOMAIN Seen(b) <=> id \in DOMAIN writes[b] \cup DOMAIN db
              /\ id \in DOMAIN Seen(b) =>
                   Seen(b)[id] = IF id \in DOMAIN writes[b] THEN writes[b][id] ELSE db[id]
          BY <5>1, <5>2, SeenRows DEF Seen
        <5> QED
          BY <5>1, <5>3 DEF Prices
      <4>3. id[4] \in Nat
        BY <3>3, <3>6, ProductOfPrice
      <4> HIDE DEF id, rows, new
      <4>4. Open(rows[id]) \/ \E y \in Prices(new) \cup Prices(db) : Newer(y, id)
        <5>1. ~Newer(id, id)
          BY <4>3 DEF Newer
        <5>2. id \in Prices(writes[b]) => \/ Open(writes[b][id])
                                          \/ \E y \in Prices(writes[b]) \cup Prices(db) : Newer(y, id)
          BY <5>1 DEF NewestInv, id
        <5>3. id \in Prices(db) => Open(db[id]) \/ \E y \in Prices(db) : Newer(y, id)
          BY DEF NewestInv
        <5> QED
          BY <3>4, <4>1, <4>2, <5>2, <5>3 DEF Open
      <4>5. ASSUME NEW x \in Prices(new), x # id
            PROVE  Open(new[x]) \/ \E y \in Prices(new) \cup Prices(db) : Newer(y, x)
        <5>1. x \in Prices(writes[b]) /\ new[x] = writes[b][x]
          BY <3>4, <4>1, <4>5
        <5>2. \/ Open(writes[b][x])
              \/ \E y \in Prices(writes[b]) \cup Prices(db) : Newer(y, x)
              \/ Newer(id, x)
          BY <5>1 DEF NewestInv, id
        <5>3. id \in Prices(new) /\ Prices(writes[b]) \subseteq Prices(new)
          BY <3>4, <4>1
        <5> QED
          BY <5>1, <5>2, <5>3
      <4>6. new[id] = rows[id]
        BY <3>4, <4>1
      <4>7. \A x \in Prices(new) :
               Open(new[x]) \/ \E y \in Prices(new) \cup Prices(db) : Newer(y, x)
        BY <4>4, <4>5, <4>6
      <4> QED
        BY <2>1, <3>1, <4>7
    <3> QED
      BY <3>5, <3>6
  <2>5. ASSUME NEW b \in Batches, GiveUp(b)
        PROVE  NewestInv'
    <3>1. /\ writes' = [writes EXCEPT ![b] = NoRows] /\ UNCHANGED <<db, file>>
          /\ \A c \in Batches : c # b => next'[c] = next[c] /\ closed'[c] = closed[c]
      BY <2>5 DEF GiveUp, Abandon, TransactionInv
    <3>2. Prices(NoRows) = {}
      BY DEF Prices, NoRows
    <3> QED
      BY <2>1, <3>1, <3>2
  <2>6. ASSUME NEW b \in Batches, Commit(b)
        PROVE  NewestInv'
    <3>1. /\ ~closed[b] /\ db' = Overlay(writes[b], db)
          /\ writes' = [writes EXCEPT ![b] = NoRows] /\ UNCHANGED <<file, next, closed>>
      BY <2>6, FilesAssumption DEF Commit, TransactionInv, AtRecord
    <3>2. ASSUME NEW x, x[1] = "price"
          PROVE  /\ x \in DOMAIN db' <=> x \in DOMAIN writes[b] \cup DOMAIN db
                 /\ x \in DOMAIN db' =>
                      db'[x] = IF x \in DOMAIN writes[b] THEN writes[b][x] ELSE db[x]
      <4>1. Shape(writes[b]) /\ Shape(db)
        BY DEF ShapeInv
      <4> QED
        BY <3>1, <3>2, <4>1, SeenRows
    <3>3. /\ Prices(db') = Prices(writes[b]) \cup Prices(db)
          /\ \A x \in Prices(db') :
               db'[x] = IF x \in Prices(writes[b]) THEN writes[b][x] ELSE db[x]
      BY <3>2 DEF Prices
    <3>4. \A x \in Prices(db') : Open(db'[x]) \/ \E y \in Prices(db') : Newer(y, x)
      BY <3>1, <3>3 DEF NewestInv
    <3>5. ASSUME NEW c \in Batches, NEW x \in Prices(writes'[c])
          PROVE  \/ Open(writes'[c][x])
                 \/ \E y \in Prices(writes'[c]) \cup Prices(db') : Newer(y, x)
                 \/ closed'[c] /\ Newer(PriceKey(c, Record(c)'), x)
      <4>1. c # b /\ writes'[c] = writes[c]
        BY <3>1, <3>5 DEF TransactionInv, Prices, NoRows
      <4>2. Record(c)' = Record(c)
        BY <3>1 DEF Record
      <4> QED
        BY <3>1, <3>3, <3>5, <4>1, <4>2 DEF NewestInv
    <3> QED
      BY <3>4, <3>5 DEF NewestInv, PriceKey, Prices
  <2> QED
    BY <2>2, <2>3, <2>4, <2>5, <2>6, NextCases
       DEF Begin, FindPrices, SyncDimensions, transaction, vars
<1> QED
  BY <1>1, <1>2, TransactionInvariant, ShapeInvariant, PTL DEF Spec

\* In whatever order prices come and however the loads overlap, the price that
\* began last is current and has no end: the UPDATE of _load_price closes only
\* prices that began earlier, and its transaction adds the one they end at.
THEOREM NewestPriceStaysCurrent == Spec => []NewestPriceIsCurrent
<1>1. ShapeInv /\ NewestInv => NewestPriceIsCurrent
  <2> SUFFICES ASSUME ShapeInv, NewestInv, NEW x \in RowsOf("price"),
                      ~(db[x].current /\ db[x].valid_to = None)
               PROVE  \E y \in RowsOf("price") : /\ db[y].product = db[x].product
                                                 /\ db[y].valid_from > db[x].valid_from
    BY DEF NewestPriceIsCurrent
  <2>1. RowsOf("price") = Prices(db)
    BY DEF RowsOf, Prices
  <2>2. PICK y \in Prices(db) : Newer(y, x)
    BY <2>1 DEF NewestInv, Open
  <2>3. PriceShape(x, db[x]) /\ PriceShape(y, db[y])
    BY <2>1 DEF ShapeInv, Shape, Prices
  <2> QED
    BY <2>1, <2>2, <2>3 DEF PriceShape, Newer
<1> QED
  BY <1>1, ShapeInvariant, NewestInvariant, PTL

----------------------------------------------------------------------------
(* The orderly history.                                                    *)

\* The same prices, balances and snapshots are as exact.
LEMMA SameRowsSameHistory ==
    ASSUME NEW rows, NEW new,
           \A id : id[1] \in {"price", "balance", "snapshot"} =>
               /\ id \in DOMAIN new <=> id \in DOMAIN rows
               /\ id \in DOMAIN rows => new[id] = rows[id]
    PROVE  /\ ExactPrices(rows) => ExactPrices(new)
           /\ ExactBalances(rows) => ExactBalances(new)
<1>1. Prices(new) = Prices(rows) /\ \A x \in Prices(rows) : new[x] = rows[x]
  BY DEF Prices
<1>2. ASSUME NEW x PROVE Later(new, x) = Later(rows, x)
  BY <1>1 DEF Later
<1>3. ExactPrices(rows) => ExactPrices(new)
  BY <1>1, <1>2 DEF ExactPrices, EndsWhereTheNextBegins
<1>4. ExactBalances(rows) => ExactBalances(new)
  BY DEF ExactBalances
<1> QED
  BY <1>3, <1>4

\* The UPDATE of the newest price closes the one that was the newest.
LEMMA ClosingOlder ==
    ASSUME NEW rows, NEW new, NEW p, p[4] \in Nat, \A x \in Prices(rows) : x[4] \in Nat,
           Prices(new) = Prices(rows),
           \A x \in Prices(rows) :
               IF rows[x].current /\ Newer(p, x)
               THEN ~new[x].current /\ new[x].valid_to = p[4]
               ELSE new[x] = rows[x],
           ExactPrices(rows), AllBefore(rows, p)
    PROVE  ExactUpTo(new, p)
<1> SUFFICES ASSUME NEW x \in Prices(rows)
             PROVE  IF Later(new, x) # {} THEN EndsWhereTheNextBegins(new, x)
                    ELSE IF ProductOf(x) = ProductOf(p)
                         THEN ~new[x].current /\ new[x].valid_to = p[4]
                         ELSE new[x].current
  BY DEF ExactUpTo
<1>1. Later(new, x) = Later(rows, x)
  BY DEF Later
<1>2. CASE Later(rows, x) # {}
  <2>1. EndsWhereTheNextBegins(rows, x)
    BY <1>2 DEF ExactPrices
  <2>2. new[x] = rows[x]
    BY <2>1 DEF EndsWhereTheNextBegins
  <2> QED
    BY <1>1, <1>2, <2>1, <2>2 DEF EndsWhereTheNextBegins
<1>3. CASE Later(rows, x) = {}
  <2>1. rows[x].current
    BY <1>3 DEF ExactPrices
  <2>2. ProductOf(x) = ProductOf(p) <=> Newer(p, x)
    BY DEF AllBefore, Newer
  <2> QED
    BY <1>1, <1>3, <2>1, <2>2
<1> QED
  BY <1>2, <1>3

\* Its INSERT adds the price at which that one ends.
LEMMA AddingNewest ==
    ASSUME NEW rows, NEW new, NEW p, p[1] = "price", p[4] \in Nat,
           \A x \in Prices(rows) : x[4] \in Nat,
           Prices(new) = Prices(rows) \cup {p}, p \notin Prices(rows),
           \A x \in Prices(rows) : new[x] = rows[x], new[p].current,
           ExactUpTo(rows, p), AllBefore(rows, p)
    PROVE  ExactPrices(new)
<1>1. Later(new, p) = {}
  BY DEF Later, AllBefore, Newer
<1>2. ASSUME NEW x \in Prices(rows)
      PROVE  IF Later(new, x) = {} THEN new[x].current ELSE EndsWhereTheNextBegins(new, x)
  <2>1. CASE ProductOf(x) # ProductOf(p)
    <3>1. Later(new, x) = Later(rows, x)
      BY <2>1 DEF Later, Newer
    <3> QED
      BY <2>1, <3>1 DEF ExactUpTo, EndsWhereTheNextBegins
  <2>2. CASE ProductOf(x) = ProductOf(p)
    <3>1. Newer(p, x)
      BY <2>2 DEF Newer, AllBefore
    <3>2. Later(new, x) = Later(rows, x) \cup {p}
      BY <3>1 DEF Later
    <3>3. CASE Later(rows, x) = {}
      BY <2>2, <3>2, <3>3 DEF ExactUpTo, EndsWhereTheNextBegins
    <3>4. CASE Later(rows, x) # {}
      <4>1. EndsWhereTheNextBegins(rows, x)
        BY <3>4 DEF ExactUpTo
      <4>2. PICK y \in Later(rows, x) : /\ rows[x].valid_to = y[4]
                                        /\ \A z \in Later(rows, x) : y[4] <= z[4]
        BY <4>1 DEF EndsWhereTheNextBegins
      <4>3. y[4] < p[4] /\ y[4] \in Nat
        BY <2>2 DEF AllBefore, Later, Newer
      <4>4. y \in Later(new, x) /\ \A z \in Later(new, x) : y[4] <= z[4]
        BY <3>2, <4>2, <4>3
      <4>5. ~new[x].current /\ new[x].valid_to = y[4]
        BY <4>1, <4>2 DEF EndsWhereTheNextBegins
      <4> QED
        BY <4>4, <4>5 DEF EndsWhereTheNextBegins
    <3> QED
      BY <3>3, <3>4
  <2> QED
    BY <2>1, <2>2
<1> QED
  BY <1>1, <1>2 DEF ExactPrices

\* What a statement sees after its transaction has written.
LEMMA SeenAfter ==
    ASSUME NEW new, NEW own, NEW old, Shape(new), Shape(own), Shape(old),
           NEW id, id[1] \in {"price", "balance", "snapshot"}
    PROVE  LET before == Overlay(own, old)
               after == Overlay(new (+) own, old)
           IN /\ id \in DOMAIN after <=> id \in DOMAIN new \cup DOMAIN before
              /\ id \in DOMAIN after =>
                   after[id] = IF id \in DOMAIN new THEN new[id] ELSE before[id]
<1> DEFINE all == new (+) own
           before == Overlay(own, old)
           after == Overlay(all, old)
<1>1. Shape(all)
  BY ShapeOver
<1>2. /\ DOMAIN all = DOMAIN new \cup DOMAIN own
      /\ id \in DOMAIN all => all[id] = IF id \in DOMAIN new THEN new[id] ELSE own[id]
  BY DEF \oplus
<1> HIDE DEF all
<1>3. /\ id \in DOMAIN before <=> id \in DOMAIN own \cup DOMAIN old
      /\ id \in DOMAIN before => before[id] = IF id \in DOMAIN own THEN own[id] ELSE old[id]
  BY SeenRows
<1>4. /\ id \in DOMAIN after <=> id \in DOMAIN all \cup DOMAIN old
      /\ id \in DOMAIN after => after[id] = IF id \in DOMAIN all THEN all[id] ELSE old[id]
  BY <1>1, SeenRows
<1> HIDE DEF before, after
<1>5. id \in DOMAIN after <=> id \in DOMAIN new \cup DOMAIN before
  BY <1>2, <1>3, <1>4
<1>6. id \in DOMAIN after =>
        after[id] = IF id \in DOMAIN new THEN new[id] ELSE before[id]
  BY <1>2, <1>3, <1>4
<1> QED
  BY <1>5, <1>6 DEF before, after, all

\* A record of a price is in order when it is the newest of its product.
LEMMA InOrderPrice ==
    ASSUME TransactionInv, ShapeInv, NEW b \in Batches, AtRecord(b),
           Record(b).entity = "price", InOrder(b)
    PROVE  AllBefore(Seen(b), PriceKey(b, Record(b)))
<1> SUFFICES ASSUME NEW x \in Prices(Seen(b)), ProductOf(x) = ProductOf(PriceKey(b, Record(b)))
             PROVE  x[4] < PriceKey(b, Record(b))[4]
  BY DEF AllBefore
<1>1. PriceShape(x, Seen(b)[x])
  BY ClosesOlder
<1>2. /\ ProductOf(PriceKey(b, Record(b))) = ProductKey(b, Record(b).product)
      /\ PriceKey(b, Record(b))[4] = Record(b).at
  BY RecordIsRecord, ProductOfPrice
<1>3. x[4] \in PriceInstants(Seen(b), ProductKey(b, Record(b).product))
  BY <1>1, <1>2 DEF PriceInstants, PriceShape, Prices
<1> QED
  BY <1>2, <1>3 DEF InOrder

\* The balance of the newest stock bounds every snapshot of its product.
LEMMA NewestBalance ==
    ASSUME NEW b \in Batches, NEW r \in Records, r.entity = "stock",
           NEW seen, Shape(seen), ExactBalances(seen),
           \A t \in StockInstants(seen, ProductKey(b, r.product)) : t < r.at,
           NEW after,
           \A id : id[1] \in {"balance", "snapshot"} =>
               /\ id \in DOMAIN after <=> id \in DOMAIN Loader(b, r, seen).rows \cup DOMAIN seen
               /\ id \in DOMAIN after =>
                    after[id] = IF id \in DOMAIN Loader(b, r, seen).rows
                                THEN Loader(b, r, seen).rows[id] ELSE seen[id]
    PROVE  ExactBalances(after)
<1> DEFINE rows == Loader(b, r, seen).rows
           product == ProductKey(b, r.product)
<1>1. r.at \in Nat
  BY FilesAssumption
<1>2. /\ BalanceKey(product) \in DOMAIN rows
      /\ rows[BalanceKey(product)].instant = r.at
      /\ \A id \in DOMAIN rows : id[1] = "balance" => id = BalanceKey(product)
      /\ \A id \in DOMAIN rows : id[1] = "snapshot" =>
             rows[id].product = product /\ rows[id].instant = r.at
  BY StockRows
<1>3. \A y \in DOMAIN seen : y[1] = "snapshot" /\ seen[y].product = product =>
          seen[y].instant < r.at
  BY DEF StockInstants
<1>4. \A id : id[1] \in {"balance", "snapshot"} =>
          /\ id \in DOMAIN after <=> id \in DOMAIN rows \cup DOMAIN seen
          /\ id \in DOMAIN after => after[id] = IF id \in DOMAIN rows THEN rows[id] ELSE seen[id]
  OBVIOUS
<1> HIDE DEF rows, product
<1> SUFFICES ASSUME NEW x \in DOMAIN after, NEW y \in DOMAIN after,
                    x[1] = "balance", y[1] = "snapshot", after[y].product = x[2]
             PROVE  after[y].instant <= after[x].instant
  BY DEF ExactBalances
<1>5. CASE x = BalanceKey(product)
  <2>1. x[2] = product
    BY <1>5 DEF BalanceKey
  <2>2. after[x].instant = r.at
    BY <1>2, <1>4, <1>5
  <2>3. CASE y \in DOMAIN rows
    BY <1>1, <1>2, <1>4, <2>2, <2>3
  <2>4. CASE y \notin DOMAIN rows
    <3>1. y \in DOMAIN seen /\ after[y] = seen[y]
      BY <1>4, <2>4
    <3>2. after[y].instant \in Nat
      BY <3>1 DEF Shape, InstantShape
    <3> QED
      BY <1>1, <1>3, <2>1, <2>2, <3>1, <3>2
  <2> QED
    BY <2>3, <2>4
<1>6. CASE x # BalanceKey(product)
  <2>1. x \in DOMAIN seen /\ after[x] = seen[x]
    BY <1>2, <1>4, <1>6
  <2>2. x = BalanceKey(x[2])
    BY <2>1 DEF Shape, InstantShape
  <2>3. y \notin DOMAIN rows
    BY <1>2, <1>4, <1>6, <2>2
  <2>4. y \in DOMAIN seen /\ after[y] = seen[y]
    BY <1>4, <2>3
  <2> QED
    BY <2>1, <2>4 DEF ExactBalances
<1> QED
  BY <1>5, <1>6

LEMMA OrderlyInvariant == Spec => []OrderlyInv
<1>1. Init => OrderlyInv
  BY DEF Init, OrderlyInv, Orderly, NoRows, ExactPrices, ExactBalances, Prices
<1>2. /\ TransactionInv /\ ShapeInv /\ OrderlyInv /\ [Next]_vars
      => OrderlyInv'
  <2> SUFFICES ASSUME TransactionInv, ShapeInv, OrderlyInv, [Next]_vars, tidy'
               PROVE  OrderlyInv'
    BY DEF OrderlyInv
  <2>1. tidy
    BY NextCases
       DEF Begin, FindPrices, ClosePrices, LoadRecord, Commit, GiveUp, SyncDimensions, vars,
           TransactionInv
  <2>2. /\ \A b, c \in Batches : phase[b] = "loading" /\ phase[c] = "loading" => b = c
        /\ ExactPrices(db) /\ ExactBalances(db)
        /\ \A b \in Batches : Orderly(b)
    BY <2>1 DEF OrderlyInv
  <2>3. ASSUME NEW c \in Batches, UNCHANGED <<file, db>>,
               phase'[c] = phase[c], next'[c] = next[c], scan'[c] = scan[c],
               closed'[c] = closed[c], writes'[c] = writes[c]
        PROVE  Orderly(c)'
    <3>1. Seen(c)' = Seen(c)
      BY <2>3 DEF Seen
    <3>2. Record(c)' = Record(c) /\ PriceKey(c, Record(c))' = PriceKey(c, Record(c))
      BY <2>3 DEF Record, PriceKey
    <3>3. Found(c)' = Found(c)
      BY <3>1, <3>2 DEF Found, Closes, ProductKey
    <3>4. Orderly(c)
      BY <2>2
    <3> QED
      BY <2>3, <3>1, <3>2, <3>3, <3>4 DEF Orderly
  <2>4. ASSUME NEW b \in Batches, UNCHANGED <<file, db>>,
               \A c \in Batches : c # b =>
                   /\ phase'[c] = phase[c] /\ next'[c] = next[c] /\ scan'[c] = scan[c]
                   /\ closed'[c] = closed[c] /\ writes'[c] = writes[c],
               phase'[b] = "loading" => phase[b] = "loading" /\ Orderly(b)'
        PROVE  OrderlyInv'
    <3>1. Orderly(b)'
      BY <2>4 DEF Orderly
    <3>2. \A c \in Batches : Orderly(c)'
      BY <2>3, <2>4, <3>1
    <3>3. \A c, d \in Batches : phase'[c] = "loading" /\ phase'[d] = "loading" => c = d
      BY <2>2, <2>4
    <3> QED
      BY <2>2, <2>4, <3>2, <3>3 DEF OrderlyInv
  <2>5. ASSUME NEW b \in Batches, Begin(b)
        PROVE  OrderlyInv'
    <3>1. /\ UNCHANGED <<file, db, next, scan, closed, writes>>
          /\ \A c \in Batches : phase[c] # "loading"
          /\ phase' = [phase EXCEPT ![b] = "loading"]
      BY <2>5 DEF Begin
    <3>2. writes[b] = NoRows /\ scan[b] = None /\ ~closed[b]
      BY <3>1 DEF TransactionInv, AtRecord
    <3>3. Seen(b)' = Overlay(NoRows, db)
      BY <3>1, <3>2 DEF Seen
    <3>4. ASSUME NEW id, id[1] \in {"price", "balance", "snapshot"}
          PROVE  /\ id \in DOMAIN Overlay(NoRows, db) <=> id \in DOMAIN db
                 /\ id \in DOMAIN db => Overlay(NoRows, db)[id] = db[id]
      <4>1. Shape(NoRows) /\ Shape(db) /\ DOMAIN NoRows = {}
        BY DEF ShapeInv, NoRows, Shape
      <4>2. /\ id \in DOMAIN Overlay(NoRows, db) <=> id \in DOMAIN NoRows \cup DOMAIN db
            /\ id \in DOMAIN Overlay(NoRows, db) =>
                 Overlay(NoRows, db)[id] = IF id \in DOMAIN NoRows THEN NoRows[id] ELSE db[id]
        BY <3>4, <4>1, SeenRows
      <4> QED
        BY <4>1, <4>2
    <3>5. ExactPrices(Overlay(NoRows, db)) /\ ExactBalances(Overlay(NoRows, db))
      BY <2>2, <3>4, SameRowsSameHistory
    <3>6. Orderly(b)'
      BY <3>1, <3>2, <3>3, <3>5 DEF Orderly
    <3>7. \A c \in Batches : c # b => phase'[c] # "loading"
      BY <3>1 DEF TransactionInv
    <3>8. \A c \in Batches : Orderly(c)'
      BY <3>6, <3>7 DEF Orderly
    <3> QED
      BY <2>2, <3>1, <3>7, <3>8 DEF OrderlyInv
  <2>6. ASSUME NEW b \in Batches, FindPrices(b)
        PROVE  OrderlyInv'
    <3>1. /\ UNCHANGED <<file, phase, next, closed, writes, db>>
          /\ phase[b] = "loading" /\ ~closed[b]
          /\ scan' = [scan EXCEPT ![b] = Found(b)]
      BY <2>6 DEF FindPrices, AtRecord, Found
    <3>2. Seen(b)' = Seen(b)
      BY <3>1 DEF Seen
    <3>3. Record(b)' = Record(b)
      BY <3>1 DEF Record
    <3>4. Found(b)' = Found(b)
      BY <3>2, <3>3 DEF Found, Closes, ProductKey
    <3>5. ExactBalances(Seen(b)) /\ ExactPrices(Seen(b))
      BY <2>2, <3>1 DEF Orderly
    <3>6. scan'[b] = Found(b)
      BY <3>1 DEF TransactionInv
    <3>7. Orderly(b)'
      BY <3>1, <3>2, <3>4, <3>5, <3>6 DEF Orderly
    <3>8. \A c \in Batches : c # b => scan'[c] = scan[c]
      BY <3>1 DEF TransactionInv
    <3> QED
      BY <2>4, <3>1, <3>7, <3>8
  <2>7. ASSUME NEW b \in Batches, ClosePrices(b)
        PROVE  OrderlyInv'
    <3> DEFINE p == PriceKey(b, Record(b))
               hit == {id \in scan[b] \cap DOMAIN Seen(b) : Closes(b, Seen(b)[id])}
               rows == [id \in hit |->
                          [Seen(b)[id] EXCEPT !.current = FALSE, !.valid_to = Record(b).at]]
               after == Overlay(rows (+) writes[b], db)
    <3>1. /\ UNCHANGED <<file, phase, next, db>>
          /\ AtRecord(b) /\ Record(b).entity = "price" /\ ~closed[b] /\ scan[b] # None
          /\ closed' = [closed EXCEPT ![b] = TRUE] /\ scan' = [scan EXCEPT ![b] = None]
          /\ writes' = [writes EXCEPT ![b] = rows (+) writes[b]]
      BY <2>7 DEF ClosePrices
    <3>2. phase[b] = "loading"
      BY <3>1 DEF AtRecord
    <3>3. Seen(b)' = after
      BY <3>1 DEF Seen, TransactionInv
    <3>4. PriceKey(b, Record(b))' = p
      BY <3>1 DEF Record, PriceKey
    <3>5. /\ ExactBalances(Seen(b)) /\ ExactPrices(Seen(b))
          /\ scan[b] = Found(b)
      BY <2>2, <3>1, <3>2 DEF Orderly
    <3>6. \A id : id \in hit <=> id \in Prices(Seen(b)) /\ Closes(b, Seen(b)[id])
      BY <3>5 DEF Found, Prices
    <3>7. ASSUME NEW x \in Prices(Seen(b))
          PROVE  /\ PriceShape(x, Seen(b)[x])
                 /\ x \in hit <=> Seen(b)[x].current /\ Newer(p, x)
      <4> HIDE DEF hit
      <4> QED
        BY <3>1, <3>6, ClosesOlder
    <3>8. p[4] = Record(b).at /\ p[4] \in Nat
      BY <3>1, RecordIsRecord, ProductOfPrice
    <3>9. ASSUME NEW x \in hit
          PROVE  ~rows[x].current /\ rows[x].valid_to = p[4]
      <4>1. PriceShape(x, Seen(b)[x])
        BY <3>6, <3>7
      <4> QED
        BY <3>8, <4>1 DEF PriceShape, PriceColumns
    <3>10. Shape(rows) /\ DOMAIN rows = hit
      <4>1. \A id \in hit : id \in DOMAIN Seen(b) /\ id[1] = "price"
        BY <3>6 DEF Prices
      <4>2. Shape(Seen(b))
        BY ShapeOverlay DEF ShapeInv, Seen
      <4> HIDE DEF hit
      <4> QED
        BY <4>1, <4>2, ClosedShape
    <3>11. ASSUME NEW id, id[1] \in {"price", "balance", "snapshot"}
           PROVE  /\ id \in DOMAIN after <=> id \in hit \cup DOMAIN Seen(b)
                  /\ id \in DOMAIN after => after[id] = IF id \in hit THEN rows[id] ELSE Seen(b)[id]
      <4>1. Shape(writes[b]) /\ Shape(db)
        BY DEF ShapeInv
      <4> HIDE DEF rows, hit
      <4>2. /\ id \in DOMAIN after <=> id \in DOMAIN rows \cup DOMAIN Seen(b)
            /\ id \in DOMAIN after =>
                 after[id] = IF id \in DOMAIN rows THEN rows[id] ELSE Seen(b)[id]
        BY <3>10, <3>11, <4>1, SeenAfter DEF Seen
      <4> QED
        BY <3>10, <4>2
    <3> HIDE DEF hit, rows, after, p
    <3>12. Prices(after) = Prices(Seen(b))
      BY <3>6, <3>11 DEF Prices
    <3>13. ASSUME AllBefore(Seen(b), p)
           PROVE  ExactUpTo(after, p)
      <4>1. \A x \in Prices(Seen(b)) : x[4] \in Nat
        BY <3>7 DEF PriceShape
      <4>2. \A x \in Prices(Seen(b)) :
               IF Seen(b)[x].current /\ Newer(p, x)
               THEN ~after[x].current /\ after[x].valid_to = p[4]
               ELSE after[x] = Seen(b)[x]
        BY <3>7, <3>9, <3>11 DEF Prices
      <4> QED
        BY <3>5, <3>8, <3>12, <3>13, <4>1, <4>2, ClosingOlder
    <3>14. AllBefore(after, p) <=> AllBefore(Seen(b), p)
      BY <3>12 DEF AllBefore
    <3>15. ExactBalances(after)
      BY <3>5, <3>6, <3>11 DEF ExactBalances, Prices
    <3>16. scan'[b] = None /\ closed'[b]
      BY <3>1 DEF TransactionInv
    <3>17. Orderly(b)'
      BY <3>3, <3>4, <3>13, <3>14, <3>15, <3>16 DEF Orderly
    <3>18. \A c \in Batches : c # b =>
               /\ phase'[c] = phase[c] /\ next'[c] = next[c] /\ scan'[c] = scan[c]
               /\ closed'[c] = closed[c] /\ writes'[c] = writes[c]
      BY <3>1 DEF TransactionInv
    <3> QED
      BY <2>4, <3>1, <3>2, <3>17, <3>18
  <2>8. ASSUME NEW b \in Batches, LoadRecord(b)
        PROVE  OrderlyInv'
    <3> DEFINE p == PriceKey(b, Record(b))
               lineage == Put(<<"lineage", RecordId(b)>>, [from |-> Origin(b)])
               rows == Loaded(b).rows
               after == Overlay(lineage (+) rows (+) writes[b], db)
    <3>1. /\ UNCHANGED <<file, phase, scan, db>>
          /\ AtRecord(b) /\ (Record(b).entity = "price" => closed[b]) /\ InOrder(b)
          /\ closed' = [closed EXCEPT ![b] = FALSE] /\ next' = [next EXCEPT ![b] = @ + 1]
          /\ writes' = [writes EXCEPT ![b] = lineage (+) rows (+) writes[b]]
      BY <2>8 DEF LoadRecord
    <3>2. phase[b] = "loading" /\ scan[b] = None /\ (closed[b] <=> Record(b).entity = "price")
      BY <3>1 DEF AtRecord, TransactionInv
    <3>3. Seen(b)' = after
      BY <3>1 DEF Seen, TransactionInv
    <3>4. Record(b) \in Records /\ Record(b).entity \in Entities
      BY <3>1, RecordIsRecord
    <3>5. Shape(Seen(b)) /\ Shape(writes[b]) /\ Shape(db)
      BY ShapeOverlay DEF ShapeInv, Seen
    <3>6. Shape(rows)
      BY <3>4, <3>5, LoadedShape DEF Loaded
    <3>7. ASSUME NEW id, id[1] \in {"price", "balance", "snapshot"}
           PROVE  /\ id \in DOMAIN after <=> id \in DOMAIN rows \cup DOMAIN Seen(b)
                  /\ id \in DOMAIN after =>
                       after[id] = IF id \in DOMAIN rows THEN rows[id] ELSE Seen(b)[id]
      <4> DEFINE new == lineage (+) rows
      <4>1. DOMAIN lineage = {<<"lineage", RecordId(b)>>} /\ Shape(lineage)
        BY DEF Put, Shape
      <4> HIDE DEF lineage, rows
      <4>2. Shape(new)
        BY <3>6, <4>1, ShapeOver
      <4>3. /\ id \in DOMAIN new <=> id \in DOMAIN rows
            /\ id \in DOMAIN rows => new[id] = rows[id]
        BY <3>7, <4>1 DEF \oplus
      <4> HIDE DEF new
      <4>4. /\ id \in DOMAIN Overlay(new (+) writes[b], db) <=> id \in DOMAIN new \cup DOMAIN Seen(b)
            /\ id \in DOMAIN Overlay(new (+) writes[b], db) =>
                 Overlay(new (+) writes[b], db)[id] =
                     IF id \in DOMAIN new THEN new[id] ELSE Seen(b)[id]
        BY <3>5, <3>7, <4>2, SeenAfter DEF Seen
      <4>5. after = Overlay(new (+) writes[b], db)
        BY DEF new
      <4> HIDE DEF after
      <4> QED
        BY <4>3, <4>4, <4>5
    <3>8. ExactBalances(Seen(b))
      BY <2>2, <3>2 DEF Orderly
    <3> HIDE DEF after, lineage
    <3>9. ExactBalances(after)
      <4>1. CASE Record(b).entity = "stock"
        <5>1. \A t \in StockInstants(Seen(b), ProductKey(b, Record(b).product)) : t < Record(b).at
          BY <3>1, <4>1 DEF InOrder
        <5> QED
          BY <3>4, <3>5, <3>7, <3>8, <4>1, <5>1, NewestBalance DEF Loaded
      <4>2. CASE Record(b).entity # "stock"
        <5>1. \A id \in DOMAIN rows : id[1] \notin {"balance", "snapshot"}
          BY <3>4, <4>2, LoadedTables DEF Loaded
        <5> HIDE DEF rows
        <5> QED
          BY <3>7, <3>8, <5>1 DEF ExactBalances
      <4> QED
        BY <4>1, <4>2
    <3>10. ExactPrices(after)
      <4>1. CASE Record(b).entity = "price"
        <5>1. AllBefore(Seen(b), p)
          BY <3>1, <4>1, InOrderPrice
        <5>2. ExactUpTo(Seen(b), p)
          BY <2>2, <3>2, <4>1, <5>1 DEF Orderly
        <5>3. p[1] = "price" /\ p[4] \in Nat
          BY <3>4, <4>1, ProductOfPrice DEF PriceKey
        <5>4. /\ p \in DOMAIN rows /\ rows[p].current
              /\ \A id \in DOMAIN rows : id[1] = "price" => id = p
          <6>1. p \in DOMAIN rows /\ \A id \in DOMAIN rows : id[1] = "price" => id = p
            BY <4>1, PriceRows DEF Loaded
          <6>2. rows[p].current
            BY <4>1, PriceRows DEF Loaded
          <6> QED
            BY <6>1, <6>2
        <5> HIDE DEF rows, p
        <5>5. p \notin Prices(Seen(b))
          BY <5>1, <5>3 DEF AllBefore
        <5>6. \A x \in Prices(Seen(b)) : x[4] \in Nat
          BY <3>5 DEF Shape, PriceShape, Prices
        <5>7. Prices(after) = Prices(Seen(b)) \cup {p}
          BY <3>7, <5>3, <5>4 DEF Prices
        <5>8. after[p].current /\ \A x \in Prices(Seen(b)) : after[x] = Seen(b)[x]
          BY <3>7, <5>3, <5>4, <5>5 DEF Prices
        <5> QED
          BY <5>1, <5>2, <5>3, <5>5, <5>6, <5>7, <5>8, AddingNewest
      <4>2. CASE Record(b).entity # "price"
        <5>1. ExactPrices(Seen(b))
          BY <2>2, <3>2, <4>2 DEF Orderly
        <5>2. \A id \in DOMAIN rows : id[1] # "price"
          BY <3>4, <4>2, LoadedTables DEF Loaded, Prices
        <5> HIDE DEF rows
        <5>3. Prices(after) = Prices(Seen(b)) /\ \A x \in Prices(Seen(b)) : after[x] = Seen(b)[x]
          BY <3>7, <5>2 DEF Prices
        <5>4. \A x : Later(after, x) = Later(Seen(b), x)
          BY <5>3 DEF Later
        <5> QED
          BY <5>1, <5>3, <5>4 DEF ExactPrices, EndsWhereTheNextBegins
      <4> QED
        BY <4>1, <4>2
    <3>11. scan'[b] = None /\ ~closed'[b] /\ phase'[b] = "loading"
      BY <3>1, <3>2 DEF TransactionInv
    <3>12. Orderly(b)'
      BY <3>3, <3>9, <3>10, <3>11 DEF Orderly
    <3>13. \A c \in Batches : c # b =>
               /\ phase'[c] = phase[c] /\ next'[c] = next[c] /\ scan'[c] = scan[c]
               /\ closed'[c] = closed[c] /\ writes'[c] = writes[c]
      BY <3>1 DEF TransactionInv
    <3> QED
      BY <2>4, <3>1, <3>2, <3>12, <3>13
  <2>9. ASSUME NEW b \in Batches, GiveUp(b)
        PROVE  OrderlyInv'
    <3>1. /\ UNCHANGED <<file, db>> /\ phase'[b] # "loading"
          /\ \A c \in Batches : c # b =>
               /\ phase'[c] = phase[c] /\ next'[c] = next[c] /\ scan'[c] = scan[c]
               /\ closed'[c] = closed[c] /\ writes'[c] = writes[c]
      BY <2>9 DEF GiveUp, Abandon, TransactionInv
    <3> QED
      BY <2>4, <3>1
  <2>10. ASSUME NEW b \in Batches, Commit(b)
         PROVE  OrderlyInv'
    <3>1. /\ phase[b] = "loading" /\ ~closed[b] /\ db' = Seen(b)
          /\ phase' = [phase EXCEPT ![b] = "loaded"]
      BY <2>10, FilesAssumption DEF Commit, Seen, TransactionInv, AtRecord
    <3>2. \A c \in Batches : phase'[c] # "loading"
      BY <2>2, <3>1 DEF TransactionInv
    <3>3. ExactPrices(Seen(b)) /\ ExactBalances(Seen(b))
      BY <2>2, <3>1 DEF Orderly
    <3> QED
      BY <3>1, <3>2, <3>3 DEF OrderlyInv, Orderly
  <2>11. ASSUME UNCHANGED <<file, phase, next, scan, closed, writes, db>>
         PROVE  OrderlyInv'
    BY <2>2, <2>3, <2>11 DEF OrderlyInv
  <2> QED
    BY <2>5, <2>6, <2>7, <2>8, <2>9, <2>10, <2>11, NextCases
       DEF SyncDimensions, transaction, vars
<1> QED
  BY <1>1, <1>2, TransactionInvariant, ShapeInvariant, PTL DEF Spec

\* When batches come one by one and their records in order, one price of a
\* product is current and each other one ends where the next begins, and the
\* balance is the one of the last snapshot (_load_price, _load_stock).
THEOREM OrderlyHistoryIsKept == Spec => []OrderlyHistoryIsExact
<1>1. ShapeInv /\ OrderlyInv => OrderlyHistoryIsExact
  <2> SUFFICES ASSUME ShapeInv, OrderlyInv, tidy
               PROVE  OrderlyHistoryIsExact
    BY DEF OrderlyHistoryIsExact
  <2>1. ExactPrices(db) /\ ExactBalances(db)
    BY DEF OrderlyInv
  <2>2. RowsOf("price") = Prices(db)
    BY DEF RowsOf, Prices
  <2>3. ASSUME NEW x \in Prices(db)
        PROVE  Later(db, x) = {y \in RowsOf("price") : /\ db[y].product = db[x].product
                                                       /\ db[y].valid_from > db[x].valid_from}
    BY <2>2 DEF Later, Newer, ShapeInv, Shape, PriceShape, Prices
  <2>4. ASSUME NEW x \in Prices(db)
        PROVE  IF Later(db, x) = {} THEN db[x].current
               ELSE ~db[x].current /\ \E y \in Later(db, x) :
                      /\ db[x].valid_to = db[y].valid_from
                      /\ \A z \in Later(db, x) : db[y].valid_from <= db[z].valid_from
    <3>1. \A y \in Later(db, x) : db[y].valid_from = y[4]
      BY DEF Later, ShapeInv, Shape, PriceShape, Prices
    <3> QED
      BY <2>1, <3>1 DEF ExactPrices, EndsWhereTheNextBegins
  <2>5. \A x \in RowsOf("balance"), y \in RowsOf("snapshot") :
            db[y].product = x[2] => db[y].instant <= db[x].instant
    BY <2>1 DEF ExactBalances, RowsOf
  <2> QED
    BY <2>2, <2>3, <2>4, <2>5 DEF OrderlyHistoryIsExact
<1> QED
  BY <1>1, ShapeInvariant, OrderlyInvariant, PTL

============================================================================
