-------------------------- MODULE CanonicalHistory --------------------------
(***************************************************************************)
(* What the six loaders make of the records of several batches: products,  *)
(* suppliers, sales, purchases, stock and prices, and the dimension        *)
(* members that a refresh derives from them.                               *)
(*                                                                         *)
(* A batch is loaded by one transaction, record by record, while other     *)
(* batches are loaded by theirs at READ COMMITTED: a statement sees what   *)
(* is committed and what its own transaction wrote, and waits for a row    *)
(* that another one has written.  A failed or a deadlocked transaction     *)
(* leaves nothing and is tried again, possibly after a later batch.        *)
(*                                                                         *)
(* A row is identified by a tuple: the name of its table and the values    *)
(* its identifier is computed from.  All batches are of one tenant and one *)
(* branch, both of which are part of every identifier.                     *)
(***************************************************************************)
EXTENDS Naturals, Sequences

CONSTANTS
    Batches,
    SourceOf,      \* the data source of a batch
    Files,         \* what a batch may hold: sequences of records, in load order
    MaxAttempts,   \* bound: deliveries of the load message (6 in the code)
    None

Entities == {"product", "supplier", "sale", "purchase", "stock", "price"}
Records == UNION {{f[i] : i \in 1 .. Len(f)} : f \in Files}

\* A file is a sequence of records of the six entities.
ASSUME FilesAssumption ==
    /\ \A f \in Files : Len(f) \in Nat
    /\ \A r \in Records : /\ r.entity \in Entities
                          /\ r.entity \in {"stock", "price"} => r.at \in Nat

\* A source does not use the external id of a price again, for the same
\* beginning, with another product.
ASSUME PriceIdAssumption ==
    \A b, c \in Batches, r, s \in Records :
        /\ SourceOf[b] = SourceOf[c]
        /\ r.entity = "price" /\ s.entity = "price"
        /\ r.external = s.external /\ r.at = s.at
        => r.product = s.product

VARIABLES
    file,      \* the records of each batch
    phase,     \* of its load: "waiting", "loading", "loaded" or "failed"
    attempt,
    next,      \* the record that is loaded next
    started,   \* when its transaction began (now() of the transaction)
    scan,      \* the prices its UPDATE has found and not yet locked, or None
    closed,    \* the UPDATE of the prices of the next record is done
    writes,    \* the rows its transaction has written
    db,        \* the committed rows
    clock,
    members,   \* the versions of the dimension members
    refresh,   \* of the dimensions: "due" after a commit, "done" or "failed"
    tidy       \* history: batches came one by one and their records in order

transaction == <<attempt, next, started, scan, closed, writes>>
vars == <<file, phase, transaction, db, clock, members, refresh, tidy>>

NoRows == << >>

\* One row, and the rows `new' in front of the rows `old'.
Put(id, row) == [i \in {id} |-> row]
new (+) old == [id \in DOMAIN new \cup DOMAIN old |-> IF id \in DOMAIN new THEN new[id] ELSE old[id]]

Gone == [gone |-> TRUE]
IsGone(row) == "gone" \in DOMAIN row

\* Rows after the changes `new', deletions included.
Overlay(new, old) ==
    LET all == new (+) old
    IN [id \in {i \in DOMAIN all : ~IsGone(all[i])} |-> all[id]]

\* What a statement of the batch sees.
Seen(b) == Overlay(writes[b], db)

----------------------------------------------------------------------------
(* The rows a record becomes.  `ok' is FALSE when the database refuses     *)
(* one: a key that exists with another conflict target, or a reference to  *)
(* a row that does not.                                                    *)

Rows(ok, rows) == [ok |-> ok, rows |-> rows]
RecordId(b) == <<b, next[b]>>
Origin(b) == [batch |-> b, at |-> started[b]]

\* ON CONFLICT DO UPDATE: `kept' are the columns the update leaves alone.
Upsert(seen, id, row, kept) ==
    Put(id, IF id \in DOMAIN seen
            THEN [c \in DOMAIN row |-> IF c \in kept THEN seen[id][c] ELSE row[c]]
            ELSE row)

\* ON CONFLICT DO NOTHING.
InsertOnce(seen, id, row) == IF id \in DOMAIN seen THEN NoRows ELSE Put(id, row)

ProductKey(b, code) == <<"product", SourceOf[b], code>>
SupplierKey(b, code) == <<"supplier", SourceOf[b], code>>

\* The tenant's brands are shared by the sources; an identifier belongs to
\* the product that named it last, and keeps the moment it was created.
LoadProduct(b, r, seen) ==
    Rows(TRUE,
         Upsert(seen, <<"brand", r.brand>>, [from |-> Origin(b)], {"from"})
         (+) Upsert(seen, ProductKey(b, r.external), [from |-> Origin(b), value |-> r.value], {})
         (+) Upsert(seen, <<"identifier", r.ean>>,
                   [from |-> Origin(b), value |-> ProductKey(b, r.external)], {"from"})
         (+) Upsert(seen, <<"presentation", ProductKey(b, r.external)>>, [from |-> Origin(b)], {}))

LoadSupplier(b, r, seen) ==
    Rows(TRUE, Upsert(seen, SupplierKey(b, r.external), [from |-> Origin(b)], {})
               (+) Upsert(seen, <<"supplier_identifier", r.external>>,
                         [from |-> Origin(b), value |-> SupplierKey(b, r.external)], {"from"}))

\* A line identified with the instant of its sale.
LineIdAtInstant(b, r, line) == <<"item", SourceOf[b], r.external, line, r.at>>

\* A line of a sale is identified by the sale and its number, not by the
\* instant of the sale.
LineId(b, r, line) == <<"item", SourceOf[b], r.external, line>>

\* A sale is identified by its external id and its instant; its lines at that
\* instant are replaced (payments and adjustments go the same way).
LoadSale(b, r, seen) ==
    LET sale == <<"sale", SourceOf[b], r.external, r.at>>
        old == {id \in DOMAIN seen : id[1] = "item" /\ seen[id].sale = sale}
        new == {LineId(b, r, line) : line \in DOMAIN r.lines}
    IN Rows(/\ new \cap (DOMAIN seen \ old) = {}
            /\ \A line \in DOMAIN r.lines : ProductKey(b, r.lines[line]) \in DOMAIN seen,
            Upsert(seen, sale, [from |-> Origin(b)], {})
            (+) [id \in new |-> [from |-> Origin(b), sale |-> sale, line |-> id[4]]]
            (+) [id \in old |-> Gone])

\* The cost of a line is a row of its record; the supplier's current cost is
\* that of the order loaded last.
LoadPurchase(b, r, seen) ==
    LET order == <<"purchase", SourceOf[b], r.external>>
        supplier == SupplierKey(b, r.supplier)
        old == {id \in DOMAIN seen : id[1] = "purchase_item" /\ id[2] = order}
        new == {<<"purchase_item", order, line>> : line \in DOMAIN r.lines}
        Product(line) == ProductKey(b, r.lines[line])
    IN Rows(/\ supplier \in DOMAIN seen
            /\ \A line \in DOMAIN r.lines : Product(line) \in DOMAIN seen,
            Upsert(seen, order, [from |-> Origin(b)], {})
            (+) [id \in new |-> [from |-> Origin(b)]]
            (+) [id \in old |-> Gone]
            (+) [id \in {<<"supplier_product", supplier, Product(line)>> : line \in DOMAIN r.lines}
                    |-> [from |-> Origin(b), value |-> r.value]]
            (+) [id \in {<<"cost", RecordId(b), line>> : line \in DOMAIN r.lines}
                    |-> [from |-> Origin(b), value |-> r.value]]
            (+) Upsert(seen, <<"receipt", order>>, [from |-> Origin(b)], {}))

BalanceKey(product) == <<"balance", product>>

\* A balance that is written once.
BalanceOnce(b, r, seen) ==
    InsertOnce(seen, BalanceKey(ProductKey(b, r.product)),
               [from |-> Origin(b), value |-> r.value, instant |-> r.at])

\* The balance is overwritten whatever its instant.
Balance(b, r, seen) ==
    Upsert(seen, BalanceKey(ProductKey(b, r.product)),
           [from |-> Origin(b), value |-> r.value, instant |-> r.at], {})

\* A movement that comes again keeps its product and its instant.
LoadStock(b, r, seen) ==
    LET product == ProductKey(b, r.product)
    IN Rows(product \in DOMAIN seen,
            Upsert(seen, <<"lot", product>>, [from |-> Origin(b), value |-> r.value], {})
            (+) Balance(b, r, seen)
            (+) InsertOnce(seen, <<"snapshot", RecordId(b)>>,
                    [from |-> Origin(b), product |-> product, instant |-> r.at, value |-> r.value])
            (+) Upsert(seen, <<"movement", SourceOf[b], r.external>>,
                    [from |-> Origin(b), product |-> product, instant |-> r.at, value |-> r.value],
                    {"product", "instant"}))

PriceKey(b, r) == <<"price", SourceOf[b], r.external, r.at>>

\* A price that comes again is made current again and keeps its end.
LoadPrice(b, r, seen) ==
    LET product == ProductKey(b, r.product)
        promotion == <<"promotion", SourceOf[b], r.external>>
    IN Rows(product \in DOMAIN seen,
            Upsert(seen, PriceKey(b, r),
                   [from |-> Origin(b), product |-> product, valid_from |-> r.at,
                    valid_to |-> None, current |-> TRUE, value |-> r.value],
                   {"product", "valid_from", "valid_to"})
            (+) Upsert(seen, promotion, [from |-> Origin(b), value |-> r.at], {})
            (+) Upsert(seen, <<"promoted", promotion, product>>, [from |-> Origin(b)], {}))

Loader(b, r, seen) ==
    CASE r.entity = "product" -> LoadProduct(b, r, seen)
      [] r.entity = "supplier" -> LoadSupplier(b, r, seen)
      [] r.entity = "sale" -> LoadSale(b, r, seen)
      [] r.entity = "purchase" -> LoadPurchase(b, r, seen)
      [] r.entity = "stock" -> LoadStock(b, r, seen)
      [] r.entity = "price" -> LoadPrice(b, r, seen)

----------------------------------------------------------------------------
(* The transaction of a batch.                                             *)

Record(b) == file[b][next[b]]
AtRecord(b) == phase[b] = "loading" /\ next[b] <= Len(file[b])
Loaded(b) == Loader(b, Record(b), Seen(b))

\* The rows the next statement of the batch needs to itself.
Wanted(b) ==
    IF ~AtRecord(b) THEN {}
    ELSE IF Record(b).entity = "price" /\ ~closed[b]
         THEN IF scan[b] = None THEN {} ELSE scan[b]
         ELSE DOMAIN Loaded(b).rows

WaitsFor(b, c) == b # c /\ Wanted(b) \cap DOMAIN writes[c] # {}
Free(b) == \A c \in Batches : ~WaitsFor(b, c)

Begin(b) ==
    /\ phase[b] = "waiting"
    /\ phase' = [phase EXCEPT ![b] = "loading"]
    /\ started' = [started EXCEPT ![b] = clock + 1]
    /\ clock' = clock + 1
    /\ tidy' = (tidy /\ \A c \in Batches : phase[c] # "loading")
    /\ UNCHANGED <<file, attempt, next, scan, closed, writes, db, members, refresh>>

\* The instants known for a product, of its prices and of its stock.
PriceInstants(rows, product) ==
    {rows[id].valid_from : id \in {i \in DOMAIN rows : i[1] = "price" /\ rows[i].product = product}}
StockInstants(rows, product) ==
    {rows[id].instant : id \in {i \in DOMAIN rows : i[1] = "snapshot" /\ rows[i].product = product}}
InOrder(b) ==
    LET product == ProductKey(b, Record(b).product)
    IN /\ Record(b).entity = "price" =>
              \A t \in PriceInstants(Seen(b), product) : t < Record(b).at
       /\ Record(b).entity = "stock" =>
              \A t \in StockInstants(Seen(b), product) : t < Record(b).at

\* The current prices of the product, whenever they began.
ClosesAny(b, row) == row.product = ProductKey(b, Record(b).product) /\ row.current

\* The UPDATE of _load_price, first half: the current prices of the product
\* that began before this one, as the statement's snapshot shows them.
Closes(b, row) == /\ row.product = ProductKey(b, Record(b).product)
                  /\ row.current
                  /\ row.valid_from < Record(b).at

FindPrices(b) ==
    /\ AtRecord(b)
    /\ Record(b).entity = "price" /\ ~closed[b] /\ scan[b] = None
    /\ scan' = [scan EXCEPT ![b] =
                  {id \in DOMAIN Seen(b) : id[1] = "price" /\ Closes(b, Seen(b)[id])}]
    /\ UNCHANGED <<file, phase, attempt, next, started, closed, writes, db, clock, members,
                   refresh, tidy>>

\* Second half: each row found is locked, and updated if it still qualifies;
\* a price another batch has committed meanwhile is not looked for.
ClosePrices(b) ==
    /\ AtRecord(b)
    /\ Record(b).entity = "price" /\ ~closed[b] /\ scan[b] # None
    /\ Free(b)
    /\ LET seen == Seen(b)
           hit == {id \in scan[b] \cap DOMAIN seen : Closes(b, seen[id])}
       IN writes' = [writes EXCEPT ![b] =
              [id \in hit |-> [seen[id] EXCEPT !.current = FALSE, !.valid_to = Record(b).at]] (+) @]
    /\ closed' = [closed EXCEPT ![b] = TRUE]
    /\ scan' = [scan EXCEPT ![b] = None]
    /\ UNCHANGED <<file, phase, attempt, next, started, db, clock, members, refresh, tidy>>

\* The other statements of a record, and its lineage.
LoadRecord(b) ==
    /\ AtRecord(b)
    /\ Record(b).entity = "price" => closed[b]
    /\ Free(b)
    /\ Loaded(b).ok
    /\ tidy' = (tidy /\ InOrder(b))
    /\ writes' = [writes EXCEPT ![b] =
                    Put(<<"lineage", RecordId(b)>>, [from |-> Origin(b)])
                    (+) Loaded(b).rows (+) @]
    /\ next' = [next EXCEPT ![b] = @ + 1]
    /\ closed' = [closed EXCEPT ![b] = FALSE]
    /\ UNCHANGED <<file, phase, attempt, started, scan, db, clock, members, refresh>>

\* A transaction that ends without a commit, and what becomes of its message.
Abandon(b) ==
    /\ writes' = [writes EXCEPT ![b] = NoRows]
    /\ UNCHANGED db

GiveUp(b) ==
    /\ Abandon(b)
    /\ next' = [next EXCEPT ![b] = 1]
    /\ scan' = [scan EXCEPT ![b] = None]
    /\ closed' = [closed EXCEPT ![b] = FALSE]
    /\ attempt' = [attempt EXCEPT ![b] = @ + 1]
    /\ phase' = [phase EXCEPT ![b] = IF attempt[b] < MaxAttempts THEN "waiting" ELSE "failed"]
    /\ UNCHANGED <<file, started, clock, members, refresh, tidy>>

\* The database refuses a row.
Refused(b) ==
    /\ AtRecord(b)
    /\ Record(b).entity = "price" => closed[b]
    /\ Free(b)
    /\ ~Loaded(b).ok
    /\ GiveUp(b)

\* Two transactions wait for each other: PostgreSQL aborts one of them.
Deadlock(b) == (\E c \in Batches : WaitsFor(b, c) /\ WaitsFor(c, b)) /\ GiveUp(b)

Commit(b) ==
    /\ phase[b] = "loading"
    /\ next[b] > Len(file[b])
    /\ db' = Overlay(writes[b], db)
    /\ writes' = [writes EXCEPT ![b] = NoRows]
    /\ phase' = [phase EXCEPT ![b] = "loaded"]
    /\ refresh' = "due"
    /\ UNCHANGED <<file, attempt, next, started, scan, closed, clock, members, tidy>>

----------------------------------------------------------------------------
(* The dimension members of a refresh (type 2: a version per change).      *)

\* What the source query returns: products with the time of their last load,
\* identifiers with the time they were created.
Sources == {[key |-> id, value |-> db[id].value, updated |-> db[id].from.at]
               : id \in {i \in DOMAIN db : i[1] \in {"product", "identifier"}}}

\* No member is ever closed.
ClosedNever == members

\* The UPDATE: a current member whose hash differs from its source is closed.
Closed == {IF m.current /\ \E s \in Sources : s.key = m.key /\ s.value # m.hash
           THEN [m EXCEPT !.current = FALSE] ELSE m : m \in members}

\* The INSERT of the members that have no current version.  Its conflict
\* target is the key and the beginning of the version; the identifier of a
\* version is computed from its hash, and is the primary key.
Missing == {s \in Sources : \A m \in Closed : m.key = s.key => ~m.current}
Begun(s) == {m \in Closed : m.key = s.key /\ m.begin = s.updated}
Taken(s) == \E m \in Closed : m.key = s.key /\ m.hash = s.value

SyncDimensions ==
    /\ refresh = "due"
    /\ IF \E s \in Missing : Begun(s) = {} /\ Taken(s)
       THEN refresh' = "failed" /\ UNCHANGED members     \* a duplicate primary key
       ELSE /\ refresh' = "done"
            /\ members' =
                 {IF \E s \in Missing : m \in Begun(s)
                  THEN [m EXCEPT !.value = (CHOOSE s \in Missing : m \in Begun(s)).value]
                  ELSE m : m \in Closed}
                 \cup {[key |-> s.key, value |-> s.value, hash |-> s.value, begin |-> s.updated,
                        current |-> TRUE] : s \in {x \in Missing : Begun(x) = {}}}
    /\ UNCHANGED <<file, phase, transaction, db, clock, tidy>>

----------------------------------------------------------------------------

Init ==
    /\ file \in [Batches -> Files]
    /\ phase = [b \in Batches |-> "waiting"]
    /\ attempt = [b \in Batches |-> 1]
    /\ next = [b \in Batches |-> 1]
    /\ started = [b \in Batches |-> 0]
    /\ scan = [b \in Batches |-> None]
    /\ closed = [b \in Batches |-> FALSE]
    /\ writes = [b \in Batches |-> NoRows]
    /\ db = NoRows
    /\ clock = 0
    /\ members = {}
    /\ refresh = "done"
    /\ tidy = TRUE

Settled == refresh # "due" /\ \A b \in Batches : phase[b] \in {"loaded", "failed"}

Next ==
    \/ \E b \in Batches :
         Begin(b) \/ FindPrices(b) \/ ClosePrices(b) \/ LoadRecord(b) \/ Refused(b)
         \/ Deadlock(b) \/ Commit(b)
    \/ SyncDimensions
    \/ Settled /\ UNCHANGED vars

Spec == Init /\ [][Next]_vars

----------------------------------------------------------------------------
(* Properties.                                                             *)

RowsOf(table) == {id \in DOMAIN db : id[1] = table}

\* However often a sale comes, at whatever instants, no line of it is there
\* twice: revenue is summed over the lines.
SaleLineCountedOnce ==
    \A x, y \in RowsOf("item") :
        /\ db[x].sale[2] = db[y].sale[2] /\ db[x].sale[3] = db[y].sale[3]
        /\ db[x].line = db[y].line
        => x = y

\* In whatever order prices come, and however the batches overlap, the price
\* that began last is current and has no end: a late price never replaces it.
NewestPriceIsCurrent ==
    \A x \in RowsOf("price") :
        \/ db[x].current /\ db[x].valid_to = None
        \/ \E y \in RowsOf("price") : /\ db[y].product = db[x].product
                                      /\ db[y].valid_from > db[x].valid_from

\* When batches come one by one and their records in order, the history is
\* exact: one price is current, each other one ends where the next begins,
\* and the balance is the one of the last snapshot.
OrderlyHistoryIsExact ==
    tidy =>
        /\ \A x \in RowsOf("price") :
             LET later == {y \in RowsOf("price") : /\ db[y].product = db[x].product
                                                   /\ db[y].valid_from > db[x].valid_from}
             IN IF later = {} THEN db[x].current
                ELSE ~db[x].current /\ \E y \in later :
                       /\ db[x].valid_to = db[y].valid_from
                       /\ \A z \in later : db[y].valid_from <= db[z].valid_from
        /\ \A x \in RowsOf("balance"), y \in RowsOf("snapshot") :
             db[y].product = x[2] => db[y].instant <= db[x].instant

\* After a refresh a current member shows what the catalogue shows: a member
\* whose source has changed was closed by it.
CurrentMemberIsTrue ==
    \A m \in members : m.current /\ refresh = "done" =>
        \A s \in Sources : s.key = m.key => s.value = m.value

\* The SCD2 promise: a new version closes the previous one, and so after a
\* refresh everything in the catalogue has a current member.
EveryMemberIsCurrent ==
    refresh # "due" => \A s \in Sources : \E m \in members : m.key = s.key /\ m.current
============================================================================
