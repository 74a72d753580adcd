----------------------- MODULE ProductServicesProofs ------------------------
(***************************************************************************)
(* The answers, the limits and the e-mails keep their promises for any     *)
(* number of readers, logins and e-mails, and without the bounds on        *)
(* refreshes, uncounted failures and deaths.                               *)
(***************************************************************************)
EXTENDS ProductServices, FiniteSetTheorems, TLAPS

-----------------------------------------------------------------------------
(* KpiQueries *)

Values == [grants : Grants, oldest : Nat, newest : Nat]

Working == [step : {"look up", "measure", "derive", "store", "keep", "answer"},
            grants : Grants, version : Nat, value : Values \cup {NoAnswer}]

\* A request that has read a version is not ahead of the data, and one that
\* has a value has one as new as that version.
RequestHolds(q) ==
    /\ q \in {Idle} \cup Working
    /\ q.step # "idle" => q.version <= current_version
    /\ q.step \in {"derive", "store", "keep", "answer"} =>
         q.value \in Values /\ IsOf(<<q.grants, q.version>>, q.value)

KpiInv ==
    /\ current_version \in Nat
    /\ \A i \in DOMAIN cache : cache[i] \in Values /\ IsOf(i, cache[i])
    /\ \A i \in DOMAIN results : IsOf(i, results[i])
    /\ reader \in [Readers -> {Idle} \cup Working]
    /\ \A r \in Readers : RequestHolds(reader[r])

LEMMA KpiInitial == KpiInit => KpiInv
BY DEF KpiInit, KpiInv, RequestHolds, Idle

\* A version that moves takes no request ahead of the data.
LEMMA VersionMoves ==
  ASSUME KpiInv, current_version' \in Nat, current_version <= current_version',
         UNCHANGED <<cache, results, reader>>
  PROVE  KpiInv'
<1>1. ASSUME NEW r \in Readers PROVE RequestHolds(reader[r])'
  <2>1. reader[r] \in Working \/ reader[r].step = "idle"
    BY DEF KpiInv, Idle
  <2>2. ASSUME reader[r].step # "idle" PROVE reader[r].version <= current_version'
    <3>1. reader[r].version \in Nat /\ reader[r].version <= current_version
      BY <2>1, <2>2 DEF KpiInv, RequestHolds, Working
    <3> QED
      BY <3>1 DEF KpiInv
  <2> QED
    BY <2>2 DEF KpiInv, RequestHolds, IsOf
<1> QED
  BY <1>1 DEF KpiInv, IsOf

\* A step of one request that leaves the version and what is stored alone.
LEMMA ReaderSteps ==
  ASSUME KpiInv, NEW r \in Readers, NEW q,
         q \in {Idle} \cup Working, RequestHolds(q), reader' = [reader EXCEPT ![r] = q],
         UNCHANGED current_version,
         \A i \in DOMAIN cache' : cache'[i] \in Values /\ IsOf(i, cache'[i]),
         \A i \in DOMAIN results' : IsOf(i, results'[i])
  PROVE  KpiInv'
<1>1. ASSUME NEW s \in Readers PROVE RequestHolds(reader[s])'
  <2>1. reader'[s] = IF s = r THEN q ELSE reader[s]
    BY DEF KpiInv
  <2> QED
    BY <2>1 DEF KpiInv, RequestHolds
<1>2. reader' \in [Readers -> {Idle} \cup Working]
  BY DEF KpiInv
<1> QED
  BY <1>1, <1>2 DEF KpiInv, IsOf

LEMMA KpiStep == KpiInv /\ KpiNext => KpiInv'
<1> SUFFICES ASSUME KpiInv, KpiNext PROVE KpiInv'
  OBVIOUS
<1>0. /\ current_version \in Nat
      /\ \A i \in DOMAIN cache : cache[i] \in Values /\ IsOf(i, cache[i])
      /\ \A i \in DOMAIN results : IsOf(i, results[i])
  BY DEF KpiInv
<1>1. ASSUME NEW r \in Readers, ReadDataVersion(r) PROVE KpiInv'
  <2>1. PICK grants \in Grants :
          reader' = [reader EXCEPT ![r] = [step |-> "look up", grants |-> grants,
                                           version |-> current_version, value |-> NoAnswer]]
    BY <1>1 DEF ReadDataVersion
  <2> DEFINE q == [step |-> "look up", grants |-> grants, version |-> current_version,
                   value |-> NoAnswer]
  <2>2. q \in Working
    BY <1>0 DEF Working
  <2>3. RequestHolds(q)
    <3>1. q.version <= current_version /\ q.step = "look up"
      BY <1>0
    <3> HIDE DEF q
    <3> QED
      BY <2>2, <3>1 DEF RequestHolds
  <2> QED
    BY <1>0, <1>1, <2>1, <2>2, <2>3, ReaderSteps DEF ReadDataVersion
\* A request that is not idle has its fields.
<1>w. ASSUME NEW r \in Readers, ~At(r, "idle")
      PROVE  reader[r] \in Working /\ RequestHolds(reader[r])
  BY <1>w DEF KpiInv, At, Idle
<1>2. ASSUME NEW r \in Readers, LookUp(r) PROVE KpiInv'
  <2>1. At(r, "look up") /\ reader[r] \in Working /\ RequestHolds(reader[r])
    BY <1>2, <1>w DEF LookUp, At
  <2>2. CASE CacheIdentity(r) \in DOMAIN cache
    <3> DEFINE q == [reader[r] EXCEPT !.step = "answer", !.value = cache[CacheIdentity(r)]]
    <3>1. q \in Working /\ RequestHolds(q)
      BY <1>0, <2>1, <2>2 DEF Working, RequestHolds, CacheIdentity, IsOf
    <3>2. reader' = [reader EXCEPT ![r] = q]
      BY <1>2, <2>2 DEF LookUp, KpiInv
    <3> QED
      BY <1>0, <1>2, <3>1, <3>2, ReaderSteps DEF LookUp
  <2>3. CASE CacheIdentity(r) \notin DOMAIN cache
    <3> DEFINE q == [reader[r] EXCEPT !.step = "measure"]
    <3>1. q \in Working /\ RequestHolds(q)
      BY <2>1 DEF Working, RequestHolds, At
    <3>2. reader' = [reader EXCEPT ![r] = q]
      BY <1>2, <2>3 DEF LookUp, Goes, KpiInv
    <3> QED
      BY <1>0, <1>2, <3>1, <3>2, ReaderSteps DEF LookUp
  <2> QED
    BY <2>2, <2>3
<1>3. ASSUME NEW r \in Readers,
             reader' = [reader EXCEPT ![r] = Idle], UNCHANGED <<current_version, cache, results>>
      PROVE  KpiInv'
  <2>1. Idle \in {Idle} \cup Working /\ RequestHolds(Idle)
    BY DEF RequestHolds, Idle
  <2> QED
    BY <1>0, <1>3, <2>1, ReaderSteps
<1>4. ASSUME NEW r \in Readers, MeasureSnapshot(r) PROVE KpiInv'
  <2>1. At(r, "measure") /\ reader[r] \in Working /\ RequestHolds(reader[r])
    BY <1>4, <1>w DEF MeasureSnapshot, At
  <2> DEFINE v == [grants |-> reader[r].grants, oldest |-> current_version,
                   newest |-> current_version]
             q == [reader[r] EXCEPT !.step = "derive", !.value = v]
  <2>2. v \in Values /\ IsOf(<<reader[r].grants, reader[r].version>>, v)
    BY <1>0, <2>1 DEF Values, IsOf, Working, RequestHolds, At
  <2>3. q \in Working /\ RequestHolds(q)
    BY <2>1, <2>2 DEF Working, RequestHolds, At
  <2>4. reader' = [reader EXCEPT ![r] = q]
    BY <1>4 DEF MeasureSnapshot, KpiInv
  <2> QED
    BY <1>0, <1>4, <2>3, <2>4, ReaderSteps DEF MeasureSnapshot
<1>5. ASSUME NEW r \in Readers, DimensionDerivedMeasures(r) PROVE KpiInv'
  <2>1. At(r, "derive") /\ reader[r] \in Working /\ RequestHolds(reader[r])
    BY <1>5, <1>w DEF DimensionDerivedMeasures, At
  <2> DEFINE v == [reader[r].value EXCEPT !.newest = current_version]
             q == [reader[r] EXCEPT !.step = "store", !.value = v]
  <2>2. v \in Values /\ IsOf(<<reader[r].grants, reader[r].version>>, v)
    BY <1>0, <2>1 DEF Values, IsOf, Working, RequestHolds, At
  <2>3. q \in Working /\ RequestHolds(q)
    BY <2>1, <2>2 DEF Working, RequestHolds, At
  <2>4. reader' = [reader EXCEPT ![r] = q]
    BY <1>5 DEF DimensionDerivedMeasures, KpiInv
  <2> QED
    BY <1>0, <1>5, <2>3, <2>4, ReaderSteps DEF DimensionDerivedMeasures
<1>6. ASSUME NEW r \in Readers, Store(r) PROVE KpiInv'
  <2>1. At(r, "store") /\ reader[r] \in Working /\ RequestHolds(reader[r])
    BY <1>6, <1>w DEF Store, At
  <2>2. reader[r].value \in Values /\ IsOf(CacheIdentity(r), reader[r].value)
    BY <2>1 DEF RequestHolds, At, CacheIdentity
  <2>3. \A i \in DOMAIN cache' : cache'[i] \in Values /\ IsOf(i, cache'[i])
    BY <1>0, <1>6, <2>2 DEF Store, With
  <2>4. PICK s \in {"answer", "keep"} : reader' = [reader EXCEPT ![r].step = s]
    BY <1>6 DEF Store, Goes
  <2> DEFINE q == [reader[r] EXCEPT !.step = s]
  <2>5. q \in Working /\ RequestHolds(q)
    BY <2>1 DEF Working, RequestHolds, At
  <2>6. reader' = [reader EXCEPT ![r] = q]
    BY <2>4 DEF KpiInv
  <2> QED
    BY <1>0, <1>6, <2>3, <2>5, <2>6, ReaderSteps DEF Store
<1>7. ASSUME NEW r \in Readers, Keep(r) PROVE KpiInv'
  <2>1. At(r, "keep") /\ reader[r] \in Working /\ RequestHolds(reader[r])
    BY <1>7, <1>w DEF Keep, At
  <2>2. CASE CacheIdentity(r) \in DOMAIN results
    BY <1>3, <1>7, <2>2 DEF Keep
  <2>3. CASE CacheIdentity(r) \notin DOMAIN results
    <3>1. IsOf(CacheIdentity(r), reader[r].value)
      BY <2>1 DEF RequestHolds, At, CacheIdentity
    <3>2. \A i \in DOMAIN results' : IsOf(i, results'[i])
      BY <1>0, <1>7, <2>3, <3>1 DEF Keep, With
    <3> DEFINE q == [reader[r] EXCEPT !.step = "answer"]
    <3>3. q \in Working /\ RequestHolds(q)
      BY <2>1 DEF Working, RequestHolds, At
    <3>4. reader' = [reader EXCEPT ![r] = q]
      BY <1>7, <2>3 DEF Keep, Goes, KpiInv
    <3> QED
      BY <1>0, <1>7, <3>2, <3>3, <3>4, ReaderSteps DEF Keep
  <2> QED
    BY <2>2, <2>3
<1>8. ASSUME NEW i \in DOMAIN cache, ForgetAnswer(i) PROVE KpiInv'
  BY <1>8 DEF ForgetAnswer, KpiInv, RequestHolds
<1>9. CASE Publish
  BY <1>0, <1>9, VersionMoves DEF Publish
<1> QED
  BY <1>1, <1>2, <1>3, <1>4, <1>5, <1>6, <1>7, <1>8, <1>9
     DEF KpiNext, CacheUnavailable, Answer

-----------------------------------------------------------------------------
(* LoginLimiter *)

At_(places) == {c \in Clients : login[c] \in places}

\* Every attempt the counter does not have yet is one of a login between its
\* check and its count, and such a login was let in below the limit.
LimiterInv ==
    /\ attempts \in Nat /\ requests \in Nat /\ passed \in Nat
    /\ tried \in Nat /\ uncounted \in Nat
    /\ login \in [Clients -> {"none", "allowed", "wrong", "right"}]
    /\ attempts + Cardinality(At_({"allowed", "wrong"})) + 1
         <= MaxLoginAttempts + Cardinality(Clients)
    /\ tried <= attempts + uncounted + Cardinality(At_({"wrong"}))
    /\ passed <= requests
    /\ passed <= MaxPublicRequests

LEMMA Sizes ==
  ASSUME NEW places
  PROVE  /\ IsFiniteSet(At_(places))
         /\ Cardinality(At_(places)) \in Nat
         /\ Cardinality(Clients) \in Nat
         /\ Cardinality(At_(places)) <= Cardinality(Clients)
BY LimiterAssumption, FS_Subset, FS_CardinalityType DEF At_

LEMMA FewerAreWrong == Cardinality(At_({"wrong"})) <= Cardinality(At_({"allowed", "wrong"}))
<1>1. At_({"wrong"}) \subseteq At_({"allowed", "wrong"})
  BY DEF At_
<1> QED
  BY <1>1, Sizes, FS_Subset

LEMMA LimitFollows == LimiterInv => LimitBoundsAttempts
<1> SUFFICES ASSUME LimiterInv PROVE LimitBoundsAttempts
  OBVIOUS
<1> DEFINE w == Cardinality(At_({"wrong"}))
           a == Cardinality(At_({"allowed", "wrong"}))
           n == Cardinality(Clients)
<1>1. w \in Nat /\ a \in Nat /\ n \in Nat /\ w <= a
  BY Sizes, FewerAreWrong
<1>2. attempts + a + 1 <= MaxLoginAttempts + n /\ tried <= attempts + uncounted + w
  BY DEF LimiterInv
<1>3. attempts \in Nat /\ tried \in Nat /\ uncounted \in Nat /\ MaxLoginAttempts \in Nat
      /\ passed <= MaxPublicRequests
  BY LimiterAssumption DEF LimiterInv
<1> HIDE DEF w, a, n
<1>4. tried <= MaxLoginAttempts + n - 1 + uncounted
  BY <1>1, <1>2, <1>3
<1> QED
  BY <1>3, <1>4 DEF LimitBoundsAttempts, n

LEMMA LimiterInitial == LimiterInit => LimiterInv
<1> SUFFICES ASSUME LimiterInit PROVE LimiterInv
  OBVIOUS
<1>1. At_({"wrong"}) = {} /\ At_({"allowed", "wrong"}) = {}
  BY DEF LimiterInit, At_
<1>2. Cardinality(At_({"wrong"})) = 0 /\ Cardinality(At_({"allowed", "wrong"})) = 0
  BY <1>1, FS_EmptySet
<1> HIDE DEF At_
<1> QED
  BY <1>2, Sizes, LimiterAssumption DEF LimiterInit, LimiterInv

\* A login that leaves one place for another moves between the sets of both.
LEMMA Leaving ==
  ASSUME NEW c \in Clients, NEW place, NEW places,
         login \in [Clients -> {"none", "allowed", "wrong", "right"}],
         login[c] \in places, place \notin places, login' = [login EXCEPT ![c] = place]
  PROVE  Cardinality(At_(places)) = Cardinality(At_(places))' + 1
<1>1. At_(places)' = At_(places) \ {c} /\ c \in At_(places)
  BY DEF At_
<1>2. Cardinality(At_(places)) \in Nat
      /\ Cardinality(At_(places) \ {c}) = Cardinality(At_(places)) - 1
  BY <1>1, Sizes, FS_RemoveElement
<1> QED
  BY <1>1, <1>2

LEMMA Coming ==
  ASSUME NEW c \in Clients, NEW place, NEW places,
         login \in [Clients -> {"none", "allowed", "wrong", "right"}],
         login[c] \notin places, place \in places, login' = [login EXCEPT ![c] = place]
  PROVE  Cardinality(At_(places))' = Cardinality(At_(places)) + 1
<1>1. At_(places)' = At_(places) \cup {c} /\ c \notin At_(places)
  BY DEF At_
<1> QED
  BY <1>1, Sizes, FS_AddElement

LEMMA Staying ==
  ASSUME NEW c \in Clients, NEW place, NEW places,
         login \in [Clients -> {"none", "allowed", "wrong", "right"}],
         login[c] \in places <=> place \in places, login' = [login EXCEPT ![c] = place]
  PROVE  Cardinality(At_(places))' = Cardinality(At_(places))
<1>1. At_(places)' = At_(places)
  BY DEF At_
<1> QED
  BY <1>1

LEMMA LimiterStep == LimiterInv /\ LimiterNext => LimiterInv'
<1> SUFFICES ASSUME LimiterInv, LimiterNext PROVE LimiterInv'
  OBVIOUS
<1>c. \A places : Cardinality(At_(places))' \in Nat
                 /\ Cardinality(At_(places))' <= Cardinality(Clients)
  BY LimiterAssumption, FS_Subset, FS_CardinalityType DEF At_
<1>n. PICK n \in Nat : n = Cardinality(Clients)
  BY Sizes
<1>w. PICK w, wp \in Nat : /\ w = Cardinality(At_({"wrong"}))
                          /\ wp = Cardinality(At_({"wrong"}))'
  BY <1>c, Sizes
<1>a. PICK a, ap \in Nat : /\ a = Cardinality(At_({"allowed", "wrong"}))
                          /\ ap = Cardinality(At_({"allowed", "wrong"}))'
  BY <1>c, Sizes
<1>0. a <= n /\ ap <= n
  BY <1>c, <1>n, <1>a, Sizes
<1>t. /\ attempts \in Nat /\ requests \in Nat /\ passed \in Nat
      /\ tried \in Nat /\ uncounted \in Nat
      /\ MaxLoginAttempts \in Nat /\ MaxLoginAttempts > 0 /\ MaxPublicRequests \in Nat
      /\ passed <= requests /\ passed <= MaxPublicRequests
      /\ attempts + a + 1 <= MaxLoginAttempts + n
      /\ tried <= attempts + uncounted + w
  BY <1>n, <1>w, <1>a, LimiterAssumption DEF LimiterInv
<1>l. login \in [Clients -> {"none", "allowed", "wrong", "right"}]
  BY DEF LimiterInv
<1>s. ASSUME /\ attempts' \in Nat /\ requests' \in Nat /\ passed' \in Nat
             /\ tried' \in Nat /\ uncounted' \in Nat
             /\ login' \in [Clients -> {"none", "allowed", "wrong", "right"}]
             /\ attempts' + ap + 1 <= MaxLoginAttempts + n
             /\ tried' <= attempts' + uncounted' + wp
             /\ passed' <= requests' /\ passed' <= MaxPublicRequests
      PROVE  LimiterInv'
  BY <1>s, <1>n, <1>w, <1>a DEF LimiterInv
\* The counts with an absent key.
<1>z. ASSUME Absent, UNCHANGED <<requests, passed>>,
             login' \in [Clients -> {"none", "allowed", "wrong", "right"}]
      PROVE  LimiterInv'
  <2>1. attempts' = 0 /\ tried' = 0 /\ uncounted' = 0
    BY <1>z DEF Absent
  <2>2. attempts' + ap + 1 <= MaxLoginAttempts + n /\ tried' <= attempts' + uncounted' + wp
    BY <1>0, <1>t, <2>1
  <2> QED
    BY <1>t, <1>z, <2>1, <2>2, <1>s
<1>1. ASSUME NEW c \in Clients, EnsureAllowed(c) PROVE LimiterInv'
  <2>1. wp = w
    BY <1>1, <1>l, <1>w, <1>a, Staying DEF EnsureAllowed
  <2>2. attempts < MaxLoginAttempts /\ UNCHANGED <<attempts, requests, passed, tried, uncounted>>
        /\ login' \in [Clients -> {"none", "allowed", "wrong", "right"}]
    BY <1>1, <1>l DEF EnsureAllowed, Allowed
  <2>3. attempts' + ap + 1 <= MaxLoginAttempts + n /\ tried' <= attempts' + uncounted' + wp
    BY <1>0, <1>t, <2>1, <2>2
  <2> QED
    BY <1>t, <2>2, <2>3, <1>s
<1>2. ASSUME NEW c \in Clients, VerifyPassword(c) PROVE LimiterInv'
  <2>1. UNCHANGED <<attempts, requests, passed, uncounted>>
        /\ login' \in [Clients -> {"none", "allowed", "wrong", "right"}]
    BY <1>2, <1>l DEF VerifyPassword
  <2>2. (tried' = tried + 1 /\ ap = a /\ wp = w + 1) \/ (tried' = tried /\ a = ap + 1 /\ wp = w)
    BY <1>2, <1>l, <1>w, <1>a, Staying, Coming, Leaving DEF VerifyPassword
  <2>3. attempts' + ap + 1 <= MaxLoginAttempts + n /\ tried' <= attempts' + uncounted' + wp
        /\ tried' \in Nat
    BY <1>0, <1>t, <2>1, <2>2
  <2> QED
    BY <1>t, <2>1, <2>3, <1>s
<1>3. ASSUME NEW c \in Clients, RecordFailure(c) PROVE LimiterInv'
  <2>1. UNCHANGED <<requests, passed, tried>>
        /\ login' \in [Clients -> {"none", "allowed", "wrong", "right"}]
    BY <1>3, <1>l DEF RecordFailure
  <2>2. a = ap + 1 /\ w = wp + 1
    <3>1. login[c] = "wrong" /\ login' = [login EXCEPT ![c] = "none"]
      BY <1>3 DEF RecordFailure
    <3>2. login[c] \in {"wrong"} /\ "none" \notin {"wrong"}
          /\ login[c] \in {"allowed", "wrong"} /\ "none" \notin {"allowed", "wrong"}
      BY <3>1
    <3>3. Cardinality(At_({"wrong"})) = Cardinality(At_({"wrong"}))' + 1
      BY <1>l, <3>1, <3>2, Leaving
    <3>4. Cardinality(At_({"allowed", "wrong"})) = Cardinality(At_({"allowed", "wrong"}))' + 1
      BY <1>l, <3>1, <3>2, Leaving
    <3> QED
      BY <3>3, <3>4, <1>w, <1>a
  <2>3. (attempts' = attempts + 1 /\ uncounted' = uncounted)
        \/ (attempts' = attempts /\ uncounted' = uncounted + 1)
    BY <1>3 DEF RecordFailure
  <2>4. attempts' + ap + 1 <= MaxLoginAttempts + n /\ tried' <= attempts' + uncounted' + wp
        /\ attempts' \in Nat /\ uncounted' \in Nat
    BY <1>0, <1>t, <2>1, <2>2, <2>3
  <2> QED
    BY <1>t, <2>1, <2>4, <1>s
<1>4. ASSUME NEW c \in Clients, ClearAttempts(c) PROVE LimiterInv'
  <2>1. UNCHANGED <<requests, passed>>
        /\ login' \in [Clients -> {"none", "allowed", "wrong", "right"}]
    BY <1>4, <1>l DEF ClearAttempts
  <2>2. CASE Absent
    BY <2>1, <2>2, <1>z
  <2>3. CASE UNCHANGED <<attempts, tried, uncounted>>
    <3>1. ap = a /\ wp = w
      BY <1>4, <1>l, <1>w, <1>a, Staying DEF ClearAttempts
    <3> QED
      BY <1>t, <2>1, <2>3, <3>1, <1>s
  <2> QED
    BY <1>4, <2>2, <2>3 DEF ClearAttempts
<1>5. CASE LockoutEnds
  BY <1>5, <1>l, <1>z DEF LockoutEnds
<1>6. ASSUME UNCHANGED <<attempts, login, tried, uncounted>>,
             requests' \in Nat, passed' \in Nat, passed' <= requests',
             passed' <= MaxPublicRequests
      PROVE  LimiterInv'
  <2>1. ap = a /\ wp = w
    BY <1>6, <1>w, <1>a DEF At_
  <2> QED
    BY <1>t, <1>l, <1>6, <2>1, <1>s
<1>7. CASE Consume
  BY <1>6, <1>7, <1>t DEF Consume
<1>8. CASE WindowEnds
  BY <1>6, <1>8, <1>t DEF WindowEnds
<1> QED
  BY <1>1, <1>2, <1>3, <1>4, <1>5, <1>7, <1>8 DEF LimiterNext

-----------------------------------------------------------------------------
(* EmailDelivery *)

LEMMA OneMore ==
  ASSUME NEW S, IsFiniteSet(S), NEW x, NEW n \in Nat, Cardinality(S) <= n
  PROVE  Cardinality(S \cup {x}) <= 1 + n
<1>1. PICK c \in Nat : c = Cardinality(S)
  BY FS_CardinalityType
<1>2. Cardinality(S \cup {x}) \in {c, c + 1}
  <2>1. CASE x \in S
    <3>1. S \cup {x} = S
      BY <2>1
    <3> QED
      BY <1>1, <3>1
  <2>2. CASE x \notin S
    BY <1>1, <2>2, FS_AddElement
  <2> QED
    BY <2>1, <2>2
<1>3. c <= n
  BY <1>1
<1> QED
  BY <1>2, <1>3

Of(k) == {m \in Mails : KeyOf[m] = k}
Unsettled(k) == \E m \in Of(k) : mail[m] \in {"wanted", "queued", "marked"}
Writing(k) == \E m \in Of(k) : mail[m] = "marked"
Accounted(k) == Written(k) # {} \/ k \in lost

\* Nothing was written in the life of a marker until its setter writes, and
\* nobody else is writing then.
WrittenAtMost(k, n) ==
    /\ \A m \in Of(k) : mailbox[m] <= n
    /\ Cardinality(Written(k)) <= n

KeyHolds(k) ==
    /\ WrittenAtMost(k, 1 + ended[k])
    /\ k \notin marked \/ Writing(k) => WrittenAtMost(k, ended[k])
    /\ Unsettled(k) \/ Accounted(k)
    /\ k \in marked => Writing(k) \/ Accounted(k)

\* Whoever works on an e-mail has set its marker, and works alone on its key.
MailHolds(m) ==
    mail[m] \in {"marked", "written"} =>
        /\ KeyOf[m] \in marked
        /\ \A o \in Of(KeyOf[m]) : mail[o] \in {"marked", "written"} => o = m
        /\ mail[m] = "written" => mailbox[m] > 0

EmailInv ==
    /\ mail \in [Mails -> {"wanted", "queued", "marked", "written", "done", "dropped"}]
    /\ mailbox \in [Mails -> Nat]
    /\ ended \in [Keys -> Nat]
    /\ \A m \in Mails : MailHolds(m)
    /\ \A k \in Keys : KeyHolds(k)

LEMMA MailedFollows == EmailInv => MailedOnceOrLost
<1> SUFFICES ASSUME EmailInv, NEW k \in Keys
             PROVE  /\ \A m \in Mails : KeyOf[m] = k => mailbox[m] <= 1 + ended[k]
                    /\ Cardinality(Written(k)) <= 1 + ended[k]
                    /\ (\A m \in Mails : KeyOf[m] = k => mail[m] \in {"done", "dropped"})
                         => Written(k) # {} \/ k \in lost
  BY DEF MailedOnceOrLost
<1>1. KeyHolds(k)
  BY DEF EmailInv
<1> QED
  BY <1>1 DEF KeyHolds, WrittenAtMost, Of, Unsettled, Accounted

LEMMA EmailInitial == EmailInit => EmailInv
<1> SUFFICES ASSUME EmailInit PROVE EmailInv
  OBVIOUS
<1>1. ASSUME NEW k \in Keys PROVE KeyHolds(k)
  <2>1. Written(k) = {}
    BY DEF EmailInit, Written
  <2>2. Cardinality(Written(k)) = 0
    BY <2>1, FS_EmptySet
  <2>3. WrittenAtMost(k, 0) /\ WrittenAtMost(k, 1)
    BY <2>2 DEF WrittenAtMost, Of, EmailInit
  <2>4. Unsettled(k)
    BY DEF Unsettled, Of, Keys, EmailInit
  <2> QED
    BY <2>3, <2>4 DEF KeyHolds, EmailInit
<1> QED
  BY <1>1 DEF EmailInit, EmailInv, MailHolds

\* An e-mail that goes from one place to another, with what it does to its
\* key; the other keys have what they had.
LEMMA MailMoves ==
  ASSUME EmailInv, NEW m \in Mails,
         NEW place \in {"wanted", "queued", "marked", "written", "done", "dropped"},
         mail' = [mail EXCEPT ![m] = place],
         UNCHANGED <<mailbox, ended>>,
         marked' \ {KeyOf[m]} = marked \ {KeyOf[m]},
         lost \subseteq lost', 
         MailHolds(m)',
         \* its key keeps its marker while another one is at work
         \A o \in Of(KeyOf[m]) : o # m /\ mail[o] \in {"marked", "written"} =>
             place \notin {"marked", "written"} /\ KeyOf[m] \in marked',
         KeyHolds(KeyOf[m])'
  PROVE  EmailInv'
<1> USE DEF Of
<1>1. ASSUME NEW o \in Mails PROVE MailHolds(o)'
  BY DEF EmailInv, MailHolds
<1>2. ASSUME NEW k \in Keys, k # KeyOf[m] PROVE KeyHolds(k)'
  <2>1. Written(k)' = Written(k)
    BY DEF Written
  <2>2. \A o \in Of(k) : mail'[o] = mail[o]
    BY <1>2 DEF EmailInv
  <2>3. k \in marked' <=> k \in marked
    BY <1>2
  <2> QED
    BY <2>1, <2>2, <2>3 DEF EmailInv, KeyHolds, WrittenAtMost, Unsettled, Writing, Accounted
<1> QED
  BY <1>1, <1>2 DEF EmailInv

\* What is left to show of the key when nothing is written.
LEMMA KeyKeeps ==
  ASSUME EmailInv, NEW k \in Keys, UNCHANGED <<mailbox, ended>>,
         k \notin marked' \/ Writing(k)' => k \notin marked \/ Writing(k),
         Unsettled(k)' \/ Accounted(k)',
         k \in marked' => Writing(k)' \/ Accounted(k)'
  PROVE  KeyHolds(k)'
<1>1. Written(k)' = Written(k)
  BY DEF Written
<1> QED
  BY <1>1 DEF EmailInv, KeyHolds, WrittenAtMost, Of

LEMMA EmailStep == EmailInv /\ EmailNext => EmailInv'
<1> SUFFICES ASSUME EmailInv, EmailNext PROVE EmailInv'
  OBVIOUS
<1>0. /\ mail \in [Mails -> {"wanted", "queued", "marked", "written", "done", "dropped"}]
      /\ mailbox \in [Mails -> Nat]
      /\ ended \in [Keys -> Nat]
      /\ \A m \in Mails : MailHolds(m)
      /\ \A k \in Keys : KeyHolds(k)
      /\ \A m \in Mails : KeyOf[m] \in Keys /\ m \in Of(KeyOf[m])
  BY DEF EmailInv, Keys, Of
<1>1. ASSUME NEW m \in Mails, EnqueueEmail(m) PROVE EmailInv'
  <2>1. PICK place \in {"queued", "dropped"} : mail' = [mail EXCEPT ![m] = place]
    BY <1>1 DEF EnqueueEmail
  <2>2. mail[m] = "wanted" /\ UNCHANGED <<mailbox, marked, ended>> /\ lost \subseteq lost'
        /\ (place = "dropped" => KeyOf[m] \in lost')
    BY <1>1, <2>1, <1>0 DEF EnqueueEmail
  <2>3. KeyHolds(KeyOf[m])'
    <3>1. Written(KeyOf[m])' = Written(KeyOf[m])
      BY <2>2 DEF Written
    <3>2. Writing(KeyOf[m])' <=> Writing(KeyOf[m])
      BY <1>0, <2>1, <2>2 DEF Writing, Of
    <3>3. Unsettled(KeyOf[m])' \/ Accounted(KeyOf[m])'
      BY <1>0, <2>1, <2>2 DEF Unsettled, Accounted, Of
    <3>4. Accounted(KeyOf[m]) => Accounted(KeyOf[m])'
      BY <2>2, <3>1 DEF Accounted
    <3> QED
      BY <1>0, <2>2, <3>2, <3>3, <3>4, KeyKeeps DEF KeyHolds
  <2>4. MailHolds(m)'
    BY <1>0, <2>1 DEF MailHolds
  <2>5. \A o \in Of(KeyOf[m]) : o # m /\ mail[o] \in {"marked", "written"} =>
            place \notin {"marked", "written"} /\ KeyOf[m] \in marked'
    BY <1>0, <2>2 DEF MailHolds, Of
  <2> QED
    BY <2>1, <2>2, <2>3, <2>4, <2>5, MailMoves
<1>2. ASSUME NEW m \in Mails, DeliverEmail(m) PROVE EmailInv'
  <2>1. /\ mail[m] = "queued" /\ KeyOf[m] \notin marked
        /\ mail' = [mail EXCEPT ![m] = "marked"] /\ marked' = marked \cup {KeyOf[m]}
        /\ UNCHANGED <<mailbox, ended, lost>>
    BY <1>2 DEF DeliverEmail, MarkerSet
  <2>2. Writing(KeyOf[m])' /\ Unsettled(KeyOf[m])'
    BY <1>0, <2>1 DEF Writing, Unsettled, Of
  <2>3. KeyHolds(KeyOf[m])'
    BY <1>0, <2>1, <2>2, KeyKeeps
  <2>4. \A o \in Of(KeyOf[m]) : mail[o] \notin {"marked", "written"}
    BY <1>0, <2>1 DEF MailHolds, Of
  <2>5. MailHolds(m)'
    BY <1>0, <2>1, <2>4 DEF MailHolds, Of
  <2> QED
    BY <2>1, <2>3, <2>4, <2>5, MailMoves
<1>3. ASSUME NEW m \in Mails, SuppressDuplicate(m) PROVE EmailInv'
  <2>1. /\ mail[m] = "queued" /\ KeyOf[m] \in marked
        /\ mail' = [mail EXCEPT ![m] = "done"]
        /\ UNCHANGED <<mailbox, marked, ended, lost>>
    BY <1>3 DEF SuppressDuplicate
  <2>2. Writing(KeyOf[m])' <=> Writing(KeyOf[m])
    BY <1>0, <2>1 DEF Writing, Of
  <2>3. Accounted(KeyOf[m])' <=> Accounted(KeyOf[m])
    BY <2>1 DEF Accounted, Written
  <2>4. Writing(KeyOf[m])' => Unsettled(KeyOf[m])'
    BY DEF Writing, Unsettled
  <2>5. KeyHolds(KeyOf[m])'
    BY <1>0, <2>1, <2>2, <2>3, <2>4, KeyKeeps DEF KeyHolds
  <2>6. MailHolds(m)'
    BY <1>0, <2>1 DEF MailHolds
  <2> QED
    BY <1>0, <2>1, <2>5, <2>6, MailMoves
<1>4. ASSUME NEW m \in Mails, MarkingFails(m) PROVE EmailInv'
  <2>1. PICK place \in {"queued", "dropped"} : mail' = [mail EXCEPT ![m] = place]
    BY <1>4 DEF MarkingFails, Raises
  <2>2. mail[m] = "queued" /\ UNCHANGED <<mailbox, marked, ended>> /\ lost \subseteq lost'
    BY <1>4 DEF MarkingFails, LosesUnless
  <2>3. place = "dropped" => KeyOf[m] \in lost'
    BY <1>4, <2>1, <1>0 DEF MarkingFails, LosesUnless, Raises
  <2>4. Written(KeyOf[m])' = Written(KeyOf[m])
    BY <2>2 DEF Written
  <2>5. Writing(KeyOf[m])' <=> Writing(KeyOf[m])
    BY <1>0, <2>1, <2>2 DEF Writing, Of
  <2>6. Unsettled(KeyOf[m])' \/ Accounted(KeyOf[m])'
    BY <1>0, <2>1, <2>3 DEF Unsettled, Accounted, Of
  <2>7. Accounted(KeyOf[m]) => Accounted(KeyOf[m])'
    BY <2>2, <2>4 DEF Accounted
  <2>8. KeyHolds(KeyOf[m])'
    BY <1>0, <2>2, <2>5, <2>6, <2>7, KeyKeeps DEF KeyHolds
  <2>9. MailHolds(m)'
    BY <1>0, <2>1 DEF MailHolds
  <2>10. \A o \in Of(KeyOf[m]) : o # m /\ mail[o] \in {"marked", "written"} =>
            place \notin {"marked", "written"} /\ KeyOf[m] \in marked'
    BY <1>0, <2>2 DEF MailHolds, Of
  <2> QED
    BY <2>1, <2>2, <2>8, <2>9, <2>10, MailMoves
<1>5. ASSUME NEW m \in Mails, WritingFails(m) PROVE EmailInv'
  <2>1. PICK place \in {"queued", "dropped"} : mail' = [mail EXCEPT ![m] = place]
    BY <1>5 DEF WritingFails, Raises
  <2>2. mail[m] = "marked" /\ UNCHANGED <<mailbox, ended>> /\ lost \subseteq lost'
        /\ KeyOf[m] \in marked
        /\ \A o \in Of(KeyOf[m]) : mail[o] \in {"marked", "written"} => o = m
    BY <1>0, <1>5 DEF WritingFails, LosesUnless, MailHolds
  <2>3. /\ marked' \ {KeyOf[m]} = marked \ {KeyOf[m]}
        /\ place = "dropped" => KeyOf[m] \in lost'
        /\ KeyOf[m] \in marked' => KeyOf[m] \in lost'
    BY <1>0, <1>5, <2>1 DEF WritingFails, LosesUnless, Raises
  <2>4. Unsettled(KeyOf[m])' \/ Accounted(KeyOf[m])'
    BY <1>0, <2>1, <2>3 DEF Unsettled, Accounted, Of
  <2>5. Writing(KeyOf[m]) /\ (KeyOf[m] \in marked' => Accounted(KeyOf[m])')
    BY <1>0, <2>2, <2>3 DEF Writing, Accounted, Of
  <2>6. KeyHolds(KeyOf[m])'
    BY <1>0, <2>2, <2>4, <2>5, KeyKeeps
  <2>7. MailHolds(m)'
    BY <1>0, <2>1 DEF MailHolds
  <2> QED
    BY <2>1, <2>2, <2>3, <2>6, <2>7, MailMoves
<1>6. ASSUME NEW m \in Mails, Acknowledge(m) PROVE EmailInv'
  <2>1. /\ mail[m] = "written" /\ mail' = [mail EXCEPT ![m] = "done"]
        /\ UNCHANGED <<mailbox, marked, ended, lost>>
    BY <1>6 DEF Acknowledge
  <2>2. /\ mailbox[m] > 0 /\ KeyOf[m] \in marked
        /\ \A o \in Of(KeyOf[m]) : mail[o] \in {"marked", "written"} => o = m
    BY <1>0, <2>1 DEF MailHolds
  <2>3. Accounted(KeyOf[m])' /\ ~Writing(KeyOf[m])'
    BY <1>0, <2>1, <2>2 DEF Accounted, Written, Writing, Of
  <2>4. KeyHolds(KeyOf[m])'
    BY <1>0, <2>1, <2>2, <2>3, KeyKeeps
  <2>5. MailHolds(m)'
    BY <1>0, <2>1 DEF MailHolds
  <2> QED
    BY <2>1, <2>2, <2>4, <2>5, MailMoves
<1>7. ASSUME NEW m \in Mails, WorkerDies(m) PROVE EmailInv'
  <2>1. /\ mail[m] \in {"marked", "written"} /\ mail' = [mail EXCEPT ![m] = "queued"]
        /\ UNCHANGED <<mailbox, marked, ended>> /\ lost \subseteq lost'
        /\ mail[m] = "marked" => KeyOf[m] \in lost'
    BY <1>7 DEF WorkerDies
  <2>2. /\ mail[m] = "written" => mailbox[m] > 0
        /\ KeyOf[m] \in marked
        /\ \A o \in Of(KeyOf[m]) : mail[o] \in {"marked", "written"} => o = m
    BY <1>0, <2>1 DEF MailHolds
  <2>3. Accounted(KeyOf[m])' /\ Unsettled(KeyOf[m])' /\ ~Writing(KeyOf[m])'
    BY <1>0, <2>1, <2>2 DEF Accounted, Unsettled, Written, Writing, Of
  <2>4. KeyHolds(KeyOf[m])'
    BY <1>0, <2>1, <2>2, <2>3, KeyKeeps
  <2>5. MailHolds(m)'
    BY <1>0, <2>1 DEF MailHolds
  <2> QED
    BY <2>1, <2>2, <2>4, <2>5, MailMoves
<1>8. ASSUME NEW m \in Mails, WriteEmail(m) PROVE EmailInv'
  <2>1. /\ mail[m] = "marked" /\ mail' = [mail EXCEPT ![m] = "written"]
        /\ mailbox' = [mailbox EXCEPT ![m] = @ + 1]
        /\ UNCHANGED <<marked, ended, lost>>
    BY <1>8 DEF WriteEmail
  <2>2. /\ KeyOf[m] \in marked
        /\ \A o \in Of(KeyOf[m]) : mail[o] \in {"marked", "written"} => o = m
    BY <1>0, <2>1 DEF MailHolds
  <2>3. ASSUME NEW o \in Mails PROVE MailHolds(o)'
    BY <1>0, <2>1, <2>2 DEF MailHolds, Of
  <2>4. KeyHolds(KeyOf[m])'
    <3> DEFINE k == KeyOf[m]
    <3>1. WrittenAtMost(k, ended[k]) /\ ended[k] \in Nat
      BY <1>0, <2>1 DEF KeyHolds, Writing
    <3>2. Written(k)' = Written(k) \cup {m}
      BY <1>0, <2>1 DEF Written
    <3>3. IsFiniteSet(Written(k))
      BY EmailAssumption, FS_Subset DEF Written
    <3>4. Cardinality(Written(k) \cup {m}) <= 1 + ended[k]
      BY <3>1, <3>3, OneMore DEF WrittenAtMost
    <3>5. Cardinality(Written(k)') <= 1 + ended[k]
      BY <3>2, <3>4
    <3>6. \A o \in Of(k) : mailbox'[o] <= 1 + ended[k]
      BY <1>0, <2>1, <3>1 DEF WrittenAtMost, Of
    <3>7. WrittenAtMost(k, 1 + ended[k])'
      BY <2>1, <3>5, <3>6 DEF WrittenAtMost, Of
    <3>8. Accounted(k)' /\ ~Writing(k)'
      BY <1>0, <2>1, <2>2, <3>2 DEF Accounted, Writing, Of
    <3> QED
      BY <2>1, <2>2, <3>7, <3>8 DEF KeyHolds
  <2>5. ASSUME NEW k \in Keys, k # KeyOf[m] PROVE KeyHolds(k)'
    <3>1. Written(k)' = Written(k)
      BY <1>0, <2>1, <2>5 DEF Written
    <3>2. \A o \in Of(k) : mail'[o] = mail[o] /\ mailbox'[o] = mailbox[o]
      BY <1>0, <2>1, <2>5 DEF Of
    <3> QED
      BY <1>0, <2>1, <3>1, <3>2 DEF KeyHolds, WrittenAtMost, Unsettled, Writing, Accounted, Of
  <2> QED
    BY <1>0, <2>1, <2>3, <2>4, <2>5 DEF EmailInv
<1>9. ASSUME NEW k \in Keys, MarkerEnds(k) PROVE EmailInv'
  <2>1. /\ ended[k] = 0 /\ ended' = [ended EXCEPT ![k] = 1] /\ marked' = marked \ {k}
        /\ UNCHANGED <<mail, mailbox, lost>>
        /\ \A m \in Of(k) : mail[m] \notin {"marked", "written"}
    BY <1>9 DEF MarkerEnds, Of
  <2>2. ASSUME NEW m \in Mails PROVE MailHolds(m)'
    BY <1>0, <2>1 DEF MailHolds, Of
  <2>3. KeyHolds(k)'
    <3>1. Written(k)' = Written(k) /\ ended'[k] = 1
      BY <1>0, <2>1 DEF Written
    <3>2. WrittenAtMost(k, 1)
      BY <1>0, <2>1 DEF KeyHolds
    <3>3. WrittenAtMost(k, 1)' /\ IsFiniteSet(Written(k))
      BY <2>1, <3>1, <3>2, EmailAssumption, FS_Subset DEF WrittenAtMost, Of, Written
    <3>4. WrittenAtMost(k, 2)'
      <4>1. Cardinality(Written(k)) \in Nat
        BY <3>3, FS_CardinalityType
      <4> QED
        BY <1>0, <2>1, <3>1, <3>3, <4>1 DEF WrittenAtMost, Of
    <3>5. Unsettled(k)' \/ Accounted(k)'
      BY <1>0, <2>1, <3>1 DEF KeyHolds, Unsettled, Accounted, Of
    <3> QED
      BY <2>1, <3>1, <3>3, <3>4, <3>5 DEF KeyHolds
  <2>4. ASSUME NEW j \in Keys, j # k PROVE KeyHolds(j)'
    <3>1. Written(j)' = Written(j) /\ ended'[j] = ended[j]
      BY <1>0, <2>1, <2>4 DEF Written
    <3> QED
      BY <1>0, <2>1, <2>4, <3>1 DEF KeyHolds, WrittenAtMost, Unsettled, Writing, Accounted, Of
  <2> QED
    BY <1>0, <2>1, <2>2, <2>3, <2>4 DEF EmailInv
<1> QED
  BY <1>1, <1>2, <1>3, <1>4, <1>5, <1>6, <1>7, <1>8, <1>9 DEF EmailNext

-----------------------------------------------------------------------------
(* The services together *)

LEMMA KpiRests == KpiInv /\ UNCHANGED kpi => KpiInv'
BY DEF KpiInv, kpi, RequestHolds, IsOf

LEMMA LimiterRests == LimiterInv /\ UNCHANGED limiter => LimiterInv'
BY DEF LimiterInv, limiter, At_

LEMMA EmailRests == EmailInv /\ UNCHANGED emails => EmailInv'
<1> SUFFICES ASSUME EmailInv, UNCHANGED emails PROVE EmailInv'
  OBVIOUS
<1>1. UNCHANGED <<mail, marked, mailbox, ended, lost>>
  BY DEF emails
<1>2. \A k : Written(k)' = Written(k)
  BY <1>1 DEF Written
<1>3. ASSUME NEW k \in Keys PROVE KeyHolds(k)'
  BY <1>1, <1>2 DEF EmailInv, KeyHolds, WrittenAtMost, Unsettled, Writing, Accounted, Of
<1> QED
  BY <1>1, <1>3 DEF EmailInv, MailHolds, Of

ServicesInv == KpiInv /\ LimiterInv /\ EmailInv

\* The inductive invariants of the three services hold in every behaviour.
THEOREM ServicesInvariant == Spec => []ServicesInv
<1>1. Init => ServicesInv
  BY KpiInitial, LimiterInitial, EmailInitial DEF Init, ServicesInv
<1>2. ServicesInv /\ [Next]_services => ServicesInv'
  <2> SUFFICES ASSUME ServicesInv, [Next]_services PROVE ServicesInv'
    OBVIOUS
  <2>1. KpiInv /\ LimiterInv /\ EmailInv
    BY DEF ServicesInv
  <2>2. CASE KpiNext /\ UNCHANGED <<limiter, emails>>
    BY <2>1, <2>2, KpiStep, LimiterRests, EmailRests DEF ServicesInv
  <2>3. CASE LimiterNext /\ UNCHANGED <<kpi, emails>>
    BY <2>1, <2>3, LimiterStep, KpiRests, EmailRests DEF ServicesInv
  <2>4. CASE EmailNext /\ UNCHANGED <<kpi, limiter>>
    BY <2>1, <2>4, EmailStep, KpiRests, LimiterRests DEF ServicesInv
  <2>5. CASE UNCHANGED <<kpi, limiter, emails>>
    BY <2>1, <2>5, KpiRests, LimiterRests, EmailRests DEF ServicesInv
  <2> QED
    BY <2>2, <2>3, <2>4, <2>5 DEF Next, Rest, services
<1> QED
  BY <1>1, <1>2, PTL DEF Spec

\* Whatever refreshes publish while requests measure, and however many readers
\* fill the cache (queries.py:538-634), an answer is as new as the version it
\* is cached, kept or given under, and of the grants it is for.
THEOREM AnswersHold == Spec => []AnswersAreAsNewAsTheirLabel
<1>1. KpiInv => AnswersAreAsNewAsTheirLabel
  BY DEF KpiInv, RequestHolds, AnswersAreAsNewAsTheirLabel, At, CacheIdentity
<1> QED
  BY <1>1, ServicesInvariant, PTL DEF ServicesInv

\* However many logins overlap between their check and their count
\* (rate_limit.py:34, auth/service.py:284-333), they exceed the limit by less
\* than their number and by what Redis did not count.
THEOREM LimitHolds == Spec => []LimitBoundsAttempts
BY LimitFollows, ServicesInvariant, PTL DEF ServicesInv

\* However often messages come, attempts fail and workers die
\* (email/tasks.py:27-50), the e-mails of a key are written once in the life
\* of a marker, or were lost to a named accident.
THEOREM MailedHolds == Spec => []MailedOnceOrLost
BY MailedFollows, ServicesInvariant, PTL DEF ServicesInv
=============================================================================
