----------------------------- MODULE KpiQueries -----------------------------
(***************************************************************************)
(* The answer to a KPI request: the data version is read by one statement, *)
(* the cache is looked up under it, and only then are the measures read,   *)
(* by several statements at READ COMMITTED, while refreshes publish new    *)
(* versions.  The answer is cached, kept as a row, and given to the client *)
(* with the cache's identity as its ETag.                                  *)
(*                                                                         *)
(* A value is what it was computed from: the grants that filtered its rows *)
(* and the oldest and the newest version its statements saw.  The goal is  *)
(* read at each request, hit or miss, and left out; the period has data.   *)
(***************************************************************************)
EXTENDS Naturals

CONSTANTS
    Readers,       \* clients that ask for one KPI and period, one request at a time
    Grants,        \* what a session may have at a request
    MaxVersion,    \* bound: refreshes
    NoAnswer

VARIABLES
    current_version,  \* of the data, with the aggregates of its commit
    cache,            \* in Redis: identity -> value
    results,          \* analytics_kpi_results: identity -> value
    reader            \* where a request is and what it has read

kpi == <<current_version, cache, results, reader>>

Idle == [step |-> "idle"]

KpiInit ==
    /\ current_version = 1
    /\ cache = << >>
    /\ results = << >>
    /\ reader = [r \in Readers |-> Idle]

\* The identity of an answer built when it is stored.
LateIdentity(r) == <<reader[r].grants, current_version>>

\* The identity of an answer: grants, filters, formula and data version.
CacheIdentity(r) == <<reader[r].grants, reader[r].version>>

With(stored, identity, value) ==
    [i \in {identity} \cup DOMAIN stored |-> IF i = identity THEN value ELSE stored[i]]

At(r, step) == reader[r].step = step
Goes(r, step) == reader' = [reader EXCEPT ![r].step = step]

ReadDataVersion(r) ==
    /\ At(r, "idle")
    /\ \E grants \in Grants :
         reader' = [reader EXCEPT ![r] =
             [step |-> "look up", grants |-> grants, version |-> current_version,
              value |-> NoAnswer]]
    /\ UNCHANGED <<current_version, cache, results>>

LookUp(r) ==
    /\ At(r, "look up")
    /\ LET identity == CacheIdentity(r)
       IN IF identity \in DOMAIN cache
          THEN reader' = [reader EXCEPT ![r].step = "answer", ![r].value = cache[identity]]
          ELSE Goes(r, "measure")
    /\ UNCHANGED <<current_version, cache, results>>

\* Redis is away: the request ends with 503.
CacheUnavailable(r) ==
    /\ reader[r].step \in {"look up", "store"}
    /\ reader' = [reader EXCEPT ![r] = Idle]
    /\ UNCHANGED <<current_version, cache, results>>

\* The first statement of _measure_snapshot.
MeasureSnapshot(r) ==
    /\ At(r, "measure")
    /\ reader' = [reader EXCEPT
         ![r].step = "derive",
         ![r].value = [grants |-> reader[r].grants, oldest |-> current_version,
                       newest |-> current_version]]
    /\ UNCHANGED <<current_version, cache, results>>

\* Its later statements, and those of the previous period.
DimensionDerivedMeasures(r) ==
    /\ At(r, "derive")
    /\ reader' = [reader EXCEPT ![r].step = "store", ![r].value.newest = current_version]
    /\ UNCHANGED <<current_version, cache, results>>

Store(r) ==
    /\ At(r, "store")
    /\ cache' = With(cache, CacheIdentity(r), reader[r].value)
    /\ Goes(r, IF CacheIdentity(r) \in DOMAIN results THEN "answer" ELSE "keep")
    /\ UNCHANGED <<current_version, results>>

\* The row is inserted at the commit; where another request has inserted it
\* since the look for it, the constraint refuses it and the request fails.
Keep(r) ==
    /\ At(r, "keep")
    /\ LET identity == CacheIdentity(r)
       IN IF identity \in DOMAIN results
          THEN /\ reader' = [reader EXCEPT ![r] = Idle]
               /\ UNCHANGED results
          ELSE /\ results' = With(results, identity, reader[r].value)
               /\ Goes(r, "answer")
    /\ UNCHANGED <<current_version, cache>>

\* With the identity as its ETag; a client that has it already is told so.
Answer(r) ==
    /\ At(r, "answer")
    /\ reader' = [reader EXCEPT ![r] = Idle]
    /\ UNCHANGED <<current_version, cache, results>>

\* The time to live of an entry passes.
ForgetAnswer(identity) ==
    /\ cache' = [i \in DOMAIN cache \ {identity} |-> cache[i]]
    /\ UNCHANGED <<current_version, results, reader>>

\* A refresh replaces the aggregates and moves the version in one commit.
Publish ==
    /\ current_version < MaxVersion
    /\ current_version' = current_version + 1
    /\ UNCHANGED <<cache, results, reader>>

KpiNext ==
    \/ \E r \in Readers :
         ReadDataVersion(r) \/ LookUp(r) \/ CacheUnavailable(r) \/ MeasureSnapshot(r)
         \/ DimensionDerivedMeasures(r) \/ Store(r) \/ Keep(r) \/ Answer(r)
    \/ \E identity \in DOMAIN cache : ForgetAnswer(identity)
    \/ Publish

----------------------------------------------------------------------------

IsOf(identity, value) ==
    /\ value.grants = identity[1]
    /\ value.oldest >= identity[2]

\* Whatever refreshes commit between the statements of a request, and whoever
\* filled the cache (queries.py:538-634): a value that is cached, kept or
\* answered under a data version was computed from that version or later ones
\* and with the grants of whoever gets it.
AnswersAreAsNewAsTheirLabel ==
    /\ \A identity \in DOMAIN cache : IsOf(identity, cache[identity])
    /\ \A identity \in DOMAIN results : IsOf(identity, results[identity])
    /\ \A r \in Readers : At(r, "answer") => IsOf(CacheIdentity(r), reader[r].value)
=============================================================================
