--------------------------- MODULE ImportPipeline ---------------------------
(***************************************************************************)
(* The ERP import pipeline: HTTP handlers create batches in PostgreSQL and *)
(* send step messages through Dramatiq/Redis; worker processes run the     *)
(* steps acquire, parse, validate, map, normalize, load and finalize, each *)
(* in one or several database transactions, and send the next message      *)
(* after their last commit.                                                *)
(*                                                                         *)
(* A step whose body is one transaction under SELECT ... FOR UPDATE is one *)
(* action; acquire and parse, which commit in between, are several.  The   *)
(* broker delivers a message at least once: a worker that dies, or that is *)
(* presumed dead, leaves its message to be delivered again.                *)
(***************************************************************************)
EXTENDS ProcessingStateMachine, Integers, Sequences, FiniteSets

CONSTANTS
    Batches,        \* identifiers of import batches
    Workers,        \* worker threads
    Keys,           \* (entity_type, external_id, source_version) of staged rows
    File,           \* the rows of a landing file, each the key it stages under
    Chunk,          \* integration_chunk_records
    FinalAttempt,   \* final_attempt of _record_failure
    MaxRetries,     \* max_retries of the actors
    Verdicts,       \* worst finding the quality engine may report on a row
    FaultySteps,    \* steps that a transient error may strike
    BrokerFails,    \* whether a send may raise because Redis is away
    MaxFaults,      \* bound on transient errors and refused uploads
    MaxCrashes,     \* bound on process deaths
    MaxDuplicates,  \* bound on deliveries of a message that is being worked on
    NoFile,         \* "no landing manifest"
    NoMsg           \* "no message"

Steps == { "acquire", "parse", "validate", "map", "normalize", "load", "finalize" }

Message == [ batch : Batches, step : Steps, retries : 0 .. MaxRetries ]

ASSUME PipelineAssumption ==
    /\ File \in Seq(Keys)
    /\ \A k \in Keys : \E i \in DOMAIN File : File[i] = k
    /\ Chunk \in Nat \ {0}
    /\ FinalAttempt \in Nat \ {0}
    /\ MaxRetries \in Nat
    /\ Verdicts \subseteq { "clean", "warning", "blocking" }
    /\ FaultySteps \subseteq Steps
    /\ BrokerFails \in BOOLEAN
    /\ MaxFaults \in Nat
    /\ MaxCrashes \in Nat
    /\ MaxDuplicates \in Nat
    /\ NoFile \notin Batches
    /\ NoMsg \notin Message

VARIABLES
    db,         \* the committed rows of each batch
    objects,    \* landing objects in storage, named by the batch that put them
    queue,      \* how many copies of each message wait in Redis
    worker,     \* what each worker thread is doing
    outgoing,   \* messages an HTTP handler sends after its commit
    cancelling, \* batches a cancel handler has read as queued
    notices,    \* messages sent to other subsystems after finalize
    faults,     \* transient errors and refused uploads so far
    crashes,    \* process deaths so far
    duplicates  \* duplicate deliveries so far

budgets == << faults, crashes, duplicates >>
vars == << db, objects, queue, worker, outgoing, cancelling, notices, budgets >>

NoExec == "none"    \* uploads and replays have no sync_executions row
NoEvent == "none"

StagingStatus == { "absent", "received", "valid", "rejected", "loaded" }

\* What the tables hold about one batch: import_batches (state,
\* cancel_requested, duplicate_records as repeated,
\* rejected_records), sync_executions,
\* the manifest's file, staging_records, the parse row of
\* processing_statistics, rejected_records, processing_errors (data_quality
\* severities, worker_failure counts), dead letters, lineage_events and the
\* finalize event of the outbox.
Row == [ kind       : { "none", "sync", "upload", "replay" },
         state      : ProcessingState,
         exec       : ProcessingState \cup { NoExec },
         cancel     : BOOLEAN,
         file       : Batches \cup { NoFile },
         staging    : [ Keys -> StagingStatus ],
         parsed     : BOOLEAN,
         repeated   : Int,
         rejected   : BOOLEAN,
         rejects    : SUBSET Keys,
         quality    : SUBSET { "warning", "blocking" },
         failures   : [ Steps -> Nat ],
         dead       : SUBSET Steps,
         lineage    : SUBSET Keys,
         event      : ProcessingState \cup { NoEvent } ]

EmptyRow == [ kind |-> "none", state |-> "created", exec |-> NoExec,
              cancel |-> FALSE, file |-> NoFile,
              staging |-> [ k \in Keys |-> "absent" ], parsed |-> FALSE,
              repeated |-> 0, rejected |-> FALSE, rejects |-> {},
              quality |-> {}, failures |-> [ s \in Steps |-> 0 ], dead |-> {},
              lineage |-> {}, event |-> NoEvent ]

\* A worker is idle, between the two transactions of acquire ("extract"),
\* streaming the file of a parse ("stream"), committed and about to send the
\* next message ("send"), or about to record an exception ("failed").
Task == [ pc       : { "idle", "extract", "stream", "send", "failed" },
          msg      : Message \cup { NoMsg },
          cursor   : Nat,
          inserted : Nat ]

Idle == [ pc |-> "idle", msg |-> NoMsg, cursor |-> 0, inserted |-> 0 ]
Busy(pc, m) == [ pc |-> pc, msg |-> m, cursor |-> 0, inserted |-> 0 ]

FirstTry(b, step) == [ batch |-> b, step |-> step, retries |-> 0 ]

FollowingStep ==
    [ acquire |-> "parse", parse |-> "validate", validate |-> "map",
      map |-> "normalize", normalize |-> "load", load |-> "finalize" ]

TypeOK ==
    /\ db \in [ Batches -> Row ]
    /\ objects \subseteq Batches
    /\ queue \in [ Message -> Nat ]
    /\ worker \in [ Workers -> Task ]
    /\ outgoing \subseteq Message
    /\ cancelling \subseteq Batches
    /\ notices \subseteq Batches \X { "outbox", "analytics" }
    /\ faults \in 0 .. MaxFaults
    /\ crashes \in 0 .. MaxCrashes
    /\ duplicates \in 0 .. MaxDuplicates

Init ==
    /\ db = [ b \in Batches |-> EmptyRow ]
    /\ objects = {}
    /\ queue = [ m \in Message |-> 0 ]
    /\ worker = [ w \in Workers |-> Idle ]
    /\ outgoing = {}
    /\ cancelling = {}
    /\ notices = {}
    /\ faults = 0
    /\ crashes = 0
    /\ duplicates = 0

(***************************************************************************)
(* Transactions on a batch's rows.                                         *)
(***************************************************************************)

\* Mutation: only the execution is asserted, and no trigger guards the batch.
CanTransitionUnguarded(row, target) == row.exec # NoExec => MayMove(row.exec, target)

\* transition_batch moves the batch and, when there is one, its execution in
\* the same transaction; either assertion failing rolls everything back.
CanTransition(row, target) ==
    /\ MayMove(row.state, target)
    /\ row.state # target /\ row.exec # NoExec => MayMove(row.exec, target)

TransitionBatch(row, target) ==
    IF row.state = target
    THEN row
    ELSE [ row EXCEPT !.state = target,
                      !.exec = IF @ = NoExec THEN NoExec ELSE target ]

Commit(b, row) == db' = [ db EXCEPT ![b] = row ]

\* Mutation: a step does not recognise a batch that is to be retried.
ReadyForOwnState(row, state) == row.state = state

\* What validate, map, normalize and load do first: the step's own state and
\* RETRY_SCHEDULED let it proceed, and the latter is left at once.
ReadyFor(row, state) == row.state \in { "retry_scheduled", state }
Resume(row, state) ==
    IF row.state = "retry_scheduled" THEN TransitionBatch(row, state) ELSE row

Completed == { "completed", "completed_with_warnings" }
Settled == Terminal \cup { "failed", "quarantined" }

(***************************************************************************)
(* HTTP handlers.                                                          *)
(***************************************************************************)
ApiUnchanged == UNCHANGED << queue, worker, notices, budgets >>

\* POST /sources/{id}/sync
StartSync(b) ==
    /\ db[b].kind = "none"
    /\ Commit(b, [ EmptyRow EXCEPT !.kind = "sync", !.state = "queued", !.exec = "queued" ])
    /\ outgoing' = outgoing \cup { FirstTry(b, "acquire") }
    /\ UNCHANGED << objects, cancelling >>
    /\ ApiUnchanged

\* POST /sources/{id}/upload: the object is stored before the rows commit.
UploadSourceFile(b) ==
    /\ db[b].kind = "none"
    /\ Commit(b, [ EmptyRow EXCEPT !.kind = "upload", !.state = "received", !.file = b ])
    /\ objects' = objects \cup { b }
    /\ outgoing' = outgoing \cup { FirstTry(b, "parse") }
    /\ UNCHANGED cancelling
    /\ ApiUnchanged

\* POST /batches/{id}/reprocess: a new batch over the manifest of any parent.
ReprocessBatch(parent, b) ==
    /\ db[b].kind = "none"
    /\ db[parent].file # NoFile
    /\ Commit(b, [ EmptyRow EXCEPT !.kind = "replay", !.state = "queued",
                                   !.file = db[parent].file ])
    /\ outgoing' = outgoing \cup { FirstTry(b, "parse") }
    /\ UNCHANGED << objects, cancelling >>
    /\ ApiUnchanged

\* The .send that follows the commit of the three handlers above.
ApiSend(m) ==
    /\ m \in outgoing
    /\ outgoing' = outgoing \ { m }
    /\ queue' = [ queue EXCEPT ![m] = @ + 1 ]
    /\ UNCHANGED << db, objects, worker, cancelling, notices, budgets >>

\* The API process dies between the commit and the .send.
ApiCrash(m) ==
    /\ m \in outgoing
    /\ crashes < MaxCrashes
    /\ crashes' = crashes + 1
    /\ outgoing' = outgoing \ { m }
    /\ UNCHANGED << db, objects, queue, worker, cancelling, notices, faults, duplicates >>

\* The .send raises: the upload handler then deletes the object it stored,
\* although the rows that refer to it are committed.
ApiSendFails(m) ==
    /\ m \in outgoing
    /\ BrokerFails
    /\ faults < MaxFaults
    /\ faults' = faults + 1
    /\ outgoing' = outgoing \ { m }
    /\ objects' = IF db[m.batch].kind = "upload" THEN objects \ { m.batch } ELSE objects
    /\ UNCHANGED << db, queue, worker, cancelling, notices, crashes, duplicates >>

\* A second upload of the same file: it looked for the object in the bucket
\* before the first had put it, stored it again, and its insert is refused by
\* uq_imported_files_source_hash.  Its handler deletes the object of both.
UploadRefused(b) ==
    /\ db[b].kind = "upload"
    /\ faults < MaxFaults
    /\ faults' = faults + 1
    /\ objects' = objects \ { b }
    /\ UNCHANGED << db, queue, worker, outgoing, cancelling, notices, crashes, duplicates >>

\* POST /batches/{id}/cancel reads the batch without a lock.  Only a batch
\* read as queued is moved, by a later UPDATE; for any other only the flag is set.
CancelRead(b) ==
    /\ db[b].kind # "none"
    /\ IF db[b].state = "queued"
       THEN /\ cancelling' = cancelling \cup { b }
            /\ UNCHANGED db
       ELSE /\ Commit(b, [ db[b] EXCEPT !.cancel = TRUE ])
            /\ UNCHANGED cancelling
    /\ UNCHANGED << objects, outgoing >>
    /\ ApiUnchanged

\* Mutation: no trigger stops the stale UPDATE of a cancel handler.
CancelCommitBlind(b) ==
    /\ b \in cancelling
    /\ cancelling' = cancelling \ { b }
    /\ Commit(b, [ TransitionBatch(db[b], "cancelled") EXCEPT !.cancel = TRUE ])
    /\ UNCHANGED << objects, outgoing >>
    /\ ApiUnchanged

\* The UPDATE writes 'cancelled' over whatever state the row has by then; the
\* database trigger rejects it when that state may not become 'cancelled', and
\* the execution, read afresh, is asserted like any other transition.
CancelCommit(b) ==
    /\ b \in cancelling
    /\ cancelling' = cancelling \ { b }
    /\ IF CanTransition(db[b], "cancelled")
       THEN Commit(b, [ TransitionBatch(db[b], "cancelled") EXCEPT !.cancel = TRUE ])
       ELSE UNCHANGED db
    /\ UNCHANGED << objects, outgoing >>
    /\ ApiUnchanged

\* PATCH /rejections/{id}: the corrected payload goes back to staging.
CorrectRejectedRecord(b, k) ==
    /\ k \in db[b].rejects
    /\ Commit(b, [ db[b] EXCEPT !.staging[k] = "received" ])
    /\ UNCHANGED << objects, outgoing, cancelling >>
    /\ ApiUnchanged

(***************************************************************************)
(* Worker steps.                                                           *)
(***************************************************************************)
WorkerUnchanged == UNCHANGED << outgoing, cancelling, notices, budgets >>

Deliver(w, m, step) ==
    /\ worker[w].pc = "idle"
    /\ m.step = step
    /\ queue[m] > 0
    /\ queue' = [ queue EXCEPT ![m] = @ - 1 ]
    /\ UNCHANGED objects
    /\ WorkerUnchanged

Become(w, task) == worker' = [ worker EXCEPT ![w] = task ]

\* The message is acknowledged and nothing follows it.
Ignore == UNCHANGED << db, worker >>

\* An exception leaves the step's transaction rolled back.
Raise(w, m) == Become(w, Busy("failed", m)) /\ UNCHANGED db

\* The step's last commit; the next message is still to be sent.
CommitAndSend(w, m, row) == Commit(m.batch, row) /\ Become(w, Busy("send", m))

CommitCancelled(b, row) == Commit(b, TransitionBatch(row, "cancelled")) /\ UNCHANGED worker

\* First transaction of _acquire_batch.
Acquire(w, m) ==
    /\ Deliver(w, m, "acquire")
    /\ LET row == db[m.batch]
           ready == row.state \in { "retry_scheduled", "queued" }
       IN  \/ /\ row.state \in Terminal \/ (~row.cancel /\ ~ready)
              /\ Ignore
           \/ /\ row.state \notin Terminal /\ row.cancel
              /\ CommitCancelled(m.batch, row)
           \/ /\ ~row.cancel /\ ready
              /\ Commit(m.batch,
                        TransitionBatch(TransitionBatch(row, "connecting"), "extracting"))
              /\ Become(w, Busy("extract", m))

\* The extraction, the put of the object and the second transaction.  The
\* content is new, and then the batch owns an ImportedFile, or it is that of an
\* earlier synchronisation, whose file is used.  A second manifest of the
\* batch violates uq_landing_manifests_batch.
Land(w) ==
    LET m == worker[w].msg
        row == db[m.batch]
        landed == { b \in Batches : db[b].kind = "sync" /\ db[b].file = b }
    IN  /\ worker[w].pc = "extract"
        /\ \/ /\ row.file = NoFile
              /\ CanTransition(row, "received")
              /\ \E f \in landed \cup { m.batch } :
                    /\ CommitAndSend(w, m, [ TransitionBatch(row, "received") EXCEPT !.file = f ])
                    /\ objects' = objects \cup { f }
           \/ /\ row.file # NoFile \/ ~CanTransition(row, "received")
              /\ Raise(w, m)
              /\ objects' \in { objects, objects \cup { m.batch } }
        /\ UNCHANGED queue
        /\ WorkerUnchanged

\* First transaction of _parse_batch.  An object that is missing makes
\* _parse_file raise as soon as it is opened.
Parse(w, m) ==
    /\ Deliver(w, m, "parse")
    /\ LET row == db[m.batch]
           ready == row.state \in { "retry_scheduled", "queued", "received" }
       IN  \/ /\ row.state \in Terminal \/ (~row.cancel /\ ~ready)
              /\ Ignore
           \/ /\ row.state \notin Terminal /\ row.cancel
              /\ CommitCancelled(m.batch, row)
           \/ /\ ~row.cancel /\ ready /\ row.file = NoFile
              /\ Raise(w, m)
           \/ /\ ~row.cancel /\ ready /\ row.file # NoFile
              /\ Commit(m.batch, TransitionBatch(row, "received"))
              /\ Become(w, Busy(IF row.file \in objects THEN "stream" ELSE "failed", m))

\* Mutation: a row that is already staged is staged anew.
InsertStagingChunkAnew(w) ==
    LET m == worker[w].msg
        from == worker[w].cursor
        to == IF from + Chunk < Len(File) THEN from + Chunk ELSE Len(File)
        new == { k \in Keys : \E i \in from + 1 .. to : File[i] = k }
    IN  /\ worker[w].pc = "stream"
        /\ from < Len(File)
        /\ Commit(m.batch,
                  [ db[m.batch] EXCEPT
                      !.staging = [ k \in Keys |-> IF k \in new THEN "received" ELSE @[k] ] ])
        /\ Become(w, [ worker[w] EXCEPT !.cursor = to, !.inserted = @ + Cardinality(new) ])
        /\ UNCHANGED << objects, queue >>
        /\ WorkerUnchanged

\* _insert_staging_chunk: one transaction per chunk, ON CONFLICT DO NOTHING,
\* whatever the batch's state is by then.
InsertStagingChunk(w) ==
    LET m == worker[w].msg
        from == worker[w].cursor
        to == IF from + Chunk < Len(File) THEN from + Chunk ELSE Len(File)
        new == { k \in Keys : /\ db[m.batch].staging[k] = "absent"
                              /\ \E i \in from + 1 .. to : File[i] = k }
    IN  /\ worker[w].pc = "stream"
        /\ from < Len(File)
        /\ Commit(m.batch,
                  [ db[m.batch] EXCEPT
                      !.staging = [ k \in Keys |-> IF k \in new THEN "received" ELSE @[k] ] ])
        /\ Become(w, [ worker[w] EXCEPT !.cursor = to, !.inserted = @ + Cardinality(new) ])
        /\ UNCHANGED << objects, queue >>
        /\ WorkerUnchanged

\* Last transaction of _parse_batch.  A second parse row for the batch
\* violates uq_processing_statistics_step_entity.
FinishParse(w) ==
    LET m == worker[w].msg
        row == db[m.batch]
        possible == CanTransition(row, "validating") /\ ~row.parsed
    IN  /\ worker[w].pc = "stream"
        /\ worker[w].cursor = Len(File)
        /\ \/ /\ possible
              /\ CommitAndSend(w, m, [ TransitionBatch(row, "validating") EXCEPT
                                         !.parsed = TRUE,
                                         !.repeated = Len(File) - worker[w].inserted ])
           \/ /\ ~possible
              /\ Raise(w, m)
        /\ UNCHANGED << objects, queue >>
        /\ WorkerUnchanged

\* Mutation: a blocked row is marked but its rejected record is not written.
JudgementUnrecorded(row, verdict) ==
    [ row EXCEPT !.staging = [ k \in Keys |-> IF verdict[k] = "blocking" THEN "rejected" ELSE "valid" ],
                 !.quality = @ \cup { verdict[k] : k \in { j \in Keys : verdict[j] # "clean" } } ]

\* _validate_batch: every staged row is judged again.  A second rejected row
\* for the same staged row violates uq_rejected_records_staging, while the
\* findings of an earlier validation stay in processing_errors.
Judgement(row, verdict) ==
    LET staged == { k \in Keys : row.staging[k] # "absent" }
        blocked == { k \in staged : verdict[k] = "blocking" }
    IN  [ row EXCEPT
            !.staging = [ k \in Keys |-> IF k \in blocked THEN "rejected"
                                          ELSE IF k \in staged THEN "valid" ELSE "absent" ],
            !.rejected = blocked # {},
            !.rejects = @ \cup blocked,
            !.quality = @ \cup { verdict[k] : k \in { j \in staged : verdict[j] # "clean" } } ]

Validate(w, m) ==
    /\ Deliver(w, m, "validate")
    /\ LET row == db[m.batch]
           ready == ReadyFor(row, "validating")
       IN  \/ /\ row.state \in Terminal \/ (~row.cancel /\ ~ready)
              /\ Ignore
           \/ /\ row.state \notin Terminal /\ row.cancel
              /\ CommitCancelled(m.batch, row)
           \/ /\ ~row.cancel /\ ready
              /\ \E verdict \in [ Keys -> Verdicts ] :
                    IF \E k \in row.rejects : verdict[k] = "blocking"
                    THEN Raise(w, m)
                    ELSE CommitAndSend(w, m,
                             Judgement(TransitionBatch(Resume(row, "validating"), "mapping"),
                                       verdict))

\* _map_batch and _normalize_batch rewrite normalized_payload and do not look
\* at cancel_requested.
MapOrNormalize(w, m, step, state, target) ==
    /\ Deliver(w, m, step)
    /\ LET row == db[m.batch]
       IN  \/ /\ ~ReadyFor(row, state)
              /\ Ignore
           \/ /\ ReadyFor(row, state)
              /\ CommitAndSend(w, m, TransitionBatch(Resume(row, state), target))

Map(w, m) == MapOrNormalize(w, m, "map", "mapping", "normalizing")
Normalize(w, m) == MapOrNormalize(w, m, "normalize", "normalizing", "loading")

\* _load_batch: the valid rows are upserted into the canonical tables with one
\* lineage event each, whose primary key is derived from the staged row.
Load(w, m) ==
    /\ Deliver(w, m, "load")
    /\ LET row == db[m.batch]
           ready == ReadyFor(row, "loading")
           valid == { k \in Keys : row.staging[k] = "valid" }
       IN  \/ /\ ~ready
              /\ Ignore
           \/ /\ ready /\ row.cancel
              /\ CommitCancelled(m.batch, row)
           \/ /\ ready /\ ~row.cancel /\ valid \cap row.lineage # {}
              /\ Raise(w, m)
           \/ /\ ready /\ ~row.cancel /\ valid \cap row.lineage = {}
              /\ CommitAndSend(w, m,
                     [ Resume(row, "loading") EXCEPT
                         !.staging = [ k \in Keys |-> IF k \in valid THEN "loaded" ELSE @[k] ],
                         !.lineage = @ \cup valid ])

\* Mutation: findings of the quality engine are not counted.
OutcomeByWorkers(row) ==
    IF row.dead # {} THEN "quarantined"
    ELSE IF \E s \in Steps : row.failures[s] > 0 THEN "completed_with_warnings"
    ELSE "completed"

\* _finalize_batch: only a batch in LOADING is finalized.  A worker failure
\* counts as a warning, and as blocking when it was the final attempt.
Outcome(row) ==
    IF "blocking" \in row.quality \/ row.dead # {}
    THEN "quarantined"
    ELSE IF \/ "warning" \in row.quality
            \/ \E s \in Steps : row.failures[s] > 0
            \/ row.rejected
         THEN "completed_with_warnings"
         ELSE "completed"

Finalize(w, m) ==
    /\ Deliver(w, m, "finalize")
    /\ LET row == db[m.batch]
       IN  \/ /\ row.state # "loading"
              /\ Ignore
           \/ /\ row.state = "loading"
              /\ CommitAndSend(w, m, [ TransitionBatch(row, Outcome(row)) EXCEPT
                                         !.event = Outcome(row) ])

\* Mutations: a quarantined batch asks for a refresh too; one completed with
\* warnings does not.
SendFollowingTo(w, refreshed) ==
    LET m == worker[w].msg
        b == m.batch
    IN  /\ worker[w].pc = "send"
        /\ Become(w, Idle)
        /\ IF m.step = "finalize"
           THEN /\ notices' = notices \cup (IF db[b].state \in refreshed THEN { << b, "analytics" >> } ELSE {})
                /\ UNCHANGED queue
           ELSE /\ queue' = [ queue EXCEPT ![FirstTry(b, FollowingStep[m.step])] = @ + 1 ]
                /\ UNCHANGED notices
        /\ UNCHANGED << db, objects, outgoing, cancelling, budgets >>
SendFollowingAlways(w) == SendFollowingTo(w, Completed \cup { "quarantined" })
SendFollowingIfClean(w) == SendFollowingTo(w, { "completed" })

\* The .send calls after a step's last commit, and the acknowledgement of its
\* own message.  A quarantined batch does not ask for an analytics refresh.
SendFollowing(w) ==
    LET m == worker[w].msg
        b == m.batch
    IN  /\ worker[w].pc = "send"
        /\ Become(w, Idle)
        /\ IF m.step = "finalize"
           THEN /\ notices' = notices \cup { << b, "outbox" >> }
                                    \cup (IF db[b].state \in Completed THEN { << b, "analytics" >> } ELSE {})
                /\ UNCHANGED queue
           ELSE /\ queue' = [ queue EXCEPT ![FirstTry(b, FollowingStep[m.step])] = @ + 1 ]
                /\ UNCHANGED notices
        /\ UNCHANGED << db, objects, outgoing, cancelling, budgets >>

(***************************************************************************)
(* Failures.                                                               *)
(***************************************************************************)

\* Mutation: the dead letter is written an attempt too early.
FailedEarly(row, step) ==
    LET attempt == row.failures[step] + 1
        target == IF attempt >= FinalAttempt THEN "failed" ELSE "retry_scheduled"
    IN  IF row.state \in Terminal \/ ~CanTransition(row, target)
        THEN row
        ELSE [ TransitionBatch(row, target) EXCEPT
                 !.failures[step] = attempt,
                 !.dead = IF attempt + 1 >= FinalAttempt THEN @ \cup { step } ELSE @ ]

\* _record_failure in its own transaction.  A terminal batch is left alone,
\* and a transition that is not allowed rolls the record of the failure back.
Failed(row, step) ==
    LET attempt == row.failures[step] + 1
        final == attempt >= FinalAttempt
        target == IF final THEN "failed" ELSE "retry_scheduled"
    IN  IF row.state \in Terminal \/ ~CanTransition(row, target)
        THEN row
        ELSE [ TransitionBatch(row, target) EXCEPT
                 !.failures[step] = attempt,
                 !.dead = IF final THEN @ \cup { step } ELSE @ ]

\* Mutation: the actor does not raise again.
RecordFailureQuietly(w) ==
    /\ worker[w].pc = "failed"
    /\ Commit(worker[w].msg.batch, Failed(db[worker[w].msg.batch], worker[w].msg.step))
    /\ Become(w, Idle)
    /\ UNCHANGED << queue, objects >>
    /\ WorkerUnchanged

\* The actor records the failure and raises again: Dramatiq schedules the
\* message for another attempt until max_retries is spent.
RecordFailure(w) ==
    LET m == worker[w].msg
    IN  /\ worker[w].pc = "failed"
        /\ Commit(m.batch, Failed(db[m.batch], m.step))
        /\ Become(w, Idle)
        /\ queue' = IF m.retries < MaxRetries
                    THEN [ queue EXCEPT ![[ m EXCEPT !.retries = @ + 1 ]] = @ + 1 ]
                    ELSE queue
        /\ UNCHANGED objects
        /\ WorkerUnchanged

FaultUnchanged == UNCHANGED << db, objects, outgoing, cancelling, notices, crashes, duplicates >>

MayFault(step) ==
    /\ step \in FaultySteps
    /\ faults < MaxFaults
    /\ faults' = faults + 1

\* A transient error before the step commits anything.
FaultOnDelivery(w, m) ==
    /\ worker[w].pc = "idle"
    /\ queue[m] > 0
    /\ MayFault(m.step)
    /\ queue' = [ queue EXCEPT ![m] = @ - 1 ]
    /\ Become(w, Busy("failed", m))
    /\ FaultUnchanged

\* A transient error of the connector, the storage or the database between
\* the transactions of acquire and parse.
FaultMidway(w) ==
    /\ worker[w].pc \in { "extract", "stream" }
    /\ MayFault(worker[w].msg.step)
    /\ Become(w, Busy("failed", worker[w].msg))
    /\ UNCHANGED queue
    /\ FaultUnchanged

\* A .send after the commit raises, inside the actor's try block; that of
\* finalize may be its second one.
SendFails(w) ==
    LET m == worker[w].msg
    IN  /\ worker[w].pc = "send"
        /\ BrokerFails
        /\ faults < MaxFaults
        /\ faults' = faults + 1
        /\ Become(w, Busy("failed", m))
        /\ \/ UNCHANGED notices
           \/ /\ m.step = "finalize"
              /\ db[m.batch].state \in Completed
              /\ notices' = notices \cup { << m.batch, "outbox" >> }
        /\ UNCHANGED << db, objects, queue, outgoing, cancelling, crashes, duplicates >>

\* The worker process dies; the unacknowledged message is delivered again.
Crash(w) ==
    /\ worker[w].pc # "idle"
    /\ crashes < MaxCrashes
    /\ crashes' = crashes + 1
    /\ Become(w, Idle)
    /\ queue' = [ queue EXCEPT ![worker[w].msg] = @ + 1 ]
    /\ UNCHANGED << db, objects, outgoing, cancelling, notices, faults, duplicates >>

\* The broker takes a live worker for dead and delivers its message again.
Redeliver(w) ==
    /\ worker[w].pc # "idle"
    /\ duplicates < MaxDuplicates
    /\ duplicates' = duplicates + 1
    /\ queue' = [ queue EXCEPT ![worker[w].msg] = @ + 1 ]
    /\ UNCHANGED << db, objects, worker, outgoing, cancelling, notices, faults, crashes >>

(***************************************************************************)
(* Specification.                                                          *)
(***************************************************************************)
Api ==
    \/ \E b \in Batches : StartSync(b) \/ UploadSourceFile(b)
    \/ \E p, b \in Batches : ReprocessBatch(p, b)
    \/ \E m \in outgoing : ApiSend(m) \/ ApiCrash(m) \/ ApiSendFails(m)
    \/ \E b \in Batches : UploadRefused(b) \/ CancelRead(b) \/ CancelCommit(b)
    \/ \E b \in Batches, k \in Keys : CorrectRejectedRecord(b, k)

Begin(w, m) ==
    \/ Acquire(w, m) \/ Parse(w, m) \/ Validate(w, m) \/ Map(w, m)
    \/ Normalize(w, m) \/ Load(w, m) \/ Finalize(w, m)

Continue(w) ==
    \/ Land(w) \/ InsertStagingChunk(w) \/ FinishParse(w)
    \/ SendFollowing(w) \/ RecordFailure(w)

Failure ==
    \/ \E w \in Workers, m \in Message : FaultOnDelivery(w, m)
    \/ \E w \in Workers : FaultMidway(w) \/ SendFails(w) \/ Crash(w) \/ Redeliver(w)

Next ==
    \/ Api
    \/ \E w \in Workers, m \in Message : Begin(w, m)
    \/ \E w \in Workers : Continue(w)
    \/ Failure

Spec == Init /\ [][Next]_vars

\* Worker processes run and Dramatiq delivers what is queued; an HTTP handler
\* that is not interrupted reaches its .send.
Fairness ==
    /\ \A m \in Message : WF_vars(\E w \in Workers : Begin(w, m))
    /\ \A w \in Workers : WF_vars(Continue(w))
    /\ WF_vars(\E m \in outgoing : ApiSend(m))

FairSpec == Spec /\ Fairness

(***************************************************************************)
(* Properties.                                                             *)
(***************************************************************************)

\* Every row of the file has been staged and judged by the quality engine
\* before any row of the batch is canonical, whatever was retried, delivered
\* twice or corrected meanwhile; only a row put back by a correction waits.
QualityBeforeLoad ==
    \A b \in Batches : db[b].lineage # {} =>
        \A k \in Keys : \/ db[b].staging[k] \in { "valid", "rejected", "loaded" }
                        \/ db[b].staging[k] = "received" /\ k \in db[b].rejects

\* A batch reported as completed has every row of its file in the canonical
\* model and none rejected: no chunk, no step and no row was skipped.
CompletedIsWhole ==
    \A b \in Batches : db[b].state \in Completed =>
        db[b].lineage = Keys /\ db[b].rejects = {}

\* A dead letter exists exactly when a batch failed, and is kept when that
\* batch is cancelled afterwards: no batch with a dead letter runs again.
DeadLetterMeansFailed ==
    \A b \in Batches :
        /\ db[b].state = "failed" => db[b].dead # {}
        /\ db[b].dead # {} => db[b].state \in { "failed", "cancelled" }

\* Only a completed batch asks for an analytics refresh, and it stays so: the
\* refresh never reads the rows of a batch that was cancelled or quarantined.
AnalyticsOnlyForCompleted ==
    \A b \in Batches : << b, "analytics" >> \in notices => db[b].state \in Completed

\* A landing manifest that a replay may still use refers to a stored object.
ManifestHasObject ==
    \A b \in Batches : db[b].file # NoFile => db[b].file \in objects

\* A message that is queued, about to be sent by a handler or worked on.
UnderWay(m) ==
    \/ queue[m] > 0
    \/ m \in outgoing
    \/ \E w \in Workers : worker[w].pc # "idle" /\ worker[w].msg = m

Pending(b) == \E m \in Message : m.batch = b /\ UnderWay(m)

\* A batch in RETRY_SCHEDULED has a message or a worker that will retry it.
RetryIsScheduled ==
    \A b \in Batches : db[b].state = "retry_scheduled" => Pending(b)

\* A batch fails only after a step met as many errors as final_attempt allows.
FailsOnlyAfterFinalAttempt ==
    \A b \in Batches : db[b].state = "failed" => faults >= FinalAttempt

\* A terminal state is never left, even by a cancel handler or a late second
\* transaction of acquire or parse that read the batch before it settled.
TerminalNotReopened ==
    [][\A b \in Batches : db[b].state \in Terminal /\ db[b].kind # "none"
                              => db'[b].state = db[b].state]_vars

\* The phase of the contract that a batch is in.
PhaseOf(row) ==
    CASE row.kind = "none" -> "absent"
      [] row.kind # "none" /\ row.state \in Completed -> "completed"
      [] row.kind # "none" /\ row.state \in { "quarantined", "failed", "cancelled" } -> row.state
      [] OTHER -> "open"

Contract == INSTANCE BatchContract
                WITH phase <- [ b \in Batches |-> PhaseOf(db[b]) ],
                     canonical <- [ b \in Batches |-> db[b].lineage ]

\* The pipeline keeps the contract of its batches: nothing becomes canonical
\* once a batch has settled, whichever messages of it are still under way; it
\* completes only with every row canonical, once, and from an open batch; what
\* is completed or cancelled never moves, nor does what failed run again.
ImplementsContract == Contract!Spec

\* Every batch that is created settles: completed, cancelled, quarantined or failed.
Settles ==
    \A b \in Batches : db[b].kind # "none" ~> db[b].state \in Settled

\* Every completed batch eventually asks for its analytics refresh.
CompletedReachesAnalytics ==
    \A b \in Batches : db[b].state \in Completed ~> << b, "analytics" >> \in notices

(***************************************************************************)
(* The inductive invariant behind the safety properties.                   *)
(***************************************************************************)

Staged(row) == \A k \in Keys : row.staging[k] # "absent"

Judged(row) ==
    \A k \in Keys : \/ row.staging[k] \in { "valid", "rejected", "loaded" }
                    \/ row.staging[k] = "received" /\ k \in row.rejects

Accounted(row) == \A k \in Keys : k \in row.lineage \cup row.rejects

\* What must have been committed before a message of a step can exist.
Reached(row, step) ==
    /\ step \in { "validate", "map", "normalize", "load", "finalize" } => row.parsed
    /\ step \in { "map", "normalize", "load", "finalize" } => Judged(row)
    /\ step = "finalize" => Accounted(row)

\* The rows of one batch agree with each other.
RowInv(row) ==
    /\ row.kind = "none" => row = EmptyRow
    /\ row.exec \in { NoExec, row.state }
    /\ row.state = "failed" => row.dead # {}
    /\ row.dead # {} => row.state \in { "failed", "cancelled" }
    /\ row.rejects # {} => "blocking" \in row.quality
    /\ \A k \in Keys : /\ row.staging[k] = "rejected" => k \in row.rejects
                       /\ row.staging[k] = "loaded" => k \in row.lineage
    /\ row.parsed => Staged(row)
    /\ row.lineage # {} => Judged(row)
    /\ row.state \in Completed => Accounted(row) /\ row.rejects = {}

\* The batch of a message was created, and has what the step relies on.
Due(row, step) == row.kind # "none" /\ Reached(row, step)

\* A busy worker has a message, of a step that has such a stage; what it has
\* streamed is staged, and what it is about to send is due.
TaskInv(row, task) ==
    /\ task.msg \in Message
    /\ Due(row, task.msg.step)
    /\ task.pc = "extract" => task.msg.step = "acquire"
    /\ task.pc = "stream" =>
          /\ task.msg.step = "parse"
          /\ task.cursor <= Len(File)
          /\ \A i \in 1 .. task.cursor : row.staging[File[i]] # "absent"
    /\ task.pc = "send" /\ task.msg.step # "finalize" =>
          Reached(row, FollowingStep[task.msg.step])

\* Rows, tasks and messages agree: every message belongs to a batch that was
\* created and, from validate on, every row it needs was staged, judged and
\* loaded or rejected; the analytics request is that of a completed batch.
IInv ==
    /\ TypeOK
    /\ \A b \in Batches : RowInv(db[b])
    /\ \A w \in Workers : worker[w].pc # "idle" =>
           TaskInv(db[worker[w].msg.batch], worker[w])
    /\ \A m \in Message : queue[m] > 0 \/ m \in outgoing => Due(db[m.batch], m.step)
    /\ \A b \in cancelling : db[b].kind # "none"
    /\ AnalyticsOnlyForCompleted
=============================================================================
