------------------------ MODULE ImportPipelineProofs ------------------------
(***************************************************************************)
(* The safety properties of ImportPipeline for every number of batches,    *)
(* workers, rows, errors, crashes and duplicate deliveries.  The proof is  *)
(* that IInv is inductive: first what each transaction does to one batch's *)
(* rows, then that every action commits such rows and sends only messages  *)
(* that are due.                                                           *)
(***************************************************************************)
EXTENDS ImportPipeline, FiniteSetTheorems, TLAPS

\* The rows of a batch only gain: nothing that a message relied on is undone.
Extends(r, s) ==
    /\ r.kind # "none" => s.kind = r.kind
    /\ r.parsed => s.parsed
    /\ \A k \in Keys : r.staging[k] # "absent" => s.staging[k] # "absent"
    /\ Judged(r) => Judged(s)
    /\ Accounted(r) => Accounted(s)
    /\ r.kind # "none" /\ r.state \in Terminal => s.state = r.state

\* What the contract lets a transaction do to the rows of one batch.
PhaseStep(r, s) ==
    \/ PhaseOf(s) = PhaseOf(r) /\ s.lineage = r.lineage
    \/ PhaseOf(r) = "open" /\ PhaseOf(s) = "open" /\ r.lineage \subseteq s.lineage
    \/ /\ s.lineage = r.lineage
       /\ \/ PhaseOf(r) = "absent" /\ PhaseOf(s) = "open"
          \/ PhaseOf(r) = "open" /\ PhaseOf(s) = "completed" /\ r.lineage = Keys
          \/ PhaseOf(r) = "open" /\ PhaseOf(s) = "quarantined"
          \/ PhaseOf(r) \in { "open", "quarantined" } /\ PhaseOf(s) = "failed"
          \/ PhaseOf(r) \in { "open", "quarantined", "failed" } /\ PhaseOf(s) = "cancelled"

\* Rows that a transaction may leave behind after it found the rows r.
Follows(r, s) == s \in Row /\ RowInv(s) /\ Extends(r, s) /\ PhaseStep(r, s)

\* Neither the phase nor the canonical rows move.
Quiet(r, s) == PhaseOf(s) = PhaseOf(r) /\ s.lineage = r.lineage

(***************************************************************************)
(* Rows.                                                                   *)
(***************************************************************************)

\* The phase of a row, state by state.
LEMMA Phase ==
  ASSUME NEW r \in Row
  PROVE  /\ r.kind = "none" => PhaseOf(r) = "absent"
         /\ r.kind # "none" /\ r.state \in Completed => PhaseOf(r) = "completed"
         /\ r.kind # "none" /\ r.state \in { "quarantined", "failed", "cancelled" } =>
               PhaseOf(r) = r.state
         /\ r.kind # "none" /\ r.state \notin Settled => PhaseOf(r) = "open"
  BY DEF PhaseOf, Completed, Settled, Terminal

\* The row of a batch that does not exist yet has the type of a row.
LEMMA EmptyRowType == EmptyRow \in Row /\ RowInv(EmptyRow)
<1>1. EmptyRow \in Row
  BY DEF EmptyRow, Row, ProcessingState, NoExec, NoEvent, StagingStatus
<1>2. RowInv(EmptyRow)
  BY DEF EmptyRow, RowInv, NoExec, Completed
<1> QED BY <1>1, <1>2

\* transition_batch changes the state and the execution, and nothing else.
LEMMA TransitionRow ==
  ASSUME NEW r \in Row, NEW target \in ProcessingState
  PROVE  LET s == TransitionBatch(r, target)
         IN  /\ s \in Row
             /\ s = [ r EXCEPT !.state = target, !.exec = s.exec ]
             /\ s.state = target
             /\ s.exec \in { r.exec, target }
             /\ r.exec \in { NoExec, r.state } => s.exec \in { NoExec, target }
  BY DEF TransitionBatch, Row, NoExec

\* A move of the state machine keeps the rows in agreement, except into the
\* states that need more than a move.
LEMMA TransitionFollows ==
  ASSUME NEW r \in Row, RowInv(r), r.kind # "none",
         NEW target \in ProcessingState \ (Completed \cup { "failed", "queued" }),
         MayMove(r.state, target)
  PROVE  /\ Follows(r, TransitionBatch(r, target))
         /\ r.state \notin Settled /\ target \notin Settled => Quiet(r, TransitionBatch(r, target))
<1> DEFINE s == TransitionBatch(r, target)
<1>1. /\ s \in Row
      /\ s = [ r EXCEPT !.state = target, !.exec = s.exec ]
      /\ s.state = target
      /\ s.exec \in { NoExec, target }
  BY TransitionRow DEF RowInv
<1> HIDE DEF s
<1>2. /\ s.kind = r.kind /\ s.staging = r.staging /\ s.parsed = r.parsed
      /\ s.rejects = r.rejects /\ s.lineage = r.lineage /\ s.dead = r.dead
      /\ s.quality = r.quality
  BY <1>1 DEF Row
<1>3. r.state \in Terminal => target = r.state
  BY DEF MayMove, Transitions, Terminal, ProcessingState
<1>4. r.state = "failed" => target = "cancelled"
  BY DEF MayMove, Transitions, ProcessingState, Interruptible
<1>5. r.state = "cancelled" => target = "cancelled"
  BY <1>3 DEF Terminal
<1>6. Extends(r, s)
  BY <1>1, <1>2, <1>3 DEF Extends, Staged, Judged, Accounted
<1>7. RowInv(s)
  BY <1>1, <1>2, <1>4, <1>5 DEF RowInv, Staged, Judged, Accounted, Completed
<1>8. r.state \notin Completed
  BY <1>3 DEF Terminal, Completed
<1>9. r.state = "quarantined" => target \in { "quarantined", "cancelled" }
  BY DEF MayMove, Transitions, ProcessingState, Interruptible, Completed
<1>10. PhaseStep(r, s)
  <2>1. CASE r.state \in { "quarantined", "failed", "cancelled" }
    BY <1>1, <1>2, <1>4, <1>5, <1>9, <2>1, Phase DEF PhaseStep
  <2>2. CASE r.state \notin { "quarantined", "failed", "cancelled" }
    <3>1. PhaseOf(r) = "open"
      BY <1>8, <2>2, Phase DEF Settled, Terminal, Completed
    <3>2. PhaseOf(s) \in { "open", "quarantined", "cancelled" }
      BY <1>1, <1>2, Phase DEF Settled, Terminal, Completed
    <3> QED BY <1>2, <3>1, <3>2 DEF PhaseStep
  <2> QED BY <2>1, <2>2
<1>11. r.state \notin Settled /\ target \notin Settled => Quiet(r, s)
  BY <1>1, <1>2, Phase DEF Quiet
<1> QED BY <1>1, <1>6, <1>7, <1>10, <1>11 DEF Follows, s

LEMMA FollowsItself ==
  ASSUME NEW r \in Row, RowInv(r)
  PROVE  Follows(r, r) /\ Quiet(r, r)
  BY DEF Follows, Extends, PhaseStep, Quiet

LEMMA FollowsTwice ==
  ASSUME NEW q, NEW r, NEW s, q.kind # "none", Follows(q, r), Quiet(q, r), Follows(r, s)
  PROVE  Follows(q, s) /\ (Quiet(r, s) => Quiet(q, s))
  BY DEF Follows, Extends, PhaseStep, Quiet

LEMMA FollowsQuietly ==
  ASSUME NEW q, NEW r, NEW s, q.kind # "none", Follows(q, r), Follows(r, s), Quiet(r, s)
  PROVE  Follows(q, s)
  BY DEF Follows, Extends, PhaseStep, Quiet

\* Marking a batch: cancel_requested, the manifest, the parse counter and the
\* finalize event are in no agreement with the other rows.
LEMMA MarkFollows ==
  ASSUME NEW r \in Row, RowInv(r), r.kind # "none", NEW s \in Row,
         s.kind = r.kind, s.state = r.state, s.exec = r.exec,
         s.staging = r.staging, s.parsed = r.parsed, s.rejects = r.rejects,
         s.quality = r.quality, s.dead = r.dead, s.lineage = r.lineage
  PROVE  Follows(r, s) /\ Quiet(r, s)
<1>1. Quiet(r, s)
  BY DEF Quiet, PhaseOf
<1>2. Extends(r, s)
  BY DEF Extends, Judged, Accounted
<1>3. RowInv(s)
  BY DEF RowInv, Staged, Judged, Accounted
<1> QED BY <1>1, <1>2, <1>3 DEF Follows, PhaseStep, Quiet

\* RETRY_SCHEDULED is left for the state of the step that retries.
LEMMA ResumeFollows ==
  ASSUME NEW r \in Row, RowInv(r), r.kind # "none",
         NEW state \in { "validating", "mapping", "normalizing", "loading" },
         ReadyFor(r, state)
  PROVE  /\ Follows(r, Resume(r, state)) /\ Quiet(r, Resume(r, state))
         /\ Resume(r, state).state = state
<1>1. CASE r.state = "retry_scheduled"
  <2>1. MayMove(r.state, state)
    BY <1>1 DEF MayMove, Transitions, ProcessingState
  <2>2. /\ state \in ProcessingState
        /\ state \notin Completed \cup { "failed", "queued" }
    BY DEF ProcessingState, Completed
  <2>3. Follows(r, TransitionBatch(r, state)) /\ Quiet(r, TransitionBatch(r, state))
    BY <1>1, <2>1, <2>2, TransitionFollows DEF Settled, Terminal
  <2>4. TransitionBatch(r, state).state = state
    BY <2>2, TransitionRow
  <2> QED BY <1>1, <2>3, <2>4 DEF Resume
<1>2. CASE r.state = state /\ r.state # "retry_scheduled"
  BY <1>2, FollowsItself DEF Resume
<1> QED BY <1>1, <1>2 DEF ReadyFor

\* A step of the pipeline moves on from its own state.
LEMMA AdvanceFollows ==
  ASSUME NEW r \in Row, RowInv(r), r.kind # "none",
         NEW state \in { "validating", "mapping", "normalizing" },
         NEW target \in { "mapping", "normalizing", "loading" },
         r.state = state,
         target = (CASE state = "validating" -> "mapping"
                     [] state = "mapping" -> "normalizing"
                     [] state = "normalizing" -> "loading")
  PROVE  /\ Follows(r, TransitionBatch(r, target)) /\ Quiet(r, TransitionBatch(r, target))
         /\ TransitionBatch(r, target).state = target
<1>1. MayMove(r.state, target)
  BY DEF MayMove, Transitions, ProcessingState
<1>2. /\ target \in ProcessingState
      /\ target \notin Completed \cup { "failed", "queued" }
  BY DEF ProcessingState, Completed
<1> QED BY <1>1, <1>2, TransitionFollows, TransitionRow DEF Settled, Terminal

\* Validation judges every staged row, once more if need be.
LEMMA JudgementFollows ==
  ASSUME NEW r \in Row, RowInv(r), r.kind # "none", r.parsed,
         r.state = "mapping", NEW verdict \in [ Keys -> Verdicts ]
  PROVE  /\ Follows(r, Judgement(r, verdict)) /\ Quiet(r, Judgement(r, verdict))
         /\ Judged(Judgement(r, verdict))
         /\ Judgement(r, verdict).parsed
<1> DEFINE blocked == { k \in Keys : r.staging[k] # "absent" /\ verdict[k] = "blocking" }
           s == Judgement(r, verdict)
<1>1. Staged(r)
  BY DEF RowInv
<1>2. \A k \in Keys : verdict[k] \in { "clean", "warning", "blocking" }
  BY PipelineAssumption
<1>3. /\ s.kind = r.kind /\ s.state = r.state /\ s.exec = r.exec
      /\ s.parsed = r.parsed /\ s.dead = r.dead /\ s.lineage = r.lineage
      /\ s.rejects = r.rejects \cup blocked
      /\ s.staging = [ k \in Keys |-> IF k \in blocked THEN "rejected" ELSE "valid" ]
      /\ s.quality = r.quality \cup { verdict[k] : k \in { j \in Keys : verdict[j] # "clean" } }
      /\ s = [ r EXCEPT !.staging = s.staging, !.rejected = s.rejected,
                        !.rejects = s.rejects, !.quality = s.quality ]
      /\ s.rejected \in BOOLEAN
  BY <1>1 DEF Judgement, Row, Staged
<1> HIDE DEF s
<1>4. s \in Row
  <2>1. s.staging \in [ Keys -> StagingStatus ]
    BY <1>3 DEF StagingStatus
  <2>2. s.rejects \in SUBSET Keys
    BY <1>3 DEF Row
  <2>3. s.quality \in SUBSET { "warning", "blocking" }
    BY <1>2, <1>3 DEF Row
  <2> QED BY <1>3, <2>1, <2>2, <2>3 DEF Row
<1>5. blocked # {} => "blocking" \in s.quality
  BY <1>3
<1>6. Staged(s) /\ Judged(s)
  BY <1>3 DEF Staged, Judged
<1>7. Extends(r, s)
  BY <1>3, <1>6 DEF Extends, Accounted, Staged
<1>8. RowInv(s)
  BY <1>3, <1>5, <1>6 DEF RowInv, Completed, Accounted
<1>9. Quiet(r, s)
  BY <1>3 DEF Quiet, PhaseOf
<1> QED BY <1>3, <1>4, <1>6, <1>7, <1>8, <1>9 DEF Follows, PhaseStep, Quiet, s

\* Loading gives every valid row its lineage and skips only rejected ones.
LEMMA LoadFollows ==
  ASSUME NEW r \in Row, RowInv(r), r.kind # "none", r.state = "loading", Judged(r),
         NEW valid, valid = { k \in Keys : r.staging[k] = "valid" },
         NEW s, s = [ r EXCEPT
                        !.staging = [ k \in Keys |-> IF k \in valid THEN "loaded" ELSE @[k] ],
                        !.lineage = @ \cup valid ]
  PROVE  Follows(r, s) /\ Accounted(s)
<1>1. /\ s.kind = r.kind /\ s.state = r.state /\ s.exec = r.exec
      /\ s.parsed = r.parsed /\ s.dead = r.dead /\ s.quality = r.quality
      /\ s.rejects = r.rejects /\ s.lineage = r.lineage \cup valid
      /\ s.staging = [ k \in Keys |-> IF k \in valid THEN "loaded" ELSE r.staging[k] ]
  BY DEF Row
<1>2. s.staging \in [ Keys -> StagingStatus ]
  BY <1>1 DEF Row, StagingStatus
<1>3. s \in Row
  BY <1>1, <1>2 DEF Row
<1>4. Judged(s)
  BY <1>1 DEF Judged
<1>5. \A k \in Keys : r.staging[k] # "absent" => s.staging[k] # "absent"
  BY <1>1
<1>6. Accounted(s)
  <2> SUFFICES ASSUME NEW k \in Keys PROVE k \in s.lineage \cup s.rejects
    BY DEF Accounted
  <2>1. CASE k \in valid
    BY <1>1, <2>1
  <2>2. CASE k \notin valid
    <3>1. r.staging[k] \in { "rejected", "loaded" } \/ k \in r.rejects
      BY <2>2 DEF Judged
    <3>2. k \in r.lineage \/ k \in r.rejects
      BY <3>1 DEF RowInv
    <3> QED BY <1>1, <3>2
  <2> QED BY <2>1, <2>2
<1>7. Extends(r, s)
  BY <1>1, <1>4, <1>5, <1>6 DEF Extends
<1>8. \A k \in Keys : /\ s.staging[k] = "rejected" => k \in s.rejects
                      /\ s.staging[k] = "loaded" => k \in s.lineage
  BY <1>1 DEF RowInv
<1>9. RowInv(s)
  BY <1>1, <1>4, <1>5, <1>8 DEF RowInv, Completed, Staged
<1>10. PhaseStep(r, s)
  BY <1>1, <1>3, Phase DEF PhaseStep, Settled, Terminal
<1> QED BY <1>3, <1>6, <1>7, <1>9, <1>10 DEF Follows

\* A batch is completed only when no row was rejected, and then all are loaded.
LEMMA FinalizeFollows ==
  ASSUME NEW r \in Row, RowInv(r), r.kind # "none", r.state = "loading", Accounted(r),
         NEW s, s = [ TransitionBatch(r, Outcome(r)) EXCEPT !.event = Outcome(r) ]
  PROVE  Follows(r, s) /\ s.state = Outcome(r)
<1> DEFINE t == TransitionBatch(r, Outcome(r))
<1>1. Outcome(r) \in { "quarantined", "completed", "completed_with_warnings" }
  BY DEF Outcome
<1>2. Outcome(r) \in ProcessingState
  BY <1>1 DEF ProcessingState
<1>3. /\ t \in Row
      /\ t = [ r EXCEPT !.state = Outcome(r), !.exec = t.exec ]
      /\ t.state = Outcome(r)
      /\ t.exec \in { NoExec, Outcome(r) }
  BY <1>2, TransitionRow DEF RowInv
<1> HIDE DEF t
<1>4. /\ s.kind = r.kind /\ s.state = Outcome(r) /\ s.exec \in { NoExec, Outcome(r) }
      /\ s.staging = r.staging /\ s.parsed = r.parsed /\ s.rejects = r.rejects
      /\ s.lineage = r.lineage /\ s.dead = r.dead /\ s.quality = r.quality
  BY <1>3 DEF Row, t
<1>5. s \in Row
  BY <1>2, <1>3 DEF Row, t
<1>6. Extends(r, s)
  BY <1>4 DEF Extends, Staged, Judged, Accounted, Terminal
<1>7. r.dead = {}
  BY DEF RowInv
<1>8. Outcome(r) \in Completed => r.rejects = {}
  BY DEF Outcome, Completed, RowInv
<1>9. RowInv(s)
  BY <1>1, <1>4, <1>7, <1>8 DEF RowInv, Staged, Judged, Accounted
<1>10. PhaseStep(r, s)
  <2>1. PhaseOf(r) = "open"
    BY Phase DEF Settled, Terminal
  <2>2. CASE Outcome(r) = "quarantined"
    BY <1>4, <1>5, <2>1, <2>2, Phase DEF PhaseStep
  <2>3. CASE Outcome(r) \in Completed
    <3>1. r.lineage = Keys
      BY <1>8, <2>3 DEF Accounted, Row
    <3>2. PhaseOf(s) = "completed"
      BY <1>4, <1>5, <2>3, Phase
    <3> QED BY <1>4, <2>1, <3>1, <3>2 DEF PhaseStep
  <2> QED BY <1>1, <2>2, <2>3 DEF Completed
<1> QED BY <1>4, <1>5, <1>6, <1>9, <1>10 DEF Follows

\* Recording a failure writes the dead letter of a batch that it fails.
LEMMA FailedFollows ==
  ASSUME NEW r \in Row, RowInv(r), r.kind # "none", NEW step \in Steps
  PROVE  Follows(r, Failed(r, step))
<1> DEFINE attempt == r.failures[step] + 1
           final == attempt >= FinalAttempt
           target == IF final THEN "failed" ELSE "retry_scheduled"
           s == Failed(r, step)
<1>1. CASE r.state \in Terminal \/ ~CanTransition(r, target)
  BY <1>1, FollowsItself DEF Failed
<1>2. CASE ~(r.state \in Terminal \/ ~CanTransition(r, target))
  <2> DEFINE t == TransitionBatch(r, target)
  <2>1. target \in ProcessingState
    BY DEF ProcessingState
  <2>2. /\ t \in Row
        /\ t = [ r EXCEPT !.state = target, !.exec = t.exec ]
        /\ t.state = target
        /\ t.exec \in { NoExec, target }
    BY <2>1, TransitionRow DEF RowInv
  <2>3. s = [ t EXCEPT !.failures[step] = attempt,
                       !.dead = IF final THEN @ \cup { step } ELSE @ ]
    BY <1>2 DEF Failed
  <2>4. attempt \in Nat /\ r.failures \in [ Steps -> Nat ] /\ r.dead \in SUBSET Steps
    BY DEF Row
  <2>5. r.state \notin Terminal /\ MayMove(r.state, target)
    BY <1>2 DEF CanTransition
  <2> HIDE DEF t, s
  <2>6. /\ s.kind = r.kind /\ s.state = target /\ s.exec \in { NoExec, target }
        /\ s.staging = r.staging /\ s.parsed = r.parsed /\ s.rejects = r.rejects
        /\ s.lineage = r.lineage /\ s.quality = r.quality
        /\ s.dead = IF final THEN r.dead \cup { step } ELSE r.dead
    BY <2>2, <2>3, <2>4 DEF Row
  <2>7. s \in Row
    <3>1. s.failures = [ r.failures EXCEPT ![step] = attempt ]
      BY <2>2, <2>3, <2>4 DEF Row
    <3>2. s.failures \in [ Steps -> Nat ] /\ s.dead \in SUBSET Steps
      BY <3>1, <2>4, <2>6
    <3>3. s = [ t EXCEPT !.failures = s.failures, !.dead = s.dead ]
      BY <2>2, <2>3, <2>4 DEF Row
    <3> QED BY <2>2, <3>2, <3>3 DEF Row
  <2>8. ~final => r.dead = {}
    <3>1. r.state = "failed" => ~MayMove(r.state, "retry_scheduled")
      BY DEF MayMove, Transitions, ProcessingState
    <3> QED BY <2>5, <3>1 DEF RowInv, Terminal
  <2>9. Extends(r, s)
    BY <2>5, <2>6 DEF Extends, Staged, Judged, Accounted
  <2>10. RowInv(s)
    BY <2>6, <2>8 DEF RowInv, Staged, Judged, Accounted, Completed
  <2>11. PhaseStep(r, s)
    <3>1. CASE final
      <4>1. PhaseOf(s) = "failed"
        BY <2>6, <2>7, <3>1, Phase DEF Completed
      <4>2. PhaseOf(r) \in { "open", "quarantined", "failed" }
        BY <2>5, Phase DEF Settled, Terminal, Completed
      <4> QED BY <2>6, <4>1, <4>2 DEF PhaseStep
    <3>2. CASE ~final
      <4>1. PhaseOf(s) = "open"
        BY <2>6, <2>7, <3>2, Phase DEF Settled, Terminal
      <4>2. r.state \notin Settled
        <5>1. r.state \in { "failed", "quarantined" } => ~MayMove(r.state, "retry_scheduled")
          BY DEF MayMove, Transitions, ProcessingState
        <5> QED BY <2>5, <3>2, <5>1 DEF Settled
      <4> QED BY <2>6, <4>1, <4>2, Phase DEF PhaseStep
    <3> QED BY <3>1, <3>2
  <2> QED BY <2>7, <2>9, <2>10, <2>11 DEF Follows, s
<1> QED BY <1>1, <1>2

\* A chunk stages rows that were absent.
LEMMA ChunkFollows ==
  ASSUME NEW r \in Row, RowInv(r), r.kind # "none",
         NEW new \in SUBSET { k \in Keys : r.staging[k] = "absent" },
         NEW s, s = [ r EXCEPT !.staging =
                        [ k \in Keys |-> IF k \in new THEN "received" ELSE @[k] ] ]
  PROVE  Follows(r, s)
<1>1. /\ s.kind = r.kind /\ s.state = r.state /\ s.exec = r.exec
      /\ s.parsed = r.parsed /\ s.dead = r.dead /\ s.quality = r.quality
      /\ s.rejects = r.rejects /\ s.lineage = r.lineage
      /\ s.staging = [ k \in Keys |-> IF k \in new THEN "received" ELSE r.staging[k] ]
  BY DEF Row
<1>2. s.staging \in [ Keys -> StagingStatus ]
  BY <1>1 DEF Row, StagingStatus
<1>3. s \in Row
  BY <1>1, <1>2 DEF Row
<1>4. /\ \A k \in Keys : r.staging[k] # "absent" => s.staging[k] # "absent"
      /\ Judged(r) => Judged(s)
  BY <1>1 DEF Judged
<1>5. Extends(r, s)
  BY <1>1, <1>4 DEF Extends, Accounted
<1>6. RowInv(s)
  BY <1>1, <1>4 DEF RowInv, Accounted, Staged
<1>7. Quiet(r, s)
  BY <1>1 DEF Quiet, PhaseOf
<1> QED BY <1>3, <1>5, <1>6, <1>7 DEF Follows, PhaseStep, Quiet

\* A correction takes a rejected row back to staging without forgetting it.
LEMMA CorrectionFollows ==
  ASSUME NEW r \in Row, RowInv(r), r.kind # "none", NEW k \in r.rejects,
         NEW s, s = [ r EXCEPT !.staging[k] = "received" ]
  PROVE  Follows(r, s)
<1>1. /\ s.kind = r.kind /\ s.state = r.state /\ s.exec = r.exec
      /\ s.parsed = r.parsed /\ s.dead = r.dead /\ s.quality = r.quality
      /\ s.rejects = r.rejects /\ s.lineage = r.lineage
      /\ s.staging = [ r.staging EXCEPT ![k] = "received" ]
  BY DEF Row
<1>2. k \in Keys
  BY DEF Row
<1>3. s.staging \in [ Keys -> StagingStatus ]
  BY <1>1 DEF Row, StagingStatus
<1>4. s \in Row
  BY <1>1, <1>3 DEF Row
<1>5. /\ \A j \in Keys : r.staging[j] # "absent" => s.staging[j] # "absent"
      /\ Judged(r) => Judged(s)
  BY <1>1, <1>2 DEF Judged, Row
<1>6. Extends(r, s)
  BY <1>1, <1>5 DEF Extends, Accounted
<1>7. RowInv(s)
  BY <1>1, <1>5 DEF RowInv, Accounted, Row, Staged
<1>8. Quiet(r, s)
  BY <1>1 DEF Quiet, PhaseOf
<1> QED BY <1>4, <1>6, <1>7, <1>8 DEF Follows, PhaseStep, Quiet

(***************************************************************************)
(* From rows to states.                                                    *)
(***************************************************************************)

\* A step commits rows of at most one batch.
RowsStep ==
    \/ UNCHANGED db
    \/ \E b \in Batches : \E s \in Row : Follows(db[b], s) /\ Commit(b, s)

LEMMA CommitRows ==
  ASSUME NEW b \in Batches, NEW s, Follows(db[b], s), Commit(b, s)
  PROVE  RowsStep
  BY DEF RowsStep, Follows

\* What every batch keeps across such a step.
LEMMA RowsKept ==
  ASSUME IInv, RowsStep
  PROVE  /\ db' \in [ Batches -> Row ]
         /\ \A c \in Batches : RowInv(db'[c]) /\ Extends(db[c], db'[c])
<1>1. db \in [ Batches -> Row ] /\ \A c \in Batches : RowInv(db[c])
  BY DEF IInv, TypeOK
<1>2. CASE UNCHANGED db
  BY <1>1, <1>2, FollowsItself DEF Follows
<1>3. ASSUME NEW b \in Batches, NEW s \in Row, Follows(db[b], s), Commit(b, s)
      PROVE  /\ db' \in [ Batches -> Row ]
             /\ \A c \in Batches : RowInv(db'[c]) /\ Extends(db[c], db'[c])
  <2>1. db' = [ db EXCEPT ![b] = s ]
    BY <1>3 DEF Commit
  <2>2. \A c \in Batches : db'[c] = IF c = b THEN s ELSE db[c]
    BY <1>1, <2>1
  <2>3. \A c \in Batches : c # b => Extends(db[c], db[c])
    BY <1>1, FollowsItself DEF Follows
  <2> QED BY <1>1, <1>3, <2>1, <2>2, <2>3 DEF Follows
<1> QED BY <1>2, <1>3 DEF RowsStep

LEMMA MessageType ==
  ASSUME NEW m \in Message
  PROVE  m.batch \in Batches /\ m.step \in Steps /\ m.retries \in 0 .. MaxRetries
  BY DEF Message

\* What a message relies on stays.
LEMMA DueStays ==
  ASSUME NEW r, NEW s, Extends(r, s), NEW step, Due(r, step)
  PROVE  Due(s, step)
  BY DEF Due, Reached, Extends

\* A task stays in order while other steps commit.
LEMMA TaskStays ==
  ASSUME NEW r, NEW s, Extends(r, s), NEW task \in Task, TaskInv(r, task)
  PROVE  TaskInv(s, task)
<1> DEFINE m == task.msg
<1>1. Due(s, m.step)
  BY DueStays DEF TaskInv
<1>2. task.pc = "send" /\ m.step # "finalize" => Reached(s, FollowingStep[m.step])
  BY DEF TaskInv, Reached, Extends
<1>3. ASSUME task.pc = "stream", NEW i \in 1 .. task.cursor
      PROVE  s.staging[File[i]] # "absent"
  <2>1. task.cursor <= Len(File) /\ r.staging[File[i]] # "absent"
    BY <1>3 DEF TaskInv
  <2>2. File \in Seq(Keys) /\ task.cursor \in Nat
    BY PipelineAssumption DEF Task
  <2>3. i \in 1 .. Len(File)
    BY <2>1, <2>2
  <2>4. File[i] \in Keys
    BY <2>2, <2>3
  <2> QED BY <2>1, <2>4 DEF Extends
<1> QED BY <1>1, <1>2, <1>3 DEF TaskInv

\* What a step must show for IInv to hold after it.
LEMMA Preserved ==
  ASSUME IInv, RowsStep,
         objects' \subseteq Batches, queue' \in [ Message -> Nat ],
         worker' \in [ Workers -> Task ], outgoing' \subseteq Message,
         cancelling' \subseteq Batches, notices' \subseteq Batches \X { "outbox", "analytics" },
         faults' \in 0 .. MaxFaults, crashes' \in 0 .. MaxCrashes,
         duplicates' \in 0 .. MaxDuplicates,
         \A w \in Workers : \/ worker'[w] = worker[w]
                            \/ worker'[w].pc = "idle"
                            \/ TaskInv(db'[worker'[w].msg.batch], worker'[w]),
         \A m \in Message : queue'[m] > 0 \/ m \in outgoing' =>
             \/ queue[m] > 0 \/ m \in outgoing
             \/ Due(db[m.batch], m.step) \/ Due(db'[m.batch], m.step),
         \A b \in cancelling' : b \in cancelling \/ db[b].kind # "none",
         \A b \in Batches : << b, "analytics" >> \in notices' =>
             << b, "analytics" >> \in notices \/ db'[b].state \in Completed
  PROVE  IInv'
<1>1. db' \in [ Batches -> Row ] /\ \A c \in Batches : RowInv(db'[c]) /\ Extends(db[c], db'[c])
  BY RowsKept
<1>2. TypeOK'
  BY <1>1 DEF TypeOK
<1>3. ASSUME NEW w \in Workers, worker'[w].pc # "idle"
      PROVE  TaskInv(db'[worker'[w].msg.batch], worker'[w])
  <2>1. CASE worker'[w] = worker[w]
    <3>1. worker[w] \in Task /\ TaskInv(db[worker[w].msg.batch], worker[w])
      BY <1>3, <2>1 DEF IInv, TypeOK
    <3>2. worker[w].msg.batch \in Batches
      BY <3>1, MessageType DEF TaskInv
    <3>3. Extends(db[worker[w].msg.batch], db'[worker[w].msg.batch])
      BY <1>1, <3>2
    <3> QED BY <2>1, <3>1, <3>3, TaskStays
  <2> QED BY <1>3, <2>1
<1>4. ASSUME NEW m \in Message, queue'[m] > 0 \/ m \in outgoing'
      PROVE  Due(db'[m.batch], m.step)
  <2>1. Due(db[m.batch], m.step) \/ Due(db'[m.batch], m.step)
    BY <1>4 DEF IInv
  <2>2. Extends(db[m.batch], db'[m.batch])
    BY <1>1, MessageType
  <2> QED BY <2>1, <2>2, DueStays
<1>5. ASSUME NEW b \in cancelling' PROVE db'[b].kind # "none"
  <2>1. db[b].kind # "none"
    BY <1>5 DEF IInv
  <2> QED BY <1>1, <2>1 DEF Extends
<1>6. ASSUME NEW b \in Batches, << b, "analytics" >> \in notices'
      PROVE  db'[b].state \in Completed
  <2>1. CASE << b, "analytics" >> \in notices
    <3>1. db[b].state \in Completed /\ RowInv(db[b])
      BY <2>1 DEF IInv, AnalyticsOnlyForCompleted
    <3>2. db[b].kind # "none"
      BY <3>1 DEF RowInv, EmptyRow, Completed
    <3> QED BY <1>1, <3>1, <3>2 DEF Extends, Terminal, Completed
  <2> QED BY <1>6, <2>1
<1>7. \A b \in Batches : RowInv(db'[b])
  BY <1>1
<1> QED BY <1>2, <1>3, <1>4, <1>5, <1>6, <1>7 DEF IInv, AnalyticsOnlyForCompleted

(***************************************************************************)
(* Worker steps.                                                           *)
(***************************************************************************)

\* A worker that holds a message or sends the following one, and a delivery.
LEMMA BusyTask ==
  ASSUME NEW m \in Message, NEW pc \in { "idle", "extract", "stream", "send", "failed" }
  PROVE  /\ Busy(pc, m) \in Task
         /\ Busy(pc, m).pc = pc /\ Busy(pc, m).msg = m /\ Busy(pc, m).cursor = 0
  BY DEF Busy, Task

LEMMA IdleTask == Idle \in Task /\ Idle.pc = "idle"
  BY DEF Idle, Task

\* What holds of a message that is delivered, and of the rows it finds.
LEMMA Delivered ==
  ASSUME IInv, NEW w \in Workers, NEW m \in Message, NEW step, Deliver(w, m, step)
  PROVE  /\ m.batch \in Batches /\ m.step = step
         /\ db[m.batch] \in Row /\ RowInv(db[m.batch]) /\ Due(db[m.batch], step)
  BY MessageType DEF IInv, TypeOK, Deliver

\* A delivery that leaves the worker idle, or busy in order, keeps IInv.
LEMMA DeliverStep ==
  ASSUME IInv, NEW w \in Workers, NEW m \in Message, NEW step, Deliver(w, m, step), RowsStep,
         \/ UNCHANGED worker
         \/ \E t \in Task : Become(w, t) /\ t.msg = m /\ TaskInv(db'[m.batch], t)
  PROVE  IInv'
<1>1. TypeOK
  BY DEF IInv
<1>2. queue' \in [ Message -> Nat ] /\ \A n \in Message : queue'[n] > 0 => queue[n] > 0
  BY <1>1 DEF Deliver, TypeOK
<1>3. worker' \in [ Workers -> Task ]
  BY <1>1 DEF TypeOK, Become
<1>4. \A v \in Workers : \/ worker'[v] = worker[v]
                         \/ TaskInv(db'[worker'[v].msg.batch], worker'[v])
  BY <1>1 DEF TypeOK, Become
<1>5. UNCHANGED << objects, outgoing, cancelling, notices, faults, crashes, duplicates >>
  BY DEF Deliver, WorkerUnchanged, budgets
<1> QED BY <1>1, <1>2, <1>3, <1>4, <1>5, Preserved DEF TypeOK

\* The three ways in which a delivery ends without a commit of its own.
LEMMA IgnoreStep ==
  ASSUME IInv, NEW w \in Workers, NEW m \in Message, NEW step, Deliver(w, m, step), Ignore
  PROVE  RowsStep /\ IInv'
<1>1. RowsStep /\ UNCHANGED worker
  BY DEF Ignore, RowsStep
<1> QED BY <1>1, DeliverStep

LEMMA RaiseStep ==
  ASSUME IInv, NEW w \in Workers, NEW m \in Message, NEW step, Deliver(w, m, step), Raise(w, m)
  PROVE  RowsStep /\ IInv'
<1>1. RowsStep /\ UNCHANGED db
  BY DEF Raise, RowsStep
<1>2. Due(db[m.batch], m.step)
  BY Delivered
<1>3. TaskInv(db'[m.batch], Busy("failed", m))
  BY <1>1, <1>2, BusyTask DEF TaskInv
<1> QED BY <1>1, <1>3, BusyTask, DeliverStep DEF Raise

LEMMA CancelledStep ==
  ASSUME IInv, NEW w \in Workers, NEW m \in Message, NEW step, Deliver(w, m, step),
         db[m.batch].state \notin Terminal, CommitCancelled(m.batch, db[m.batch])
  PROVE  RowsStep /\ IInv'
<1> DEFINE r == db[m.batch]
<1>1. m.batch \in Batches /\ r \in Row /\ RowInv(r) /\ r.kind # "none"
  BY Delivered DEF Due
<1>2. MayMove(r.state, "cancelled")
  <2>1. r.state \in ProcessingState
    BY <1>1 DEF Row
  <2> QED BY <2>1 DEF MayMove, Transitions, ProcessingState, Terminal, Interruptible
<1>3. "cancelled" \in ProcessingState \ (Completed \cup { "failed", "queued" })
  BY DEF ProcessingState, Completed
<1>4. Follows(r, TransitionBatch(r, "cancelled"))
  BY <1>1, <1>2, <1>3, TransitionFollows
<1>5. RowsStep /\ UNCHANGED worker
  BY <1>1, <1>4, CommitRows DEF CommitCancelled
<1> QED BY <1>5, DeliverStep

\* The way in which it ends with one: the next message is due.
LEMMA CommitAndSendStep ==
  ASSUME IInv, NEW w \in Workers, NEW m \in Message, NEW step, Deliver(w, m, step),
         NEW s, Follows(db[m.batch], s), CommitAndSend(w, m, s),
         step # "finalize" => Reached(s, FollowingStep[step])
  PROVE  RowsStep /\ IInv'
<1>1. /\ m.batch \in Batches /\ m.step = step /\ Due(db[m.batch], step)
      /\ db \in [ Batches -> Row ]
  BY Delivered DEF IInv, TypeOK
<1>2. RowsStep
  BY <1>1, CommitRows DEF CommitAndSend
<1>3. db'[m.batch] = s
  BY <1>1 DEF CommitAndSend, Commit
<1>4. Due(s, step)
  BY <1>1, DueStays DEF Follows
<1>5. TaskInv(s, Busy("send", m))
  BY <1>1, <1>4, BusyTask DEF TaskInv
<1> QED BY <1>2, <1>3, <1>5, BusyTask, DeliverStep DEF CommitAndSend

LEMMA AcquireStep ==
  ASSUME IInv, NEW w \in Workers, NEW m \in Message, Acquire(w, m)
  PROVE  RowsStep /\ IInv'
<1> DEFINE r == db[m.batch]
           c == TransitionBatch(r, "connecting")
           e == TransitionBatch(c, "extracting")
<1>1. Deliver(w, m, "acquire")
  BY DEF Acquire
<1>2. /\ m.batch \in Batches /\ m.step = "acquire" /\ r \in Row /\ RowInv(r)
      /\ Due(r, "acquire") /\ r.kind # "none"
  BY <1>1, Delivered DEF Due
<1>3. CASE Ignore
  BY <1>1, <1>3, IgnoreStep
<1>4. CASE r.state \notin Terminal /\ CommitCancelled(m.batch, r)
  BY <1>1, <1>4, CancelledStep
<1>5. CASE /\ r.state \in { "retry_scheduled", "queued" }
           /\ Commit(m.batch, e) /\ Become(w, Busy("extract", m))
  <2>1. MayMove(r.state, "connecting")
    BY <1>5 DEF MayMove, Transitions, ProcessingState
  <2>2. /\ { "connecting", "extracting" } \subseteq ProcessingState
        /\ { "connecting", "extracting" } \cap (Completed \cup { "failed", "queued" }) = {}
        /\ "connecting" \notin Settled /\ "extracting" \notin Settled /\ r.state \notin Settled
    BY <1>5 DEF ProcessingState, Completed, Settled, Terminal
  <2>3. Follows(r, c) /\ Quiet(r, c) /\ c.state = "connecting"
    BY <1>2, <2>1, <2>2, TransitionFollows, TransitionRow
  <2>4. MayMove(c.state, "extracting")
    BY <2>3 DEF MayMove, Transitions, ProcessingState
  <2>5. c \in Row /\ RowInv(c) /\ c.kind # "none"
    BY <1>2, <2>3 DEF Follows, Extends
  <2>6. Follows(c, e)
    BY <2>2, <2>4, <2>5, TransitionFollows
  <2>7. Follows(r, e)
    BY <1>2, <2>3, <2>6, FollowsTwice
  <2>8. RowsStep
    BY <1>2, <1>5, <2>7, CommitRows
  <2>9. db'[m.batch] = e
    BY <1>2, <1>5 DEF Commit, IInv, TypeOK
  <2>10. TaskInv(e, Busy("extract", m))
    BY <1>2, <2>7, BusyTask, DueStays DEF TaskInv, Follows
  <2> QED BY <1>1, <1>5, <2>8, <2>9, <2>10, BusyTask, DeliverStep
<1> QED BY <1>3, <1>4, <1>5 DEF Acquire

LEMMA ParseStep ==
  ASSUME IInv, NEW w \in Workers, NEW m \in Message, Parse(w, m)
  PROVE  RowsStep /\ IInv'
<1> DEFINE r == db[m.batch]
           s == TransitionBatch(r, "received")
           pc == IF r.file \in objects THEN "stream" ELSE "failed"
<1>1. Deliver(w, m, "parse")
  BY DEF Parse
<1>2. /\ m.batch \in Batches /\ m.step = "parse" /\ r \in Row /\ RowInv(r)
      /\ Due(r, "parse") /\ r.kind # "none"
  BY <1>1, Delivered DEF Due
<1>3. CASE Ignore
  BY <1>1, <1>3, IgnoreStep
<1>4. CASE r.state \notin Terminal /\ CommitCancelled(m.batch, r)
  BY <1>1, <1>4, CancelledStep
<1>5. CASE Raise(w, m)
  BY <1>1, <1>5, RaiseStep
<1>6. CASE /\ r.state \in { "retry_scheduled", "queued", "received" }
           /\ Commit(m.batch, s) /\ Become(w, Busy(pc, m))
  <2>1. MayMove(r.state, "received")
    BY <1>6 DEF MayMove, Transitions, ProcessingState
  <2>2. "received" \in ProcessingState \ (Completed \cup { "failed", "queued" })
    BY DEF ProcessingState, Completed
  <2>3. Follows(r, s)
    BY <1>2, <2>1, <2>2, TransitionFollows
  <2>4. RowsStep
    BY <1>2, <1>6, <2>3, CommitRows
  <2>5. db'[m.batch] = s
    BY <1>2, <1>6 DEF Commit, IInv, TypeOK
  <2>6. TaskInv(s, Busy(pc, m))
    <3>1. Due(s, "parse")
      BY <1>2, <2>3, DueStays DEF Follows
    <3>2. Len(File) \in Nat
      BY PipelineAssumption
    <3> QED BY <1>2, <3>1, <3>2, BusyTask DEF TaskInv
  <2> QED BY <1>1, <1>6, <2>4, <2>5, <2>6, BusyTask, DeliverStep
<1> QED BY <1>3, <1>4, <1>5, <1>6 DEF Parse

LEMMA ValidateStep ==
  ASSUME IInv, NEW w \in Workers, NEW m \in Message, Validate(w, m)
  PROVE  RowsStep /\ IInv'
<1> DEFINE r == db[m.batch]
           q == Resume(r, "validating")
           t == TransitionBatch(q, "mapping")
<1>1. Deliver(w, m, "validate")
  BY DEF Validate
<1>2. /\ m.batch \in Batches /\ m.step = "validate" /\ r \in Row /\ RowInv(r)
      /\ r.kind # "none" /\ r.parsed
  BY <1>1, Delivered DEF Due, Reached
<1>3. CASE Ignore
  BY <1>1, <1>3, IgnoreStep
<1>4. CASE r.state \notin Terminal /\ CommitCancelled(m.batch, r)
  BY <1>1, <1>4, CancelledStep
<1>5. CASE Raise(w, m)
  BY <1>1, <1>5, RaiseStep
<1>6. ASSUME ReadyFor(r, "validating"), NEW verdict \in [ Keys -> Verdicts ],
             CommitAndSend(w, m, Judgement(t, verdict))
      PROVE  RowsStep /\ IInv'
  <2> DEFINE s == Judgement(t, verdict)
  <2>1. Follows(r, q) /\ Quiet(r, q) /\ q.state = "validating"
    BY <1>2, <1>6, ResumeFollows
  <2>2. q \in Row /\ RowInv(q) /\ q.kind # "none" /\ q.parsed
    BY <1>2, <2>1 DEF Follows, Extends
  <2>3. Follows(q, t) /\ Quiet(q, t) /\ t.state = "mapping"
    BY <2>1, <2>2, AdvanceFollows
  <2>4. t \in Row /\ RowInv(t) /\ t.kind # "none" /\ t.parsed
    BY <2>2, <2>3 DEF Follows, Extends
  <2>5. Follows(t, s) /\ Judged(s) /\ s.parsed
    BY <2>3, <2>4, JudgementFollows
  <2> HIDE DEF s
  <2>6. Follows(r, t) /\ Quiet(r, t)
    BY <1>2, <2>1, <2>3, FollowsTwice
  <2>7. Follows(r, s)
    BY <1>2, <2>5, <2>6, FollowsTwice
  <2>8. Reached(s, FollowingStep["validate"])
    BY <2>5 DEF Reached, FollowingStep
  <2> QED BY <1>1, <1>6, <2>7, <2>8, CommitAndSendStep DEF s
<1> QED BY <1>3, <1>4, <1>5, <1>6 DEF Validate

LEMMA MapStep ==
  ASSUME IInv, NEW w \in Workers, NEW m \in Message, Map(w, m) \/ Normalize(w, m)
  PROVE  RowsStep /\ IInv'
<1> SUFFICES ASSUME NEW step \in { "map", "normalize" },
                    NEW state \in { "mapping", "normalizing" },
                    NEW target \in { "normalizing", "loading" },
                    step = "map" => state = "mapping" /\ target = "normalizing",
                    step = "normalize" => state = "normalizing" /\ target = "loading",
                    MapOrNormalize(w, m, step, state, target)
             PROVE  RowsStep /\ IInv'
  BY DEF Map, Normalize
<1> DEFINE r == db[m.batch]
           q == Resume(r, state)
           s == TransitionBatch(q, target)
<1>1. Deliver(w, m, step)
  BY DEF MapOrNormalize
<1>2. /\ m.batch \in Batches /\ r \in Row /\ RowInv(r) /\ r.kind # "none"
      /\ r.parsed /\ Judged(r)
  BY <1>1, Delivered DEF Due, Reached
<1>3. CASE Ignore
  BY <1>1, <1>3, IgnoreStep
<1>4. CASE ReadyFor(r, state) /\ CommitAndSend(w, m, s)
  <2>1. Follows(r, q) /\ Quiet(r, q) /\ q.state = state
    BY <1>2, <1>4, ResumeFollows
  <2>2. q \in Row /\ RowInv(q) /\ q.kind # "none" /\ q.parsed /\ Judged(q)
    BY <1>2, <2>1 DEF Follows, Extends
  <2>3. Follows(q, s)
    BY <2>1, <2>2, AdvanceFollows
  <2>4. Follows(r, s)
    BY <1>2, <2>1, <2>3, FollowsTwice
  <2>5. s.parsed /\ Judged(s)
    BY <2>2, <2>3 DEF Follows, Extends
  <2>6. Reached(s, FollowingStep[step])
    BY <2>5 DEF Reached, FollowingStep
  <2> QED BY <1>1, <1>4, <2>4, <2>6, CommitAndSendStep
<1> QED BY <1>3, <1>4 DEF MapOrNormalize

LEMMA LoadStep ==
  ASSUME IInv, NEW w \in Workers, NEW m \in Message, Load(w, m)
  PROVE  RowsStep /\ IInv'
<1> DEFINE r == db[m.batch]
           q == Resume(r, "loading")
           valid == { k \in Keys : r.staging[k] = "valid" }
           s == [ q EXCEPT !.staging = [ k \in Keys |-> IF k \in valid THEN "loaded" ELSE @[k] ],
                           !.lineage = @ \cup valid ]
<1>1. Deliver(w, m, "load")
  BY DEF Load
<1>2. /\ m.batch \in Batches /\ r \in Row /\ RowInv(r) /\ r.kind # "none"
      /\ r.parsed /\ Judged(r)
  BY <1>1, Delivered DEF Due, Reached
<1>3. CASE Ignore
  BY <1>1, <1>3, IgnoreStep
<1>4. CASE ReadyFor(r, "loading") /\ CommitCancelled(m.batch, r)
  BY <1>1, <1>4, CancelledStep DEF ReadyFor, Terminal
<1>5. CASE Raise(w, m)
  BY <1>1, <1>5, RaiseStep
<1>6. CASE ReadyFor(r, "loading") /\ CommitAndSend(w, m, s)
  <2>1. Follows(r, q) /\ Quiet(r, q) /\ q.state = "loading"
    BY <1>2, <1>6, ResumeFollows
  <2>2. q \in Row /\ RowInv(q) /\ q.kind # "none" /\ q.parsed /\ Judged(q)
    BY <1>2, <2>1 DEF Follows, Extends
  <2>3. q.staging = r.staging
    BY <1>2 DEF Resume, TransitionBatch, Row
  <2>4. valid = { k \in Keys : q.staging[k] = "valid" }
    BY <2>3
  <2>5. Follows(q, s) /\ Accounted(s)
    BY <2>1, <2>2, <2>4, LoadFollows
  <2> HIDE DEF s
  <2>6. Follows(r, s)
    BY <1>2, <2>1, <2>5, FollowsTwice
  <2>7. s.parsed /\ Judged(s)
    BY <2>2, <2>5 DEF Follows, Extends
  <2>8. Reached(s, FollowingStep["load"])
    BY <2>5, <2>7 DEF Reached, FollowingStep
  <2> QED BY <1>1, <1>6, <2>6, <2>8, CommitAndSendStep DEF s
<1> QED BY <1>3, <1>4, <1>5, <1>6 DEF Load

LEMMA FinalizeStep ==
  ASSUME IInv, NEW w \in Workers, NEW m \in Message, Finalize(w, m)
  PROVE  RowsStep /\ IInv'
<1> DEFINE r == db[m.batch]
           s == [ TransitionBatch(r, Outcome(r)) EXCEPT !.event = Outcome(r) ]
<1>1. Deliver(w, m, "finalize")
  BY DEF Finalize
<1>2. /\ m.batch \in Batches /\ r \in Row /\ RowInv(r) /\ r.kind # "none"
      /\ Accounted(r)
  BY <1>1, Delivered DEF Due, Reached
<1>3. CASE Ignore
  BY <1>1, <1>3, IgnoreStep
<1>4. CASE r.state = "loading" /\ CommitAndSend(w, m, s)
  <2>1. Follows(r, s)
    BY <1>2, <1>4, FinalizeFollows
  <2> QED BY <1>1, <1>4, <2>1, CommitAndSendStep
<1> QED BY <1>3, <1>4 DEF Finalize

\* What holds of a busy worker, and of the rows of its batch.
LEMMA Working ==
  ASSUME IInv, NEW w \in Workers, worker[w].pc # "idle"
  PROVE  LET m == worker[w].msg
             r == db[m.batch]
         IN  /\ worker[w] \in Task /\ TaskInv(r, worker[w])
             /\ m \in Message /\ m.batch \in Batches
             /\ r \in Row /\ RowInv(r) /\ r.kind # "none" /\ Due(r, m.step)
  BY MessageType DEF IInv, TypeOK, TaskInv, Due

\* A busy worker that goes on, or becomes idle, keeps IInv.
LEMMA WorkStep ==
  ASSUME IInv, RowsStep, NEW w \in Workers, worker[w].pc # "idle",
         NEW t \in Task, Become(w, t),
         t.pc = "idle" \/ (t.msg = worker[w].msg /\ TaskInv(db'[t.msg.batch], t)),
         objects' \subseteq Batches, queue' \in [ Message -> Nat ],
         \A m \in Message : queue'[m] > 0 =>
             queue[m] > 0 \/ Due(db[m.batch], m.step) \/ Due(db'[m.batch], m.step),
         UNCHANGED << outgoing, cancelling >>,
         faults' \in 0 .. MaxFaults, crashes' \in 0 .. MaxCrashes,
         duplicates' \in 0 .. MaxDuplicates,
         notices' \subseteq Batches \X { "outbox", "analytics" },
         \A b \in Batches : << b, "analytics" >> \in notices' =>
             << b, "analytics" >> \in notices \/ db'[b].state \in Completed
  PROVE  IInv'
<1>1. TypeOK
  BY DEF IInv
<1>2. worker' \in [ Workers -> Task ]
  BY <1>1 DEF TypeOK, Become
<1>3. \A v \in Workers : \/ worker'[v] = worker[v]
                         \/ worker'[v].pc = "idle"
                         \/ TaskInv(db'[worker'[v].msg.batch], worker'[v])
  BY <1>1 DEF TypeOK, Become
<1> QED BY <1>1, <1>2, <1>3, Preserved DEF TypeOK

\* An exception in the middle of a step, whose transaction commits nothing.
LEMMA RaiseMidwayStep ==
  ASSUME IInv, NEW w \in Workers, worker[w].pc # "idle", Raise(w, worker[w].msg),
         objects' \subseteq Batches, UNCHANGED queue, WorkerUnchanged
  PROVE  RowsStep /\ IInv'
<1> DEFINE m == worker[w].msg
<1>1. RowsStep /\ UNCHANGED db
  BY DEF Raise, RowsStep
<1>2. m \in Message /\ Due(db[m.batch], m.step)
  BY Working
<1>3. TaskInv(db'[m.batch], Busy("failed", m))
  BY <1>1, <1>2, BusyTask DEF TaskInv
<1>4. TypeOK
  BY DEF IInv
<1> QED BY <1>1, <1>2, <1>3, <1>4, BusyTask, WorkStep
        DEF Raise, TypeOK, WorkerUnchanged, budgets

\* The last commit of a step that took several transactions.
LEMMA CommitMidwayStep ==
  ASSUME IInv, NEW w \in Workers, worker[w].pc # "idle",
         NEW s, Follows(db[worker[w].msg.batch], s), CommitAndSend(w, worker[w].msg, s),
         worker[w].msg.step # "finalize" => Reached(s, FollowingStep[worker[w].msg.step]),
         objects' \subseteq Batches, UNCHANGED queue, WorkerUnchanged
  PROVE  RowsStep /\ IInv'
<1> DEFINE m == worker[w].msg
<1>1. m \in Message /\ m.batch \in Batches /\ Due(db[m.batch], m.step)
  BY Working
<1>2. TypeOK
  BY DEF IInv
<1>3. RowsStep
  BY <1>1, CommitRows DEF CommitAndSend
<1>4. db'[m.batch] = s
  BY <1>1, <1>2 DEF CommitAndSend, Commit, TypeOK
<1>5. Due(s, m.step)
  BY <1>1, DueStays DEF Follows
<1>6. TaskInv(s, Busy("send", m))
  BY <1>1, <1>5, BusyTask DEF TaskInv
<1> QED BY <1>1, <1>2, <1>3, <1>4, <1>6, BusyTask, WorkStep
        DEF CommitAndSend, TypeOK, WorkerUnchanged, budgets

LEMMA LandStep ==
  ASSUME IInv, NEW w \in Workers, Land(w)
  PROVE  RowsStep /\ IInv'
<1> DEFINE m == worker[w].msg
           r == db[m.batch]
           t == TransitionBatch(r, "received")
           landed == { b \in Batches : db[b].kind = "sync" /\ db[b].file = b }
<1>1. worker[w].pc # "idle" /\ worker[w].pc = "extract" /\ UNCHANGED queue /\ WorkerUnchanged
  BY DEF Land
<1>2. /\ m \in Message /\ m.batch \in Batches /\ r \in Row /\ RowInv(r)
      /\ r.kind # "none" /\ m.step = "acquire"
  BY <1>1, Working DEF TaskInv
<1>3. objects \subseteq Batches
  BY DEF IInv, TypeOK
<1>4. CASE Raise(w, m) /\ objects' \in { objects, objects \cup { m.batch } }
  BY <1>1, <1>2, <1>3, <1>4, RaiseMidwayStep
<1>5. ASSUME CanTransition(r, "received"), NEW f \in landed \cup { m.batch },
             CommitAndSend(w, m, [ t EXCEPT !.file = f ]), objects' = objects \cup { f }
      PROVE  RowsStep /\ IInv'
  <2> DEFINE s == [ t EXCEPT !.file = f ]
  <2>1. "received" \in ProcessingState \ (Completed \cup { "failed", "queued" })
    BY DEF ProcessingState, Completed
  <2>2. Follows(r, t)
    BY <1>2, <1>5, <2>1, TransitionFollows DEF CanTransition
  <2>3. f \in Batches
    BY <1>2, <1>5
  <2>4. t \in Row /\ RowInv(t) /\ t.kind # "none"
    BY <1>2, <2>2 DEF Follows, Extends
  <2> HIDE DEF t
  <2>5. /\ s \in Row /\ s.kind = t.kind /\ s.state = t.state /\ s.exec = t.exec
        /\ s.staging = t.staging /\ s.parsed = t.parsed /\ s.rejects = t.rejects
        /\ s.quality = t.quality /\ s.dead = t.dead /\ s.lineage = t.lineage
    BY <2>3, <2>4 DEF Row
  <2>6. Follows(t, s) /\ Quiet(t, s)
    BY <2>4, <2>5, MarkFollows
  <2>7. Follows(r, s)
    BY <1>2, <2>2, <2>6, FollowsQuietly
  <2>8. Reached(s, FollowingStep["acquire"])
    BY DEF Reached, FollowingStep
  <2>9. objects' \subseteq Batches
    BY <1>3, <1>5, <2>3
  <2> QED BY <1>1, <1>2, <1>5, <2>7, <2>8, <2>9, CommitMidwayStep DEF t
<1> QED BY <1>4, <1>5 DEF Land

\* The rows of a file are finitely many.
LEMMA KeysFinite == IsFiniteSet(Keys)
<1> DEFINE row == [ i \in 1 .. Len(File) |-> File[i] ]
<1>1. File \in Seq(Keys) /\ Len(File) \in Nat
  BY PipelineAssumption
<1>2. IsFiniteSet(1 .. Len(File))
  BY <1>1, FS_Interval
<1>3. row \in Surjection(1 .. Len(File), Keys)
  BY <1>1, PipelineAssumption DEF Surjection
<1> QED BY <1>2, <1>3, FS_Surjection

LEMMA InsertStagingChunkStep ==
  ASSUME IInv, NEW w \in Workers, InsertStagingChunk(w)
  PROVE  RowsStep /\ IInv'
<1> DEFINE m == worker[w].msg
           r == db[m.batch]
           from == worker[w].cursor
           to == IF from + Chunk < Len(File) THEN from + Chunk ELSE Len(File)
           new == { k \in Keys : /\ r.staging[k] = "absent"
                                /\ \E i \in from + 1 .. to : File[i] = k }
           s == [ r EXCEPT !.staging = [ k \in Keys |-> IF k \in new THEN "received" ELSE @[k] ] ]
           t == [ worker[w] EXCEPT !.cursor = to, !.inserted = @ + Cardinality(new) ]
<1>1. /\ worker[w].pc # "idle" /\ worker[w].pc = "stream" /\ from < Len(File)
      /\ Commit(m.batch, s) /\ Become(w, t) /\ UNCHANGED << objects, queue >>
      /\ WorkerUnchanged
  BY DEF InsertStagingChunk
<1>2. /\ worker[w] \in Task /\ TaskInv(r, worker[w]) /\ m \in Message
      /\ m.batch \in Batches /\ r \in Row /\ RowInv(r) /\ r.kind # "none"
  BY <1>1, Working
<1>3. /\ File \in Seq(Keys) /\ Len(File) \in Nat /\ Chunk \in Nat /\ from \in Nat
      /\ worker[w].inserted \in Nat
  BY <1>2, PipelineAssumption DEF Task
<1>4. to \in Nat /\ to <= Len(File)
  BY <1>3
<1>5. new \in SUBSET { k \in Keys : r.staging[k] = "absent" }
  OBVIOUS
<1>6. Cardinality(new) \in Nat
  BY KeysFinite, FS_Subset, FS_CardinalityType
<1> HIDE DEF to
<1>7. Follows(r, s)
  <2> HIDE DEF new
  <2> QED BY <1>2, <1>5, ChunkFollows
<1>8. RowsStep
  BY <1>1, <1>2, <1>7, CommitRows
<1>9. db'[m.batch] = s
  BY <1>1, <1>2 DEF Commit, IInv, TypeOK
<1>10. /\ t \in Task /\ t.pc = "stream" /\ t.msg = m /\ t.cursor = to
  <2> HIDE DEF new
  <2> DEFINE q == worker[w]
             n == q.inserted + Cardinality(new)
  <2>1. q \in Task /\ q.pc = "stream" /\ n \in Nat
    BY <1>1, <1>2, <1>3, <1>6
  <2>2. t = [ q EXCEPT !.cursor = to, !.inserted = n ]
    OBVIOUS
  <2> HIDE DEF q, n, t
  <2>3. t \in Task /\ t.pc = "stream" /\ t.msg = q.msg /\ t.cursor = to
    BY <1>4, <2>1, <2>2 DEF Task
  <2> QED BY <2>3 DEF q
<1>11. ASSUME NEW i \in 1 .. to PROVE s.staging[File[i]] # "absent"
  <2>1. i \in 1 .. Len(File) /\ File[i] \in Keys
    BY <1>3, <1>4
  <2>2. s.staging = [ k \in Keys |-> IF k \in new THEN "received" ELSE r.staging[k] ]
    BY <1>2 DEF Row
  <2>3. CASE i <= from
    <3>1. i \in 1 .. from
      BY <1>3, <1>4, <2>3
    <3>2. r.staging[File[i]] # "absent"
      BY <1>1, <1>2, <3>1 DEF TaskInv
    <3> QED BY <2>1, <2>2, <3>2
  <2>4. CASE ~(i <= from)
    <3>1. i \in from + 1 .. to
      BY <1>3, <1>4, <2>4
    <3>2. r.staging[File[i]] = "absent" => File[i] \in new
      BY <2>1, <3>1
    <3> HIDE DEF new
    <3> QED BY <2>1, <2>2, <3>2
  <2> QED BY <2>3, <2>4
<1>12. TaskInv(s, t)
  <2>0. Due(r, m.step) /\ Extends(r, s)
    BY <1>2, <1>7 DEF TaskInv, Follows
  <2>1. Due(s, m.step)
    <3> HIDE DEF s
    <3> QED BY <2>0, DueStays
  <2>2. m.step = "parse"
    BY <1>1, <1>2 DEF TaskInv
  <2> HIDE DEF s, t
  <2> QED BY <1>2, <1>4, <1>10, <1>11, <2>1, <2>2 DEF TaskInv
<1>13. TypeOK
  BY DEF IInv
<1> HIDE DEF s, t
<1> QED BY <1>1, <1>8, <1>9, <1>10, <1>12, <1>13, WorkStep
        DEF TypeOK, WorkerUnchanged, budgets

LEMMA FinishParseStep ==
  ASSUME IInv, NEW w \in Workers, FinishParse(w)
  PROVE  RowsStep /\ IInv'
<1> DEFINE m == worker[w].msg
           r == db[m.batch]
           t == TransitionBatch(r, "validating")
           repeated == Len(File) - worker[w].inserted
           s == [ t EXCEPT !.parsed = TRUE, !.repeated = repeated ]
<1>1. /\ worker[w].pc # "idle" /\ worker[w].pc = "stream" /\ worker[w].cursor = Len(File)
      /\ UNCHANGED queue /\ WorkerUnchanged /\ objects' = objects
  BY DEF FinishParse
<1>2. /\ worker[w] \in Task /\ TaskInv(r, worker[w]) /\ m \in Message
      /\ m.batch \in Batches /\ r \in Row /\ RowInv(r) /\ r.kind # "none"
  BY <1>1, Working
<1>3. objects' \subseteq Batches
  BY <1>1 DEF IInv, TypeOK
<1>4. CASE Raise(w, m)
  BY <1>1, <1>3, <1>4, RaiseMidwayStep
<1>5. CASE CanTransition(r, "validating") /\ CommitAndSend(w, m, s)
  <2>1. "validating" \in ProcessingState \ (Completed \cup { "failed", "queued" })
    BY DEF ProcessingState, Completed
  <2>2. Follows(r, t)
    BY <1>2, <1>5, <2>1, TransitionFollows DEF CanTransition
  <2>3. t \in Row /\ RowInv(t) /\ t.kind # "none"
    BY <1>2, <2>2 DEF Follows, Extends
  <2>4. Staged(t)
    <3> SUFFICES ASSUME NEW k \in Keys PROVE t.staging[k] # "absent"
      BY DEF Staged
    <3>1. PICK i \in 1 .. Len(File) : File[i] = k
      BY PipelineAssumption
    <3>2. r.staging[File[i]] # "absent"
      BY <1>1, <1>2 DEF TaskInv
    <3> QED BY <2>2, <3>1, <3>2 DEF Follows, Extends
  <2>5. repeated \in Int
    BY <1>2, PipelineAssumption DEF Task
  <2> HIDE DEF t, repeated
  <2>6. /\ s \in Row /\ s.kind = t.kind /\ s.state = t.state /\ s.exec = t.exec
        /\ s.staging = t.staging /\ s.parsed = TRUE /\ s.rejects = t.rejects
        /\ s.quality = t.quality /\ s.dead = t.dead /\ s.lineage = t.lineage
    BY <2>3, <2>5 DEF Row
  <2> HIDE DEF s
  <2>7. Quiet(t, s)
    BY <2>6 DEF Quiet, PhaseOf
  <2>8. Extends(t, s)
    BY <2>6 DEF Extends, Judged, Accounted
  <2>9. RowInv(s)
    BY <2>3, <2>4, <2>6 DEF RowInv, Staged, Judged, Accounted
  <2>10. Follows(t, s)
    BY <2>6, <2>7, <2>8, <2>9 DEF Follows, PhaseStep, Quiet
  <2>11. Follows(r, s)
    BY <1>2, <2>2, <2>7, <2>10, FollowsQuietly
  <2>12. m.step = "parse" /\ Reached(s, FollowingStep["parse"])
    BY <1>1, <1>2, <2>6 DEF TaskInv, Reached, FollowingStep
  <2> QED BY <1>1, <1>3, <1>5, <2>11, <2>12, CommitMidwayStep DEF s, t, repeated
<1> QED BY <1>4, <1>5 DEF FinishParse

LEMMA NextMessage ==
  ASSUME NEW b \in Batches, NEW step \in Steps
  PROVE  /\ FirstTry(b, step) \in Message
         /\ FirstTry(b, step).batch = b /\ FirstTry(b, step).step = step
  BY PipelineAssumption DEF FirstTry, Message

\* One more copy of a message in the queue.
LEMMA Enqueued ==
  ASSUME TypeOK, NEW m \in Message, queue' = [ queue EXCEPT ![m] = @ + 1 ]
  PROVE  /\ queue' \in [ Message -> Nat ]
         /\ \A n \in Message : queue'[n] > 0 => queue[n] > 0 \/ n = m
  BY DEF TypeOK

LEMMA SendFollowingStep ==
  ASSUME IInv, NEW w \in Workers, SendFollowing(w)
  PROVE  RowsStep /\ IInv'
<1> DEFINE m == worker[w].msg
           b == m.batch
           r == db[b]
           next == FirstTry(b, FollowingStep[m.step])
<1>1. /\ worker[w].pc # "idle" /\ worker[w].pc = "send" /\ Become(w, Idle)
      /\ UNCHANGED << db, objects, outgoing, cancelling, faults, crashes, duplicates >>
  BY DEF SendFollowing, budgets
<1>2. /\ m \in Message /\ b \in Batches /\ m.step \in Steps /\ r.kind # "none"
      /\ TaskInv(r, worker[w])
  BY <1>1, Working, MessageType
<1>3. TypeOK
  BY DEF IInv
<1>4. RowsStep
  BY <1>1 DEF RowsStep
<1>5. CASE m.step = "finalize"
  <2>1. UNCHANGED queue
    BY <1>5 DEF SendFollowing
  <2>2. /\ notices' \subseteq Batches \X { "outbox", "analytics" }
        /\ \A c \in Batches : << c, "analytics" >> \in notices' =>
              << c, "analytics" >> \in notices \/ db'[c].state \in Completed
    BY <1>1, <1>2, <1>3, <1>5 DEF SendFollowing, TypeOK
  <2> QED BY <1>1, <1>3, <1>4, <2>1, <2>2, IdleTask, WorkStep DEF TypeOK
<1>6. CASE m.step # "finalize"
  <2>1. FollowingStep[m.step] \in Steps
    BY <1>2, <1>6 DEF FollowingStep, Steps
  <2>2. next \in Message /\ next.batch = b /\ next.step = FollowingStep[m.step]
    BY <1>2, <2>1, NextMessage
  <2>3. queue' = [ queue EXCEPT ![next] = @ + 1 ] /\ UNCHANGED notices
    BY <1>6 DEF SendFollowing
  <2>4. Due(r, next.step)
    BY <1>1, <1>2, <1>6, <2>2 DEF TaskInv, Due
  <2> HIDE DEF next
  <2>5. /\ queue' \in [ Message -> Nat ]
        /\ \A n \in Message : queue'[n] > 0 => queue[n] > 0 \/ Due(db[n.batch], n.step)
    BY <1>3, <2>2, <2>3, <2>4, Enqueued
  <2> QED BY <1>1, <1>3, <1>4, <2>3, <2>5, IdleTask, WorkStep DEF TypeOK
<1> QED BY <1>5, <1>6

LEMMA RecordFailureStep ==
  ASSUME IInv, NEW w \in Workers, RecordFailure(w)
  PROVE  RowsStep /\ IInv'
<1> DEFINE m == worker[w].msg
           r == db[m.batch]
           again == [ m EXCEPT !.retries = @ + 1 ]
<1>1. /\ worker[w].pc # "idle" /\ worker[w].pc = "failed" /\ Become(w, Idle)
      /\ Commit(m.batch, Failed(r, m.step))
      /\ UNCHANGED << objects, outgoing, cancelling, notices, faults, crashes, duplicates >>
      /\ queue' = IF m.retries < MaxRetries THEN [ queue EXCEPT ![again] = @ + 1 ] ELSE queue
  BY DEF RecordFailure, WorkerUnchanged, budgets
<1>2. /\ m \in Message /\ m.batch \in Batches /\ m.step \in Steps /\ Due(r, m.step)
      /\ r \in Row /\ RowInv(r) /\ r.kind # "none"
  BY <1>1, Working, MessageType
<1>3. TypeOK
  BY DEF IInv
<1>4. Follows(r, Failed(r, m.step))
  BY <1>2, FailedFollows
<1>5. RowsStep
  BY <1>1, <1>2, <1>4, CommitRows
<1>6. /\ queue' \in [ Message -> Nat ]
      /\ \A n \in Message : queue'[n] > 0 => queue[n] > 0 \/ Due(db[n.batch], n.step)
  <2>1. CASE m.retries < MaxRetries
    <3>1. again \in Message /\ again.batch = m.batch /\ again.step = m.step
      BY <1>2, <2>1, PipelineAssumption DEF Message
    <3>2. queue' = [ queue EXCEPT ![again] = @ + 1 ]
      BY <1>1, <2>1
    <3> HIDE DEF again
    <3> QED BY <1>2, <1>3, <3>1, <3>2, Enqueued
  <2>2. CASE ~(m.retries < MaxRetries)
    BY <1>1, <1>3, <2>2 DEF TypeOK
  <2> QED BY <2>1, <2>2
<1> QED BY <1>1, <1>3, <1>5, <1>6, IdleTask, WorkStep DEF TypeOK

(***************************************************************************)
(* Failures.                                                               *)
(***************************************************************************)

LEMMA FailureStep ==
  ASSUME IInv, Failure
  PROVE  RowsStep /\ IInv'
<1>1. TypeOK
  BY DEF IInv
<1>2. ASSUME NEW w \in Workers, NEW m \in Message, FaultOnDelivery(w, m)
      PROVE  RowsStep /\ IInv'
  <2>1. /\ UNCHANGED << db, objects, outgoing, cancelling, notices, crashes, duplicates >>
        /\ faults' \in 0 .. MaxFaults /\ Become(w, Busy("failed", m))
    BY <1>1, <1>2, PipelineAssumption DEF FaultOnDelivery, FaultUnchanged, MayFault, TypeOK
  <2>2. queue[m] > 0 /\ queue' = [ queue EXCEPT ![m] = @ - 1 ]
    BY <1>2 DEF FaultOnDelivery
  <2>3. queue' \in [ Message -> Nat ] /\ \A n \in Message : queue'[n] > 0 => queue[n] > 0
    BY <1>1, <2>2 DEF TypeOK
  <2>4. TaskInv(db'[m.batch], Busy("failed", m))
    BY <2>1, <2>2, BusyTask DEF TaskInv, IInv
  <2>5. /\ worker' \in [ Workers -> Task ]
        /\ \A v \in Workers : \/ worker'[v] = worker[v]
                              \/ TaskInv(db'[worker'[v].msg.batch], worker'[v])
    BY <1>1, <2>1, <2>4, BusyTask DEF TypeOK, Become
  <2>6. RowsStep
    BY <2>1 DEF RowsStep
  <2> QED BY <1>1, <2>1, <2>3, <2>5, <2>6, Preserved DEF TypeOK
<1>3. ASSUME NEW w \in Workers, FaultMidway(w) \/ SendFails(w)
      PROVE  RowsStep /\ IInv'
  <2> DEFINE m == worker[w].msg
  <2>1. /\ UNCHANGED << db, objects, queue, outgoing, cancelling, crashes, duplicates >>
        /\ faults' \in 0 .. MaxFaults /\ Become(w, Busy("failed", m)) /\ worker[w].pc # "idle"
    BY <1>1, <1>3, PipelineAssumption
       DEF FaultMidway, SendFails, FaultUnchanged, MayFault, TypeOK
  <2>2. m \in Message /\ m.batch \in Batches /\ Due(db[m.batch], m.step)
    BY <2>1, Working
  <2>3. TaskInv(db'[m.batch], Busy("failed", m))
    BY <2>1, <2>2, BusyTask DEF TaskInv
  <2>4. /\ notices' \subseteq Batches \X { "outbox", "analytics" }
        /\ \A c \in Batches : << c, "analytics" >> \in notices' => << c, "analytics" >> \in notices
    BY <1>1, <1>3, <2>2 DEF FaultMidway, SendFails, FaultUnchanged, TypeOK
  <2>5. RowsStep
    BY <2>1 DEF RowsStep
  <2> QED BY <1>1, <2>1, <2>2, <2>3, <2>4, <2>5, BusyTask, WorkStep DEF TypeOK
<1>4. ASSUME NEW w \in Workers, Crash(w) \/ Redeliver(w)
      PROVE  RowsStep /\ IInv'
  <2> DEFINE m == worker[w].msg
  <2>1. /\ UNCHANGED << db, objects, outgoing, cancelling, notices, faults >>
        /\ crashes' \in 0 .. MaxCrashes /\ duplicates' \in 0 .. MaxDuplicates
        /\ worker[w].pc # "idle" /\ queue' = [ queue EXCEPT ![m] = @ + 1 ]
        /\ Become(w, Idle) \/ UNCHANGED worker
    BY <1>1, <1>4, PipelineAssumption DEF Crash, Redeliver, TypeOK
  <2>2. m \in Message /\ Due(db[m.batch], m.step)
    BY <2>1, Working
  <2>3. /\ queue' \in [ Message -> Nat ]
        /\ \A n \in Message : queue'[n] > 0 => queue[n] > 0 \/ Due(db[n.batch], n.step)
    <3> HIDE DEF m
    <3> QED BY <1>1, <2>1, <2>2, Enqueued
  <2>4. /\ worker' \in [ Workers -> Task ]
        /\ \A v \in Workers : worker'[v] = worker[v] \/ worker'[v].pc = "idle"
    BY <1>1, <2>1, IdleTask DEF TypeOK, Become
  <2>5. RowsStep
    BY <2>1 DEF RowsStep
  <2> QED BY <1>1, <2>1, <2>3, <2>4, <2>5, Preserved DEF TypeOK
<1> QED BY <1>2, <1>3, <1>4 DEF Failure

(***************************************************************************)
(* HTTP handlers.                                                          *)
(***************************************************************************)

\* A new batch, and the message that its handler will send.
LEMMA CreateStep ==
  ASSUME IInv, NEW b \in Batches, db[b].kind = "none",
         NEW s \in Row, Commit(b, s),
         s.kind # "none", s.state \in { "queued", "received" }, s.exec \in { NoExec, s.state },
         s.staging = EmptyRow.staging, s.parsed = FALSE, s.rejects = {},
         s.dead = {}, s.lineage = {},
         NEW step \in { "acquire", "parse" }, outgoing' = outgoing \cup { FirstTry(b, step) },
         objects' \subseteq Batches, UNCHANGED cancelling, ApiUnchanged
  PROVE  RowsStep /\ IInv'
<1> DEFINE r == db[b]
<1>1. TypeOK /\ r \in Row /\ RowInv(r)
  BY DEF IInv, TypeOK
<1>2. r = EmptyRow
  BY <1>1 DEF RowInv
<1>3. /\ r.staging = s.staging /\ r.parsed = FALSE /\ r.rejects = {} /\ r.lineage = {}
      /\ r.kind = "none" /\ \A k \in Keys : s.staging[k] = "absent"
  BY <1>2 DEF EmptyRow
<1>4. Extends(r, s)
  BY <1>3 DEF Extends, Judged, Accounted
<1>5. RowInv(s)
  BY <1>3 DEF RowInv, Staged, Completed
<1>6. PhaseStep(r, s)
  BY <1>1, <1>3, Phase DEF PhaseStep, Settled, Terminal
<1>7. Follows(r, s)
  BY <1>4, <1>5, <1>6 DEF Follows
<1>8. RowsStep
  BY <1>7, CommitRows
<1>9. db'[b] = s
  BY <1>1 DEF Commit, TypeOK
<1> DEFINE first == FirstTry(b, step)
<1>10. first \in Message /\ Due(db'[first.batch], first.step)
  <2>1. step \in Steps
    BY DEF Steps
  <2> QED BY <1>9, <2>1, NextMessage DEF Due, Reached
<1> HIDE DEF first
<1>11. /\ outgoing' \subseteq Message
       /\ \A m \in outgoing' : m \in outgoing \/ Due(db'[m.batch], m.step)
  BY <1>1, <1>10 DEF first, TypeOK
<1> QED BY <1>1, <1>8, <1>11, Preserved DEF TypeOK, ApiUnchanged, budgets

LEMMA CreationStep ==
  ASSUME IInv, NEW b \in Batches, NEW p \in Batches,
         StartSync(b) \/ UploadSourceFile(b) \/ ReprocessBatch(p, b)
  PROVE  RowsStep /\ IInv'
<1> DEFINE Create(s) ==
             /\ s \in Row /\ s.kind # "none" /\ s.state \in { "queued", "received" }
             /\ s.exec \in { NoExec, s.state } /\ s.staging = EmptyRow.staging
             /\ s.parsed = FALSE /\ s.rejects = {} /\ s.dead = {} /\ s.lineage = {}
<1>1. TypeOK /\ db[p] \in Row
  BY DEF IInv, TypeOK
<1>2. EmptyRow \in Row /\ { "queued", "received" } \subseteq ProcessingState
  BY EmptyRowType DEF ProcessingState
<1>3. /\ EmptyRow.exec = NoExec /\ EmptyRow.parsed = FALSE /\ EmptyRow.rejects = {}
      /\ EmptyRow.dead = {} /\ EmptyRow.lineage = {}
  BY DEF EmptyRow
<1>4. CASE StartSync(b)
  <2> DEFINE s == [ EmptyRow EXCEPT !.kind = "sync", !.state = "queued", !.exec = "queued" ]
  <2>1. Create(s)
    BY <1>2, <1>3 DEF Row
  <2>2. /\ db[b].kind = "none" /\ Commit(b, s) /\ outgoing' = outgoing \cup { FirstTry(b, "acquire") }
        /\ objects' \subseteq Batches /\ UNCHANGED cancelling /\ ApiUnchanged
    BY <1>1, <1>4 DEF StartSync, TypeOK
  <2> HIDE DEF s
  <2> QED BY <2>1, <2>2, CreateStep
<1>5. CASE UploadSourceFile(b)
  <2> DEFINE s == [ EmptyRow EXCEPT !.kind = "upload", !.state = "received", !.file = b ]
  <2>1. Create(s)
    BY <1>2, <1>3 DEF Row
  <2>2. /\ db[b].kind = "none" /\ Commit(b, s) /\ outgoing' = outgoing \cup { FirstTry(b, "parse") }
        /\ objects' \subseteq Batches /\ UNCHANGED cancelling /\ ApiUnchanged
    BY <1>1, <1>5 DEF UploadSourceFile, TypeOK
  <2> HIDE DEF s
  <2> QED BY <2>1, <2>2, CreateStep
<1>6. CASE ReprocessBatch(p, b)
  <2> DEFINE f == db[p].file
             s == [ EmptyRow EXCEPT !.kind = "replay", !.state = "queued", !.file = f ]
  <2>1. f \in Batches \cup { NoFile }
    BY <1>1 DEF Row
  <2>2. Create(s)
    <3> HIDE DEF f
    <3> QED BY <1>2, <1>3, <2>1 DEF Row
  <2>3. /\ db[b].kind = "none" /\ Commit(b, s) /\ outgoing' = outgoing \cup { FirstTry(b, "parse") }
        /\ objects' \subseteq Batches /\ UNCHANGED cancelling /\ ApiUnchanged
    BY <1>1, <1>6 DEF ReprocessBatch, TypeOK
  <2> HIDE DEF s
  <2> QED BY <2>2, <2>3, CreateStep
<1> QED BY <1>4, <1>5, <1>6

LEMMA SendStep ==
  ASSUME IInv, NEW m \in outgoing, ApiSend(m) \/ ApiCrash(m) \/ ApiSendFails(m)
  PROVE  RowsStep /\ IInv'
<1>1. TypeOK /\ m \in Message
  BY DEF IInv, TypeOK
<1>2. /\ UNCHANGED << db, worker, cancelling, notices, duplicates >>
      /\ outgoing' = outgoing \ { m } /\ objects' \subseteq Batches
      /\ faults' \in 0 .. MaxFaults /\ crashes' \in 0 .. MaxCrashes
      /\ queue' = queue \/ queue' = [ queue EXCEPT ![m] = @ + 1 ]
  BY <1>1, PipelineAssumption DEF ApiSend, ApiCrash, ApiSendFails, TypeOK, budgets
<1>3. /\ queue' \in [ Message -> Nat ]
      /\ \A n \in Message : queue'[n] > 0 => queue[n] > 0 \/ n \in outgoing
  BY <1>1, <1>2, Enqueued DEF TypeOK
<1>4. RowsStep
  BY <1>2 DEF RowsStep
<1> QED BY <1>1, <1>2, <1>3, <1>4, Preserved DEF TypeOK

LEMMA UploadRefusedStep ==
  ASSUME IInv, NEW b \in Batches, UploadRefused(b)
  PROVE  RowsStep /\ IInv'
<1>1. TypeOK
  BY DEF IInv
<1>2. /\ UNCHANGED << db, queue, worker, outgoing, cancelling, notices, crashes, duplicates >>
      /\ objects' \subseteq Batches /\ faults' \in 0 .. MaxFaults
  BY <1>1, PipelineAssumption DEF UploadRefused, TypeOK
<1>3. RowsStep
  BY <1>2 DEF RowsStep
<1> QED BY <1>1, <1>2, <1>3, Preserved DEF TypeOK

LEMMA CancelFlagFollows ==
  ASSUME NEW r \in Row, RowInv(r), r.kind # "none", NEW s, s = [ r EXCEPT !.cancel = TRUE ]
  PROVE  Follows(r, s) /\ Quiet(r, s)
<1>1. /\ s \in Row /\ s.kind = r.kind /\ s.state = r.state /\ s.exec = r.exec
      /\ s.staging = r.staging /\ s.parsed = r.parsed /\ s.rejects = r.rejects
      /\ s.quality = r.quality /\ s.dead = r.dead /\ s.lineage = r.lineage
  BY DEF Row
<1> QED BY <1>1, MarkFollows

LEMMA CancelStep ==
  ASSUME IInv, NEW b \in Batches, CancelRead(b) \/ CancelCommit(b)
  PROVE  RowsStep /\ IInv'
<1> DEFINE r == db[b]
           t == TransitionBatch(r, "cancelled")
<1>1. TypeOK /\ r \in Row /\ RowInv(r)
  BY DEF IInv, TypeOK
<1>2. r.kind # "none"
  BY DEF CancelRead, CancelCommit, IInv
<1>3. /\ UNCHANGED << objects, outgoing, queue, worker, notices, faults, crashes, duplicates >>
      /\ cancelling' \subseteq cancelling \cup { b }
  BY DEF CancelRead, CancelCommit, ApiUnchanged, budgets
<1>4. RowsStep
  <2>1. CASE UNCHANGED db
    BY <2>1 DEF RowsStep
  <2>2. CASE Commit(b, [ r EXCEPT !.cancel = TRUE ])
    <3>1. Follows(r, [ r EXCEPT !.cancel = TRUE ])
      BY <1>1, <1>2, CancelFlagFollows
    <3> QED BY <2>2, <3>1, CommitRows
  <2>3. CASE CanTransition(r, "cancelled") /\ Commit(b, [ t EXCEPT !.cancel = TRUE ])
    <3> DEFINE s == [ t EXCEPT !.cancel = TRUE ]
    <3>1. "cancelled" \in ProcessingState \ (Completed \cup { "failed", "queued" })
      BY DEF ProcessingState, Completed
    <3>2. Follows(r, t)
      BY <1>1, <1>2, <2>3, <3>1, TransitionFollows DEF CanTransition
    <3>3. t \in Row /\ RowInv(t) /\ t.kind # "none"
      BY <1>2, <3>2 DEF Follows, Extends
    <3> HIDE DEF t
    <3>4. Follows(t, s) /\ Quiet(t, s)
      BY <3>3, CancelFlagFollows
    <3>5. Follows(r, s)
      BY <1>2, <3>2, <3>4, FollowsQuietly
    <3> QED BY <2>3, <3>5, CommitRows DEF t
  <2> QED BY <2>1, <2>2, <2>3 DEF CancelRead, CancelCommit
<1> QED BY <1>1, <1>2, <1>3, <1>4, Preserved DEF TypeOK

LEMMA CorrectRejectedRecordStep ==
  ASSUME IInv, NEW b \in Batches, NEW k \in Keys, CorrectRejectedRecord(b, k)
  PROVE  RowsStep /\ IInv'
<1> DEFINE r == db[b]
           s == [ r EXCEPT !.staging[k] = "received" ]
<1>1. /\ TypeOK /\ r \in Row /\ RowInv(r) /\ k \in r.rejects /\ Commit(b, s)
      /\ UNCHANGED << objects, outgoing, cancelling, queue, worker, notices,
                      faults, crashes, duplicates >>
  BY DEF CorrectRejectedRecord, ApiUnchanged, budgets, IInv, TypeOK
<1>2. r.kind # "none"
  BY <1>1 DEF RowInv, EmptyRow
<1>3. Follows(r, s)
  BY <1>1, <1>2, CorrectionFollows
<1>4. RowsStep
  BY <1>1, <1>3, CommitRows
<1> QED BY <1>1, <1>4, Preserved DEF TypeOK

(***************************************************************************)
(* The invariant and what follows from it.                                 *)
(***************************************************************************)

LEMMA InitIInv == Init => IInv
<1> SUFFICES ASSUME Init PROVE IInv
  OBVIOUS
<1>1. TypeOK
  <2>1. worker \in [ Workers -> Task ]
    BY IdleTask DEF Init
  <2>2. db \in [ Batches -> Row ]
    BY EmptyRowType DEF Init
  <2> QED BY <2>1, <2>2, PipelineAssumption DEF Init, TypeOK
<1>2. \A b \in Batches : RowInv(db[b])
  BY EmptyRowType DEF Init
<1>3. \A w \in Workers : worker[w].pc = "idle"
  BY IdleTask DEF Init
<1>4. \A m \in Message : ~(queue[m] > 0 \/ m \in outgoing)
  BY DEF Init
<1> QED BY <1>1, <1>2, <1>3, <1>4 DEF Init, IInv, AnalyticsOnlyForCompleted

LEMMA NextStep ==
  ASSUME IInv, [Next]_vars
  PROVE  RowsStep /\ IInv'
<1>1. TypeOK
  BY DEF IInv
<1>2. CASE UNCHANGED vars
  <2>1. UNCHANGED << db, objects, queue, worker, outgoing, cancelling, notices,
                     faults, crashes, duplicates >>
    BY <1>2 DEF vars, budgets
  <2>2. RowsStep
    BY <2>1 DEF RowsStep
  <2> QED BY <1>1, <2>1, <2>2, Preserved DEF TypeOK
<1>3. CASE Api
  <2>1. \A m \in outgoing : ApiSend(m) \/ ApiCrash(m) \/ ApiSendFails(m) => RowsStep /\ IInv'
    BY SendStep
  <2>2. \A b \in Batches : CancelRead(b) \/ CancelCommit(b) => RowsStep /\ IInv'
    BY CancelStep
  <2>3. \A b \in Batches, k \in Keys : CorrectRejectedRecord(b, k) => RowsStep /\ IInv'
    BY CorrectRejectedRecordStep
  <2>4. \A p, b \in Batches : StartSync(b) \/ UploadSourceFile(b) \/ ReprocessBatch(p, b)
            => RowsStep /\ IInv'
    BY CreationStep
  <2>5. \A b \in Batches : UploadRefused(b) => RowsStep /\ IInv'
    BY UploadRefusedStep
  <2> QED BY <1>3, <2>1, <2>2, <2>3, <2>4, <2>5 DEF Api
<1>4. CASE \E w \in Workers, m \in Message : Begin(w, m)
  BY <1>4, AcquireStep, ParseStep, ValidateStep, MapStep, LoadStep, FinalizeStep DEF Begin
<1>5. CASE \E w \in Workers : Continue(w)
  BY <1>5, LandStep, InsertStagingChunkStep, FinishParseStep, SendFollowingStep,
     RecordFailureStep DEF Continue
<1>6. CASE Failure
  BY <1>6, FailureStep
<1> QED BY <1>2, <1>3, <1>4, <1>5, <1>6 DEF Next

\* Rows, tasks and messages agree in every reachable state.
THEOREM Invariance == Spec => []IInv
<1>1. IInv /\ [Next]_vars => IInv'
  BY NextStep
<1> QED BY InitIInv, <1>1, PTL DEF Spec

\* Every variable keeps its type.
THEOREM TypeCorrect == Spec => []TypeOK
<1>1. IInv => TypeOK
  BY DEF IInv
<1> QED BY Invariance, <1>1, PTL

\* No row becomes canonical before every row of the file was staged and judged.
THEOREM QualityFirst == Spec => []QualityBeforeLoad
<1>1. IInv => QualityBeforeLoad
  BY DEF IInv, RowInv, Judged, QualityBeforeLoad
<1> QED BY Invariance, <1>1, PTL

\* A completed batch has its whole file in the canonical model.
THEOREM CompletedWhole == Spec => []CompletedIsWhole
<1>1. ASSUME IInv, NEW b \in Batches, db[b].state \in Completed
      PROVE  db[b].lineage = Keys /\ db[b].rejects = {}
  <2>1. db[b] \in Row /\ RowInv(db[b])
    BY <1>1 DEF IInv, TypeOK
  <2>2. db[b].lineage \subseteq Keys
    BY <2>1 DEF Row
  <2> QED BY <1>1, <2>1, <2>2 DEF RowInv, Accounted
<1>2. IInv => CompletedIsWhole
  BY <1>1 DEF CompletedIsWhole
<1> QED BY Invariance, <1>2, PTL

\* A dead letter and a failed batch go together (_record_failure).
THEOREM DeadLetters == Spec => []DeadLetterMeansFailed
<1>1. IInv => DeadLetterMeansFailed
  BY DEF IInv, RowInv, DeadLetterMeansFailed
<1> QED BY Invariance, <1>1, PTL

\* The analytics refresh is asked for by batches that stay completed.
THEOREM AnalyticsCompleted == Spec => []AnalyticsOnlyForCompleted
<1>1. IInv => AnalyticsOnlyForCompleted
  BY DEF IInv
<1> QED BY Invariance, <1>1, PTL

\* Terminal states are never left, whichever transaction comes late.
THEOREM TerminalStays == Spec => TerminalNotReopened
<1>1. IInv /\ [Next]_vars =>
        [\A b \in Batches : db[b].state \in Terminal /\ db[b].kind # "none"
                                => db'[b].state = db[b].state]_vars
  BY NextStep, RowsKept DEF Extends
<1> QED BY Invariance, <1>1, PTL DEF Spec, TerminalNotReopened

\* Every step of the pipeline is a step of the contract of one batch, or none.
LEMMA ContractStep ==
  ASSUME IInv, RowsStep
  PROVE  [Contract!Next]_(Contract!contract)
<1> DEFINE phase == [ b \in Batches |-> PhaseOf(db[b]) ]
           canonical == [ b \in Batches |-> db[b].lineage ]
<1>1. CASE UNCHANGED db
  BY <1>1 DEF Contract!contract
<1>2. ASSUME NEW b \in Batches, NEW s \in Row, Follows(db[b], s), Commit(b, s)
      PROVE  [Contract!Next]_(Contract!contract)
  <2>1. /\ db \in [ Batches -> Row ] /\ db' = [ db EXCEPT ![b] = s ]
    BY <1>2 DEF IInv, TypeOK, Commit
  <2>2. /\ phase' = [ phase EXCEPT ![b] = PhaseOf(s) ]
        /\ canonical' = [ canonical EXCEPT ![b] = s.lineage ]
        /\ phase[b] = PhaseOf(db[b]) /\ canonical[b] = db[b].lineage
    BY <2>1
  <2>3. s.lineage \in SUBSET Keys
    BY DEF Row
  <2>4. CASE Quiet(db[b], s)
    BY <2>2, <2>4 DEF Quiet, Contract!contract
  <2>5. CASE PhaseOf(db[b]) = "open" /\ PhaseOf(s) = "open" /\ db[b].lineage \subseteq s.lineage
    <3>1. Contract!Publish(b, s.lineage)
      BY <2>2, <2>5 DEF Contract!Publish
    <3> QED BY <2>3, <3>1 DEF Contract!Next
  <2>6. CASE s.lineage = db[b].lineage /\ ~Quiet(db[b], s)
    <3>1. canonical' = canonical
      BY <2>2, <2>6
    <3>2. \/ Contract!Accept(b) \/ Contract!Complete(b) \/ Contract!Quarantine(b)
          \/ Contract!Fail(b) \/ Contract!Cancel(b)
      BY <1>2, <2>2, <2>6, <3>1
         DEF Follows, PhaseStep, Quiet, Contract!Accept, Contract!Complete,
             Contract!Quarantine, Contract!Fail, Contract!Cancel, Contract!Move
    <3> QED BY <3>2 DEF Contract!Next
  <2> QED BY <1>2, <2>4, <2>5, <2>6 DEF Follows, PhaseStep, Quiet
<1> QED BY <1>1, <1>2 DEF RowsStep

\* The pipeline implements the contract of its batches.
THEOREM Implementation == Spec => ImplementsContract
<1>1. Init => Contract!Init
  BY DEF Init, Contract!Init, EmptyRow, PhaseOf
<1>2. IInv /\ [Next]_vars => [Contract!Next]_(Contract!contract)
  BY NextStep, ContractStep
<1> QED BY Invariance, <1>1, <1>2, PTL DEF Spec, ImplementsContract, Contract!Spec

(***************************************************************************)
(* Files and failures.  What the steps do to the manifest's file and to    *)
(* the counters of failures, and where they leave a message to be retried. *)
(***************************************************************************)

\* Neither the file nor the failures of the batch are touched.
Marked(r, s) == s.file = r.file /\ s.failures = r.failures

LEMMA TransitionMarks ==
  ASSUME NEW r \in Row, NEW target \in ProcessingState
  PROVE  /\ TransitionBatch(r, target) \in Row /\ TransitionBatch(r, target).state = target
         /\ Marked(r, TransitionBatch(r, target))
<1>1. TransitionBatch(r, target) \in Row /\ TransitionBatch(r, target).state = target
  BY TransitionRow
<1>2. Marked(r, TransitionBatch(r, target))
  BY DEF TransitionBatch, Marked, Row
<1> QED BY <1>1, <1>2

LEMMA ResumeMarks ==
  ASSUME NEW r \in Row, NEW state \in ProcessingState, ReadyFor(r, state)
  PROVE  /\ Resume(r, state) \in Row /\ Resume(r, state).state = state
         /\ Marked(r, Resume(r, state))
<1>1. CASE r.state = "retry_scheduled"
  BY <1>1, TransitionMarks DEF Resume
<1>2. CASE r.state # "retry_scheduled"
  BY <1>2 DEF Resume, ReadyFor, Marked
<1> QED BY <1>1, <1>2

LEMMA MarkedTwice ==
  ASSUME NEW q, NEW r, NEW s, Marked(q, r), Marked(r, s)
  PROVE  Marked(q, s)
  BY DEF Marked

\* A worker that begins a step takes the message, and then: ignores it, but not
\* when the batch waits for a retry of this step; or raises; or commits rows in
\* a state of their own.
Begun(w, m) ==
    \/ /\ UNCHANGED << db, worker >>
       /\ m.step = "finalize" \/ db[m.batch].state # "retry_scheduled"
    \/ /\ Become(w, Busy("failed", m)) /\ UNCHANGED db
       /\ m.step # "finalize"
    \/ \E s : /\ Commit(m.batch, s) /\ Marked(db[m.batch], s)
              /\ s.state \notin { "created", "retry_scheduled" }
              /\ m.step = "finalize" => s.state \in Settled
              /\ UNCHANGED worker \/ \E pc \in { "extract", "stream", "send", "failed" } :
                                        Become(w, Busy(pc, m))

LEMMA CancelledBegun ==
  ASSUME NEW w \in Workers, NEW m \in Message, db[m.batch] \in Row,
         CommitCancelled(m.batch, db[m.batch])
  PROVE  Begun(w, m)
<1> DEFINE s == TransitionBatch(db[m.batch], "cancelled")
<1>1. "cancelled" \in ProcessingState /\ "cancelled" \in Settled
  BY DEF ProcessingState, Settled, Terminal
<1>2. s.state = "cancelled" /\ Marked(db[m.batch], s)
  BY <1>1, TransitionMarks
<1>3. Commit(m.batch, s) /\ UNCHANGED worker
  BY DEF CommitCancelled
<1> HIDE DEF s
<1> QED BY <1>1, <1>2, <1>3 DEF Begun

LEMMA SentBegun ==
  ASSUME NEW w \in Workers, NEW m \in Message, NEW s, CommitAndSend(w, m, s),
         Marked(db[m.batch], s), s.state \notin { "created", "retry_scheduled" },
         m.step = "finalize" => s.state \in Settled
  PROVE  Begun(w, m)
  BY DEF CommitAndSend, Begun

LEMMA BeginDelivers ==
  ASSUME NEW w \in Workers, NEW m \in Message, Begin(w, m)
  PROVE  Deliver(w, m, m.step)
  BY DEF Begin, Acquire, Parse, Validate, Map, Normalize, MapOrNormalize, Load, Finalize, Deliver

LEMMA BeginCases ==
  ASSUME IInv, NEW w \in Workers, NEW m \in Message, Begin(w, m)
  PROVE  Begun(w, m)
<1> DEFINE r == db[m.batch]
<1>1. r \in Row
  BY MessageType DEF IInv, TypeOK
<1>2. { "connecting", "extracting", "received", "validating", "mapping", "normalizing",
        "loading" } \subseteq ProcessingState \ { "created", "retry_scheduled" }
  BY DEF ProcessingState
<1>3. CASE Acquire(w, m)
  <2>1. m.step = "acquire"
    BY <1>3 DEF Acquire, Deliver
  <2>2. CASE Ignore /\ r.state # "retry_scheduled"
    BY <2>2 DEF Ignore, Begun
  <2>3. CASE CommitCancelled(m.batch, r)
    BY <1>1, <2>3, CancelledBegun
  <2>4. CASE /\ Commit(m.batch, TransitionBatch(TransitionBatch(r, "connecting"), "extracting"))
             /\ Become(w, Busy("extract", m))
    <3>1. PICK t : t = TransitionBatch(r, "connecting")
      OBVIOUS
    <3>2. t \in Row /\ Marked(r, t)
      BY <1>1, <1>2, <3>1, TransitionMarks
    <3>3. PICK s : s = TransitionBatch(t, "extracting")
      OBVIOUS
    <3>4. s.state = "extracting" /\ Marked(t, s)
      BY <1>2, <3>2, <3>3, TransitionMarks
    <3>5. Commit(m.batch, s) /\ Marked(r, s)
      BY <2>4, <3>1, <3>2, <3>3, <3>4, MarkedTwice
    <3> QED BY <2>1, <2>4, <3>4, <3>5 DEF Begun
  <2> QED BY <1>3, <2>1, <2>2, <2>3, <2>4 DEF Acquire, Terminal
<1>4. CASE Parse(w, m)
  <2>1. m.step = "parse"
    BY <1>4 DEF Parse, Deliver
  <2>2. CASE Ignore /\ r.state # "retry_scheduled"
    BY <2>2 DEF Ignore, Begun
  <2>3. CASE CommitCancelled(m.batch, r)
    BY <1>1, <2>3, CancelledBegun
  <2>4. CASE Raise(w, m)
    BY <2>1, <2>4 DEF Raise, Begun
  <2>5. CASE /\ Commit(m.batch, TransitionBatch(r, "received"))
             /\ Become(w, Busy(IF r.file \in objects THEN "stream" ELSE "failed", m))
    <3>1. PICK s : s = TransitionBatch(r, "received")
      OBVIOUS
    <3>2. s.state = "received" /\ Marked(r, s)
      BY <1>1, <1>2, <3>1, TransitionMarks
    <3> QED BY <2>1, <2>5, <3>1, <3>2 DEF Begun
  <2> QED BY <1>4, <2>1, <2>2, <2>3, <2>4, <2>5 DEF Parse, Terminal
<1>5. CASE Validate(w, m)
  <2>1. m.step = "validate"
    BY <1>5 DEF Validate, Deliver
  <2>2. CASE Ignore /\ r.state # "retry_scheduled"
    BY <2>2 DEF Ignore, Begun
  <2>3. CASE CommitCancelled(m.batch, r)
    BY <1>1, <2>3, CancelledBegun
  <2>4. CASE Raise(w, m)
    BY <2>1, <2>4 DEF Raise, Begun
  <2>5. ASSUME ReadyFor(r, "validating"), NEW verdict \in [ Keys -> Verdicts ],
               CommitAndSend(w, m, Judgement(TransitionBatch(Resume(r, "validating"), "mapping"),
                                             verdict))
        PROVE  Begun(w, m)
    <3>1. PICK q : q = Resume(r, "validating")
      OBVIOUS
    <3>2. q \in Row /\ Marked(r, q)
      BY <1>1, <1>2, <2>5, <3>1, ResumeMarks
    <3>3. PICK t : t = TransitionBatch(q, "mapping")
      OBVIOUS
    <3>4. t \in Row /\ t.state = "mapping" /\ Marked(q, t)
      BY <1>2, <3>2, <3>3, TransitionMarks
    <3>5. PICK s : s = Judgement(t, verdict)
      OBVIOUS
    <3>6. s.state = "mapping" /\ Marked(t, s)
      BY <3>4, <3>5 DEF Judgement, Marked, Row
    <3>7. Marked(r, s) /\ CommitAndSend(w, m, s)
      BY <2>5, <3>1, <3>2, <3>3, <3>4, <3>5, <3>6, MarkedTwice
    <3> QED BY <2>1, <3>6, <3>7, SentBegun
  <2> QED BY <1>5, <2>1, <2>2, <2>3, <2>4, <2>5 DEF Validate, Terminal, ReadyFor
<1>6. ASSUME NEW step \in { "map", "normalize" }, NEW state \in ProcessingState,
             NEW target \in { "normalizing", "loading" },
             MapOrNormalize(w, m, step, state, target)
      PROVE  Begun(w, m)
  <2>1. m.step = step
    BY <1>6 DEF MapOrNormalize, Deliver
  <2>2. CASE Ignore /\ ~ReadyFor(r, state)
    BY <2>2 DEF Ignore, Begun, ReadyFor
  <2>3. CASE ReadyFor(r, state) /\ CommitAndSend(w, m, TransitionBatch(Resume(r, state), target))
    <3>1. PICK q : q = Resume(r, state)
      OBVIOUS
    <3>2. q \in Row /\ Marked(r, q)
      BY <1>1, <2>3, <3>1, ResumeMarks
    <3>3. PICK s : s = TransitionBatch(q, target)
      OBVIOUS
    <3>4. s.state = target /\ Marked(q, s)
      BY <1>2, <3>2, <3>3, TransitionMarks
    <3>5. Marked(r, s) /\ CommitAndSend(w, m, s)
      BY <2>3, <3>1, <3>2, <3>3, <3>4, MarkedTwice
    <3> QED BY <2>1, <3>4, <3>5, SentBegun
  <2> QED BY <1>6, <2>1, <2>2, <2>3 DEF MapOrNormalize
<1>7. CASE Map(w, m) \/ Normalize(w, m)
  BY <1>2, <1>6, <1>7 DEF Map, Normalize
<1>8. CASE Load(w, m)
  <2>1. m.step = "load"
    BY <1>8 DEF Load, Deliver
  <2>2. CASE Ignore /\ ~ReadyFor(r, "loading")
    BY <2>2 DEF Ignore, Begun, ReadyFor
  <2>3. CASE CommitCancelled(m.batch, r)
    BY <1>1, <2>3, CancelledBegun
  <2>4. CASE Raise(w, m)
    BY <2>1, <2>4 DEF Raise, Begun
  <2>5. ASSUME ReadyFor(r, "loading"), NEW valid,
               CommitAndSend(w, m,
                   [ Resume(r, "loading") EXCEPT
                       !.staging = [ k \in Keys |-> IF k \in valid THEN "loaded" ELSE @[k] ],
                       !.lineage = @ \cup valid ])
        PROVE  Begun(w, m)
    <3>1. PICK q : q = Resume(r, "loading")
      OBVIOUS
    <3>2. q \in Row /\ q.state = "loading" /\ Marked(r, q)
      BY <1>1, <1>2, <2>5, <3>1, ResumeMarks
    <3>3. PICK s : s = [ q EXCEPT
                       !.staging = [ k \in Keys |-> IF k \in valid THEN "loaded" ELSE @[k] ],
                       !.lineage = @ \cup valid ]
      OBVIOUS
    <3>4. s.state = "loading" /\ Marked(q, s)
      BY <3>2, <3>3 DEF Marked, Row
    <3>5. Marked(r, s) /\ CommitAndSend(w, m, s)
      BY <2>5, <3>1, <3>2, <3>3, <3>4, MarkedTwice
    <3> QED BY <2>1, <3>4, <3>5, SentBegun
  <2> QED BY <1>8, <2>1, <2>2, <2>3, <2>4, <2>5 DEF Load
<1>9. CASE Finalize(w, m)
  <2>1. m.step = "finalize"
    BY <1>9 DEF Finalize, Deliver
  <2>2. CASE Ignore
    BY <2>1, <2>2 DEF Ignore, Begun
  <2>3. CASE CommitAndSend(w, m, [ TransitionBatch(r, Outcome(r)) EXCEPT !.event = Outcome(r) ])
    <3>1. PICK o : o = Outcome(r)
      OBVIOUS
    <3>2. o \in ProcessingState /\ o \in Settled /\ o \notin { "created", "retry_scheduled" }
      BY <3>1 DEF Outcome, ProcessingState, Settled, Terminal
    <3>3. PICK t : t = TransitionBatch(r, o)
      OBVIOUS
    <3>4. t \in Row /\ t.state = o /\ Marked(r, t)
      BY <1>1, <3>2, <3>3, TransitionMarks
    <3>5. PICK s : s = [ t EXCEPT !.event = o ]
      OBVIOUS
    <3>6. s.state = o /\ Marked(t, s)
      BY <3>4, <3>5 DEF Marked, Row
    <3>7. Marked(r, s) /\ CommitAndSend(w, m, s)
      BY <2>3, <3>1, <3>3, <3>4, <3>5, <3>6, MarkedTwice
    <3> QED BY <3>2, <3>6, <3>7, SentBegun
  <2> QED BY <1>9, <2>1, <2>2, <2>3 DEF Finalize
<1> QED BY <1>3, <1>4, <1>5, <1>7, <1>8, <1>9 DEF Begin

(***************************************************************************)
(* Retries.  A batch in RETRY_SCHEDULED is never forgotten, because three  *)
(* more facts hold: a message is not sent more often than failures of its  *)
(* step were recorded, so the recorder reaches the final attempt before    *)
(* Dramatiq gives the message up; a finalize message that fails finds its  *)
(* batch settled; and no step ignores a batch that waits for a retry.      *)
(***************************************************************************)

\* A message that will make its step retry: it waits in Redis, or its worker
\* has not committed the step yet.
WillRetry(m) ==
    /\ m.step # "finalize"
    /\ \/ queue[m] > 0
       \/ \E w \in Workers : /\ worker[w].pc \in { "extract", "stream", "failed" }
                             /\ worker[w].msg = m

Accepted == \A b \in Batches : db[b].kind # "none" => db[b].state # "created"

Counted ==
    \A m \in Message : UnderWay(m) /\ db[m.batch].state \notin Settled =>
        m.retries <= db[m.batch].failures[m.step]

Finalized(task, row) ==
    task.pc \in { "send", "failed" } /\ task.msg.step = "finalize" => row.state \in Settled

Awaited ==
    \A b \in Batches : db[b].state = "retry_scheduled" =>
        \E m \in Message : m.batch = b /\ WillRetry(m)

RetryInv ==
    /\ Accepted
    /\ Counted
    /\ \A w \in Workers : Finalized(worker[w], db[worker[w].msg.batch])
    /\ Awaited

\* A batch that settled stays settled.
LEMMA SettledStays ==
  ASSUME IInv, RowsStep, NEW c \in Batches, db[c].kind # "none", db[c].state \in Settled
  PROVE  db'[c].kind # "none" /\ db'[c].state \in Settled
<1>1. db \in [ Batches -> Row ] /\ db[c] \in Row
  BY DEF IInv, TypeOK
<1>2. CASE UNCHANGED db
  BY <1>2
<1>3. ASSUME NEW b \in Batches, NEW s \in Row, Follows(db[b], s), Commit(b, s)
      PROVE  db'[c].kind # "none" /\ db'[c].state \in Settled
  <2>1. db'[c] = IF c = b THEN s ELSE db[c]
    BY <1>1, <1>3 DEF Commit
  <2>2. CASE c # b
    BY <2>1, <2>2
  <2>3. CASE c = b
    <3>1. PhaseOf(db[c]) \in { "completed", "quarantined", "failed", "cancelled" }
      BY <1>1, Phase DEF Settled, Terminal, Completed
    <3>2. PhaseOf(s) \in { "completed", "quarantined", "failed", "cancelled" }
      BY <1>3, <2>3, <3>1 DEF Follows, PhaseStep
    <3>3. s.kind # "none" /\ s.state \in Settled
      BY <3>2, Phase
    <3> QED BY <2>1, <2>3, <3>3
  <2> QED BY <2>2, <2>3
<1> QED BY <1>2, <1>3 DEF RowsStep

\* What a step must show for RetryInv to hold after it.
LEMMA RetryKept ==
  ASSUME IInv, RetryInv, RowsStep,
         \A c \in Batches : db'[c].kind # "none" => db'[c].state # "created",
         \A c \in Batches, j \in Steps : db[c].failures[j] <= db'[c].failures[j],
         \A n \in Message : UnderWay(n)' /\ db'[n.batch].state \notin Settled =>
             UnderWay(n) \/ n.retries <= db'[n.batch].failures[n.step],
         \A v \in Workers : worker'[v].pc \in { "send", "failed" } /\ worker'[v].msg.step = "finalize" =>
             \/ worker[v].pc \in { "send", "failed" } /\ worker'[v].msg = worker[v].msg
             \/ db'[worker'[v].msg.batch].state \in Settled,
         \A c \in Batches : db'[c].state = "retry_scheduled" =>
             \/ \E n \in Message : n.batch = c /\ WillRetry(n)'
             \/ /\ db[c].state = "retry_scheduled"
                /\ \A n \in Message : n.batch = c /\ WillRetry(n) => WillRetry(n)'
  PROVE  RetryInv'
<1>1. Accepted'
  BY DEF Accepted
<1>2. ASSUME NEW n \in Message, UnderWay(n)', db'[n.batch].state \notin Settled
      PROVE  n.retries <= db'[n.batch].failures[n.step]
  <2>1. CASE ~UnderWay(n)
    BY <1>2, <2>1
  <2>2. CASE UnderWay(n)
    <3>1. /\ n.batch \in Batches /\ n.step \in Steps /\ n.retries \in Int
      BY MessageType, PipelineAssumption
    <3>2. db[n.batch].kind # "none"
      BY <2>2 DEF UnderWay, IInv, TaskInv, Due
    <3>3. db[n.batch].state \notin Settled
      BY <1>2, <3>1, <3>2, SettledStays
    <3>4. n.retries <= db[n.batch].failures[n.step]
      BY <2>2, <3>3 DEF RetryInv, Counted
    <3>5. db[n.batch].failures[n.step] <= db'[n.batch].failures[n.step]
      BY <3>1
    <3>6. db[n.batch].failures[n.step] \in Int /\ db'[n.batch].failures[n.step] \in Int
      <4>1. db[n.batch] \in Row /\ db'[n.batch] \in Row
        BY <3>1, RowsKept DEF IInv, TypeOK
      <4> QED BY <3>1, <4>1 DEF Row
    <3> QED BY <3>1, <3>4, <3>5, <3>6
  <2> QED BY <2>1, <2>2
<1>3. Counted'
  BY <1>2 DEF Counted
<1>4. ASSUME NEW v \in Workers, worker'[v].pc \in { "send", "failed" },
             worker'[v].msg.step = "finalize"
      PROVE  db'[worker'[v].msg.batch].state \in Settled
  <2>1. CASE worker[v].pc \in { "send", "failed" } /\ worker'[v].msg = worker[v].msg
    <3>1. worker[v].msg \in Message /\ db[worker[v].msg.batch].kind # "none"
      BY <2>1 DEF IInv, TaskInv, Due
    <3>2. db[worker[v].msg.batch].state \in Settled
      BY <1>4, <2>1 DEF RetryInv, Finalized
    <3> QED BY <2>1, <3>1, <3>2, MessageType, SettledStays
  <2> QED BY <1>4, <2>1
<1>5. \A v \in Workers : Finalized(worker[v], db[worker[v].msg.batch])'
  BY <1>4 DEF Finalized
<1>6. Awaited'
  <2> SUFFICES ASSUME NEW c \in Batches, db'[c].state = "retry_scheduled"
               PROVE  \E n \in Message : n.batch = c /\ WillRetry(n)'
    BY DEF Awaited
  <2>1. CASE /\ db[c].state = "retry_scheduled"
             /\ \A n \in Message : n.batch = c /\ WillRetry(n) => WillRetry(n)'
    <3>1. PICK n \in Message : n.batch = c /\ WillRetry(n)
      BY <2>1 DEF RetryInv, Awaited
    <3> QED BY <2>1, <3>1
  <2> QED BY <2>1
<1> QED BY <1>1, <1>3, <1>5, <1>6 DEF RetryInv

\* A step that commits no rows.
LEMMA RetryKeptByMessages ==
  ASSUME IInv, RetryInv, UNCHANGED db,
         \A n \in Message : UnderWay(n)' => UnderWay(n) \/ n.retries = 0,
         \A v \in Workers : worker'[v].pc \in { "send", "failed" } /\ worker'[v].msg.step = "finalize" =>
             worker[v].pc \in { "send", "failed" } /\ worker'[v].msg = worker[v].msg,
         \A n \in Message : WillRetry(n) => WillRetry(n)'
  PROVE  RetryInv'
<1>1. RowsStep
  BY DEF RowsStep
<1>2. \A c \in Batches, j \in Steps : db[c].failures[j] \in Nat
  BY DEF IInv, TypeOK, Row
<1>3. \A c \in Batches : db'[c].kind # "none" => db'[c].state # "created"
  BY DEF RetryInv, Accepted
<1>4. \A c \in Batches, j \in Steps : db[c].failures[j] <= db'[c].failures[j]
  BY <1>2
<1>5. \A n \in Message : UnderWay(n)' /\ db'[n.batch].state \notin Settled =>
          UnderWay(n) \/ n.retries <= db'[n.batch].failures[n.step]
  BY <1>2, MessageType
<1>6. \A c \in Batches : db'[c].state = "retry_scheduled" =>
          /\ db[c].state = "retry_scheduled"
          /\ \A n \in Message : n.batch = c /\ WillRetry(n) => WillRetry(n)'
  OBVIOUS
<1> QED BY <1>1, <1>3, <1>4, <1>5, <1>6, RetryKept

\* A step that commits rows of one batch, but records no failure.
LEMMA RetryKeptByCommit ==
  ASSUME IInv, RetryInv, RowsStep, NEW b \in Batches, NEW s, Commit(b, s),
         s.failures = db[b].failures,
         s.state \in { "created", "retry_scheduled" } => s.state = db[b].state /\ s.kind = db[b].kind,
         \A n \in Message : UnderWay(n)' => UnderWay(n) \/ n.retries = 0,
         \A v \in Workers : worker'[v].pc \in { "send", "failed" } /\ worker'[v].msg.step = "finalize" =>
             \/ worker[v].pc \in { "send", "failed" } /\ worker'[v].msg = worker[v].msg
             \/ db'[worker'[v].msg.batch].state \in Settled,
         \A n \in Message : WillRetry(n) /\ db'[n.batch].state = "retry_scheduled" => WillRetry(n)'
  PROVE  RetryInv'
<1>1. \A c \in Batches : db'[c] = IF c = b THEN s ELSE db[c]
  BY DEF IInv, TypeOK, Commit
<1>2. \A c \in Batches, j \in Steps : db[c].failures[j] \in Nat
  BY DEF IInv, TypeOK, Row
<1>3. \A c \in Batches : db'[c].kind # "none" => db'[c].state # "created"
  BY <1>1 DEF RetryInv, Accepted
<1>4. \A c \in Batches, j \in Steps : db'[c].failures[j] = db[c].failures[j]
  BY <1>1
<1>5. \A c \in Batches, j \in Steps : db[c].failures[j] <= db'[c].failures[j]
  BY <1>2, <1>4
<1>6. \A n \in Message : UnderWay(n)' /\ db'[n.batch].state \notin Settled =>
          UnderWay(n) \/ n.retries <= db'[n.batch].failures[n.step]
  BY <1>2, <1>4, MessageType
<1>7. \A c \in Batches : db'[c].state = "retry_scheduled" =>
          /\ db[c].state = "retry_scheduled"
          /\ \A n \in Message : n.batch = c /\ WillRetry(n) => WillRetry(n)'
  BY <1>1
<1> QED BY <1>3, <1>5, <1>6, <1>7, RetryKept

\* A delivered message is worked on, or was of no use to a batch that waits.
LEMMA BeginRetries ==
  ASSUME IInv, RetryInv, RowsStep, NEW w \in Workers, NEW m \in Message, Begin(w, m)
  PROVE  RetryInv'
<1>1. /\ worker[w].pc = "idle" /\ queue[m] > 0
      /\ queue' = [ queue EXCEPT ![m] = @ - 1 ] /\ UNCHANGED outgoing
  BY BeginDelivers DEF Deliver, WorkerUnchanged
<1>2. TypeOK /\ m.batch \in Batches
  BY MessageType DEF IInv
<1>3. \A n \in Message : n # m => queue'[n] = queue[n]
  BY <1>1, <1>2 DEF TypeOK
<1>4. \A n \in Message : queue'[n] > 0 => queue[n] > 0
  BY <1>1, <1>2 DEF TypeOK
<1>5. ASSUME NEW t, Become(w, t)
      PROVE  worker'[w] = t /\ \A v \in Workers : v # w => worker'[v] = worker[v]
  BY <1>2, <1>5 DEF TypeOK, Become
<1>6. CASE UNCHANGED << db, worker >> /\ (m.step = "finalize" \/ db[m.batch].state # "retry_scheduled")
  <2>1. \A n \in Message : UnderWay(n)' => UnderWay(n)
    BY <1>1, <1>4, <1>6 DEF UnderWay
  <2>2. \A n \in Message : n # m /\ WillRetry(n) => WillRetry(n)'
    BY <1>3, <1>6 DEF WillRetry
  <2>3. WillRetry(m) => db'[m.batch].state # "retry_scheduled"
    BY <1>6 DEF WillRetry
  <2>4. Commit(m.batch, db[m.batch])
    BY <1>2, <1>6 DEF Commit, TypeOK
  <2> QED BY <1>2, <1>6, <2>1, <2>2, <2>3, <2>4, RetryKeptByCommit
<1>7. CASE Become(w, Busy("failed", m)) /\ UNCHANGED db /\ m.step # "finalize"
  <2>1. /\ worker'[w].pc = "failed" /\ worker'[w].msg = m
        /\ \A v \in Workers : v # w => worker'[v] = worker[v]
    BY <1>5, <1>7, BusyTask
  <2>2. \A n \in Message : UnderWay(n)' => UnderWay(n)
    BY <1>1, <1>4, <2>1 DEF UnderWay
  <2>3. \A n \in Message : WillRetry(n) => WillRetry(n)'
    <3>1. ASSUME NEW n \in Message, WillRetry(n), n # m PROVE WillRetry(n)'
      BY <1>1, <1>3, <2>1, <3>1 DEF WillRetry
    <3>2. WillRetry(m)'
      BY <1>7, <2>1 DEF WillRetry
    <3> QED BY <3>1, <3>2
  <2> QED BY <1>7, <2>1, <2>2, <2>3, RetryKeptByMessages
<1>8. ASSUME NEW s, Commit(m.batch, s), Marked(db[m.batch], s),
             s.state \notin { "created", "retry_scheduled" },
             m.step = "finalize" => s.state \in Settled,
             UNCHANGED worker \/ \E pc \in { "extract", "stream", "send", "failed" } :
                                     Become(w, Busy(pc, m))
      PROVE  RetryInv'
  <2>1. db'[m.batch] = s
    BY <1>2, <1>8 DEF Commit, TypeOK
  <2>2. /\ \A v \in Workers : v # w => worker'[v] = worker[v]
        /\ worker'[w].pc = "idle" \/ worker'[w].msg = m
    BY <1>1, <1>5, <1>8, BusyTask
  <2>3. \A n \in Message : UnderWay(n)' => UnderWay(n)
    BY <1>1, <1>4, <2>2 DEF UnderWay
  <2>4. ASSUME NEW n \in Message, WillRetry(n), db'[n.batch].state = "retry_scheduled"
        PROVE  WillRetry(n)'
    <3>1. n # m
      BY <1>8, <2>1, <2>4
    <3> QED BY <1>1, <1>3, <2>2, <2>4, <3>1 DEF WillRetry
  <2>5. \A v \in Workers : worker'[v].pc \in { "send", "failed" } /\ worker'[v].msg.step = "finalize" =>
            \/ worker[v].pc \in { "send", "failed" } /\ worker'[v].msg = worker[v].msg
            \/ db'[worker'[v].msg.batch].state \in Settled
    BY <1>8, <2>1, <2>2
  <2>6. s.failures = db[m.batch].failures
    BY <1>8 DEF Marked
  <2> QED BY <1>2, <1>8, <2>3, <2>4, <2>5, <2>6, RetryKeptByCommit
<1> QED BY <1>6, <1>7, <1>8, BeginCases DEF Begun

\* The middle transactions of acquire and parse, and their errors.
LEMMA MidwayRetries ==
  ASSUME IInv, RetryInv, RowsStep, NEW w \in Workers, worker[w].pc \in { "extract", "stream" },
         UNCHANGED << queue, outgoing >>,
         NEW t, Become(w, t), t.msg = worker[w].msg,
         NEW s, Commit(worker[w].msg.batch, s), s.failures = db[worker[w].msg.batch].failures,
         \/ s.state \notin { "created", "retry_scheduled" }
         \/ /\ s.state = db[worker[w].msg.batch].state /\ s.kind = db[worker[w].msg.batch].kind
            /\ t.pc \in { "stream", "failed" }
  PROVE  RetryInv'
<1> DEFINE m == worker[w].msg
<1>1. TypeOK /\ m \in Message /\ m.batch \in Batches /\ m.step # "finalize"
  BY MessageType DEF IInv, TaskInv
<1>2. worker'[w] = t /\ \A v \in Workers : v # w => worker'[v] = worker[v]
  BY <1>1 DEF TypeOK, Become
<1>3. db'[m.batch] = s
  BY <1>1 DEF Commit, TypeOK
<1>4. \A n \in Message : UnderWay(n)' => UnderWay(n)
  BY <1>2 DEF UnderWay
<1>5. ASSUME NEW n \in Message, WillRetry(n), db'[n.batch].state = "retry_scheduled"
      PROVE  WillRetry(n)'
  <2>1. CASE n = m
    <3>1. t.pc \in { "stream", "failed" }
      BY <1>3, <1>5, <2>1
    <3> QED BY <1>1, <1>2, <2>1, <3>1 DEF WillRetry
  <2>2. CASE n # m
    BY <1>2, <1>5, <2>2 DEF WillRetry
  <2> QED BY <2>1, <2>2
<1>6. \A v \in Workers : worker'[v].pc \in { "send", "failed" } /\ worker'[v].msg.step = "finalize" =>
          worker[v].pc \in { "send", "failed" } /\ worker'[v].msg = worker[v].msg
  BY <1>1, <1>2
<1>7. s.state \in { "created", "retry_scheduled" } => s.state = db[m.batch].state /\ s.kind = db[m.batch].kind
  OBVIOUS
<1> QED BY <1>1, <1>4, <1>5, <1>6, <1>7, RetryKeptByCommit

LEMMA LandRetries ==
  ASSUME IInv, RetryInv, RowsStep, NEW w \in Workers, Land(w)
  PROVE  RetryInv'
<1> DEFINE m == worker[w].msg
           r == db[m.batch]
<1>1. /\ TypeOK /\ worker[w].pc = "extract" /\ UNCHANGED << queue, outgoing >>
      /\ m \in Message /\ m.batch \in Batches /\ r \in Row
  BY MessageType DEF Land, WorkerUnchanged, IInv, TypeOK, TaskInv
<1>2. CASE Raise(w, m)
  <2>1. Commit(m.batch, r)
    BY <1>1, <1>2 DEF Raise, Commit, TypeOK
  <2> QED BY <1>1, <1>2, <2>1, BusyTask, MidwayRetries DEF Raise
<1>3. ASSUME NEW f, CommitAndSend(w, m, [ TransitionBatch(r, "received") EXCEPT !.file = f ])
      PROVE  RetryInv'
  <2>1. PICK q : q = TransitionBatch(r, "received")
    OBVIOUS
  <2>2. "received" \in ProcessingState
    BY DEF ProcessingState
  <2>3. q \in Row /\ q.state = "received" /\ q.failures = r.failures
    BY <1>1, <2>1, <2>2, TransitionMarks DEF Marked
  <2>4. PICK s : s = [ q EXCEPT !.file = f ]
    OBVIOUS
  <2>5. s.state = "received" /\ s.failures = r.failures
    BY <2>3, <2>4 DEF Row
  <2>6. Commit(m.batch, s) /\ Become(w, Busy("send", m))
    BY <1>3, <2>1, <2>4 DEF CommitAndSend
  <2> QED BY <1>1, <2>5, <2>6, BusyTask, MidwayRetries
<1> QED BY <1>2, <1>3 DEF Land

LEMMA InsertStagingChunkRetries ==
  ASSUME IInv, RetryInv, RowsStep, NEW w \in Workers, InsertStagingChunk(w)
  PROVE  RetryInv'
<1> DEFINE m == worker[w].msg
           r == db[m.batch]
<1>1. /\ TypeOK /\ worker[w].pc = "stream" /\ UNCHANGED << queue, outgoing >>
      /\ m \in Message /\ m.batch \in Batches /\ r \in Row /\ worker[w] \in Task
  BY MessageType DEF InsertStagingChunk, WorkerUnchanged, IInv, TypeOK, TaskInv
<1>2. PICK new, to, inserted :
        /\ Commit(m.batch, [ r EXCEPT !.staging =
                               [ k \in Keys |-> IF k \in new THEN "received" ELSE @[k] ] ])
        /\ Become(w, [ worker[w] EXCEPT !.cursor = to, !.inserted = @ + inserted ])
  BY DEF InsertStagingChunk
<1>3. PICK s : s = [ r EXCEPT !.staging = [ k \in Keys |-> IF k \in new THEN "received" ELSE @[k] ] ]
  OBVIOUS
<1>4. s.state = r.state /\ s.kind = r.kind /\ s.failures = r.failures
  BY <1>1, <1>3 DEF Row
<1>5. PICK t : t = [ worker[w] EXCEPT !.cursor = to, !.inserted = @ + inserted ]
  OBVIOUS
<1>6. t.pc = "stream" /\ t.msg = m
  BY <1>1, <1>5 DEF Task
<1>7. Commit(m.batch, s) /\ Become(w, t)
  BY <1>2, <1>3, <1>5
<1> QED BY <1>1, <1>4, <1>6, <1>7, MidwayRetries

LEMMA FinishParseRetries ==
  ASSUME IInv, RetryInv, RowsStep, NEW w \in Workers, FinishParse(w)
  PROVE  RetryInv'
<1> DEFINE m == worker[w].msg
           r == db[m.batch]
<1>1. /\ TypeOK /\ worker[w].pc = "stream" /\ UNCHANGED << queue, outgoing >>
      /\ m \in Message /\ m.batch \in Batches /\ r \in Row
  BY MessageType DEF FinishParse, WorkerUnchanged, IInv, TypeOK, TaskInv
<1>2. CASE Raise(w, m)
  <2>1. Commit(m.batch, r)
    BY <1>1, <1>2 DEF Raise, Commit, TypeOK
  <2> QED BY <1>1, <1>2, <2>1, BusyTask, MidwayRetries DEF Raise
<1>3. CASE CommitAndSend(w, m, [ TransitionBatch(r, "validating") EXCEPT
                                   !.parsed = TRUE,
                                   !.repeated = Len(File) - worker[w].inserted ])
  <2>1. PICK q : q = TransitionBatch(r, "validating")
    OBVIOUS
  <2>2. "validating" \in ProcessingState
    BY DEF ProcessingState
  <2>3. q \in Row /\ q.state = "validating" /\ q.failures = r.failures
    BY <1>1, <2>1, <2>2, TransitionMarks DEF Marked
  <2>4. PICK s : s = [ q EXCEPT !.parsed = TRUE, !.repeated = Len(File) - worker[w].inserted ]
    OBVIOUS
  <2>5. s.state = "validating" /\ s.failures = r.failures
    BY <2>3, <2>4 DEF Row
  <2>6. Commit(m.batch, s) /\ Become(w, Busy("send", m))
    BY <1>3, <2>1, <2>4 DEF CommitAndSend
  <2> QED BY <1>1, <2>5, <2>6, BusyTask, MidwayRetries
<1> QED BY <1>2, <1>3 DEF FinishParse

\* The following message is a first attempt.
LEMMA SendFollowingRetries ==
  ASSUME IInv, RetryInv, NEW w \in Workers, SendFollowing(w)
  PROVE  RetryInv'
<1> DEFINE m == worker[w].msg
           next == FirstTry(m.batch, FollowingStep[m.step])
<1>1. /\ TypeOK /\ worker[w].pc = "send" /\ UNCHANGED << db, outgoing >> /\ Become(w, Idle)
      /\ m \in Message /\ m.batch \in Batches /\ m.step \in Steps
  BY MessageType DEF SendFollowing, IInv, TaskInv
<1>2. worker'[w].pc = "idle" /\ \A v \in Workers : v # w => worker'[v] = worker[v]
  BY <1>1, IdleTask DEF TypeOK, Become
<1>3. \A n \in Message : /\ queue[n] > 0 => queue'[n] > 0
                         /\ queue'[n] > 0 => queue[n] > 0 \/ n.retries = 0
  <2>1. CASE m.step = "finalize"
    BY <2>1 DEF SendFollowing
  <2>2. CASE m.step # "finalize"
    <3>1. FollowingStep[m.step] \in Steps
      BY <1>1, <2>2 DEF FollowingStep, Steps
    <3>2. next \in Message /\ next.retries = 0
      BY <1>1, <3>1, NextMessage DEF FirstTry
    <3>3. queue' = [ queue EXCEPT ![next] = @ + 1 ]
      BY <2>2 DEF SendFollowing
    <3> HIDE DEF next
    <3> QED BY <1>1, <3>2, <3>3 DEF TypeOK
  <2> QED BY <2>1, <2>2
<1>4. \A n \in Message : UnderWay(n)' => UnderWay(n) \/ n.retries = 0
  BY <1>1, <1>2, <1>3 DEF UnderWay
<1>5. \A n \in Message : WillRetry(n) => WillRetry(n)'
  BY <1>1, <1>2, <1>3 DEF WillRetry
<1> QED BY <1>1, <1>2, <1>4, <1>5, RetryKeptByMessages

\* _record_failure moves every batch that is at work, and counts the attempt.
LEMMA FailedCounts ==
  ASSUME NEW r \in Row, RowInv(r), NEW step \in Steps
  PROVE  /\ \A j \in Steps : r.failures[j] <= Failed(r, step).failures[j]
         /\ Failed(r, step).state \in { r.state, "failed", "retry_scheduled" }
         /\ r.state \notin Settled /\ r.state # "created" =>
               /\ Failed(r, step).failures[step] = r.failures[step] + 1
               /\ Failed(r, step).state = IF r.failures[step] + 1 >= FinalAttempt
                                          THEN "failed" ELSE "retry_scheduled"
<1> DEFINE attempt == r.failures[step] + 1
           target == IF attempt >= FinalAttempt THEN "failed" ELSE "retry_scheduled"
<1>1. r.failures \in [ Steps -> Nat ] /\ r.dead \in SUBSET Steps /\ r.state \in ProcessingState
  BY DEF Row
<1>2. target \in { "failed", "retry_scheduled" } /\ target \in ProcessingState
  BY DEF ProcessingState
<1>3. PICK s : s = Failed(r, step)
  OBVIOUS
<1>4. CASE r.state \in Terminal \/ ~CanTransition(r, target)
  <2>1. s = r
    BY <1>3, <1>4 DEF Failed
  <2>2. r.state \notin Settled /\ r.state # "created" => CanTransition(r, target)
    <3>1. ASSUME r.state \notin Settled, r.state # "created" PROVE MayMove(r.state, target)
      BY <1>1, <1>2, <3>1
         DEF MayMove, Transitions, ProcessingState, Interruptible, Settled, Terminal
    <3>2. r.exec \in { NoExec, r.state }
      BY DEF RowInv
    <3> QED BY <3>1, <3>2 DEF CanTransition
  <2>3. r.state \in Terminal => r.state \in Settled
    BY DEF Settled
  <2> QED BY <1>1, <1>3, <1>4, <2>1, <2>2, <2>3
<1>5. CASE ~(r.state \in Terminal \/ ~CanTransition(r, target))
  <2>1. PICK t : t = TransitionBatch(r, target)
    OBVIOUS
  <2>2. t \in Row /\ t.state = target /\ t.failures = r.failures
    BY <1>2, <2>1, TransitionMarks DEF Marked
  <2>3. s = [ t EXCEPT !.failures[step] = attempt,
                       !.dead = IF attempt >= FinalAttempt THEN @ \cup { step } ELSE @ ]
    BY <1>3, <1>5, <2>1 DEF Failed
  <2>4. s.state = target /\ s.failures = [ r.failures EXCEPT ![step] = attempt ]
    BY <1>1, <2>2, <2>3 DEF Row
  <2> QED BY <1>1, <1>2, <1>3, <2>4
<1> QED BY <1>4, <1>5

LEMMA RecordFailureRetries ==
  ASSUME IInv, RetryInv, RowsStep, FinalAttempt <= MaxRetries + 1,
         NEW w \in Workers, RecordFailure(w)
  PROVE  RetryInv'
<1> DEFINE m == worker[w].msg
           r == db[m.batch]
           again == [ m EXCEPT !.retries = @ + 1 ]
<1>1. /\ TypeOK /\ worker[w].pc = "failed" /\ Become(w, Idle) /\ UNCHANGED outgoing
      /\ Commit(m.batch, Failed(r, m.step))
      /\ queue' = IF m.retries < MaxRetries THEN [ queue EXCEPT ![again] = @ + 1 ] ELSE queue
  BY DEF RecordFailure, WorkerUnchanged, IInv
<1>2. /\ m \in Message /\ m.batch \in Batches /\ m.step \in Steps
      /\ r \in Row /\ RowInv(r) /\ r.kind # "none"
  BY <1>1, Working, MessageType DEF Due
<1>3. m.retries \in Nat /\ MaxRetries \in Nat /\ FinalAttempt \in Nat /\ r.failures[m.step] \in Nat
  BY <1>2, MessageType, PipelineAssumption DEF Row
<1>4. PICK s : s = Failed(r, m.step)
  OBVIOUS
<1>5. \A c \in Batches : db'[c] = IF c = m.batch THEN s ELSE db[c]
  BY <1>1, <1>4 DEF TypeOK, Commit
<1>6. worker'[w].pc = "idle" /\ \A v \in Workers : v # w => worker'[v] = worker[v]
  BY <1>1, IdleTask DEF TypeOK, Become
<1>7. r.state # "created"
  BY <1>2 DEF RetryInv, Accepted
<1>8. /\ \A j \in Steps : r.failures[j] <= s.failures[j]
      /\ s.state \in { r.state, "failed", "retry_scheduled" }
  BY <1>2, <1>4, FailedCounts
<1>9. r.state \notin Settled =>
        /\ s.failures[m.step] = r.failures[m.step] + 1
        /\ s.state = IF r.failures[m.step] + 1 >= FinalAttempt THEN "failed" ELSE "retry_scheduled"
  BY <1>2, <1>4, <1>7, FailedCounts
<1>10. s.state \notin Settled => r.state \notin Settled /\ m.retries <= r.failures[m.step]
  <2> SUFFICES ASSUME s.state \notin Settled
               PROVE  r.state \notin Settled /\ m.retries <= r.failures[m.step]
    OBVIOUS
  <2>1. r.state \notin Settled
    BY <1>2, <1>5, SettledStays
  <2>2. UnderWay(m)
    BY <1>1 DEF UnderWay
  <2> QED BY <1>2, <2>1, <2>2 DEF RetryInv, Counted
<1>11. m.retries < MaxRetries =>
         /\ again \in Message /\ again.batch = m.batch /\ again.step = m.step
         /\ again.retries = m.retries + 1 /\ again # m
  BY <1>2, <1>3 DEF Message
<1> HIDE DEF again
<1>12. \A n \in Message : /\ queue[n] > 0 => queue'[n] > 0
                          /\ queue'[n] > 0 => queue[n] > 0 \/ (m.retries < MaxRetries /\ n = again)
  BY <1>1, <1>11 DEF TypeOK
<1>13. m.retries < MaxRetries => queue'[again] > 0
  BY <1>1, <1>11 DEF TypeOK
<1>14. \A c \in Batches : db'[c].kind # "none" => db'[c].state # "created"
  BY <1>5, <1>7, <1>8 DEF RetryInv, Accepted
<1>15. \A c \in Batches, j \in Steps : db[c].failures[j] <= db'[c].failures[j]
  <2>1. \A c \in Batches, j \in Steps : db[c].failures[j] \in Nat
    BY <1>1 DEF TypeOK, Row
  <2> QED BY <1>5, <1>8, <2>1
<1>16. ASSUME NEW n \in Message, UnderWay(n)', db'[n.batch].state \notin Settled
       PROVE  UnderWay(n) \/ n.retries <= db'[n.batch].failures[n.step]
  <2>1. CASE UnderWay(n)
    BY <2>1
  <2>2. CASE ~UnderWay(n)
    <3>1. m.retries < MaxRetries /\ n = again
      BY <1>1, <1>6, <1>12, <1>16, <2>2 DEF UnderWay
    <3>2. db'[n.batch] = s /\ n.step = m.step /\ n.retries = m.retries + 1
      BY <1>2, <1>5, <1>11, <3>1
    <3>3. m.retries <= r.failures[m.step] /\ s.failures[m.step] = r.failures[m.step] + 1
      BY <1>9, <1>10, <1>16, <3>2
    <3> QED BY <1>3, <3>2, <3>3
  <2> QED BY <2>1, <2>2
<1>17. \A v \in Workers : worker'[v].pc \in { "send", "failed" } /\ worker'[v].msg.step = "finalize" =>
           worker[v].pc \in { "send", "failed" } /\ worker'[v].msg = worker[v].msg
  BY <1>6
<1>18. ASSUME NEW c \in Batches, db'[c].state = "retry_scheduled"
       PROVE  \/ \E n \in Message : n.batch = c /\ WillRetry(n)'
              \/ /\ db[c].state = "retry_scheduled"
                 /\ \A n \in Message : n.batch = c /\ WillRetry(n) => WillRetry(n)'
  <2>1. CASE c = m.batch
    <3>1. s.state = "retry_scheduled" /\ s.state \notin Settled
      BY <1>5, <1>18, <2>1 DEF Settled, Terminal
    <3>2. r.state \notin Settled /\ m.retries <= r.failures[m.step]
      BY <1>10, <3>1
    <3>3. ~(r.failures[m.step] + 1 >= FinalAttempt)
      BY <1>9, <3>1, <3>2
    <3>4. m.retries < MaxRetries
      BY <1>3, <3>2, <3>3
    <3>5. m.step # "finalize"
      BY <1>1, <3>2 DEF RetryInv, Finalized
    <3>6. PICK n \in Message : n = again
      BY <1>11, <3>4
    <3>7. n.batch = c /\ n.step = m.step /\ queue'[n] > 0
      BY <1>11, <1>13, <2>1, <3>4, <3>6
    <3>8. WillRetry(n)'
      BY <3>5, <3>7 DEF WillRetry
    <3> QED BY <3>7, <3>8
  <2>2. CASE c # m.batch
    <3>1. db[c].state = "retry_scheduled"
      BY <1>5, <1>18, <2>2
    <3>2. ASSUME NEW n \in Message, n.batch = c, WillRetry(n) PROVE WillRetry(n)'
      BY <1>6, <1>12, <2>2, <3>2 DEF WillRetry
    <3> QED BY <3>1, <3>2
  <2> QED BY <2>1, <2>2
<1> QED BY <1>14, <1>15, <1>16, <1>17, <1>18, RetryKept

\* Errors, deaths and second deliveries leave the message with a worker or in
\* Redis.
LEMMA FailureRetries ==
  ASSUME IInv, RetryInv, "finalize" \notin FaultySteps, Failure
  PROVE  RetryInv'
<1>1. TypeOK
  BY DEF IInv
<1>2. ASSUME NEW w \in Workers, NEW m \in Message, FaultOnDelivery(w, m)
      PROVE  RetryInv'
  <2>1. /\ UNCHANGED << db, outgoing >> /\ Become(w, Busy("failed", m))
        /\ m.step # "finalize" /\ worker[w].pc = "idle" /\ queue[m] > 0
        /\ queue' = [ queue EXCEPT ![m] = @ - 1 ]
    BY <1>2 DEF FaultOnDelivery, FaultUnchanged, MayFault
  <2>2. /\ worker'[w].pc = "failed" /\ worker'[w].msg = m
        /\ \A v \in Workers : v # w => worker'[v] = worker[v]
    BY <1>1, <2>1, BusyTask DEF TypeOK, Become
  <2>3. \A n \in Message : /\ queue'[n] > 0 => queue[n] > 0
                           /\ n # m => queue'[n] = queue[n]
    BY <1>1, <2>1 DEF TypeOK
  <2>4. \A n \in Message : UnderWay(n)' => UnderWay(n)
    BY <2>1, <2>2, <2>3 DEF UnderWay
  <2>5. \A n \in Message : n # m /\ WillRetry(n) => WillRetry(n)'
    BY <2>1, <2>2, <2>3 DEF WillRetry
  <2>6. WillRetry(m)'
    BY <2>1, <2>2 DEF WillRetry
  <2>7. \A v \in Workers : worker'[v].pc \in { "send", "failed" } /\ worker'[v].msg.step = "finalize" =>
            worker[v].pc \in { "send", "failed" } /\ worker'[v].msg = worker[v].msg
    BY <2>1, <2>2
  <2> QED BY <2>1, <2>4, <2>5, <2>6, <2>7, RetryKeptByMessages
<1>3. ASSUME NEW w \in Workers, FaultMidway(w) \/ SendFails(w)
      PROVE  RetryInv'
  <2> DEFINE m == worker[w].msg
  <2>1. /\ UNCHANGED << db, queue, outgoing >> /\ Become(w, Busy("failed", m))
        /\ worker[w].pc \in { "extract", "stream", "send" }
        /\ worker[w].pc = "send" \/ m.step # "finalize"
    BY <1>3 DEF FaultMidway, SendFails, FaultUnchanged, MayFault
  <2>2. m \in Message
    BY <2>1, Working
  <2>3. /\ worker'[w].pc = "failed" /\ worker'[w].msg = m
        /\ \A v \in Workers : v # w => worker'[v] = worker[v]
    BY <1>1, <2>1, <2>2, BusyTask DEF TypeOK, Become
  <2>4. \A n \in Message : UnderWay(n)' => UnderWay(n)
    BY <2>1, <2>3 DEF UnderWay
  <2>5. \A n \in Message : WillRetry(n) => WillRetry(n)'
    BY <2>1, <2>3 DEF WillRetry
  <2>6. \A v \in Workers : worker'[v].pc \in { "send", "failed" } /\ worker'[v].msg.step = "finalize" =>
            worker[v].pc \in { "send", "failed" } /\ worker'[v].msg = worker[v].msg
    BY <2>1, <2>3
  <2> QED BY <2>1, <2>4, <2>5, <2>6, RetryKeptByMessages
<1>4. ASSUME NEW w \in Workers, Crash(w) \/ Redeliver(w)
      PROVE  RetryInv'
  <2> DEFINE m == worker[w].msg
  <2>1. /\ UNCHANGED << db, outgoing >> /\ worker[w].pc # "idle"
        /\ queue' = [ queue EXCEPT ![m] = @ + 1 ]
        /\ Become(w, Idle) \/ UNCHANGED worker
    BY <1>4 DEF Crash, Redeliver
  <2>2. m \in Message
    BY <2>1, Working
  <2>3. /\ worker'[w] = worker[w] \/ worker'[w].pc = "idle"
        /\ \A v \in Workers : v # w => worker'[v] = worker[v]
    BY <1>1, <2>1, IdleTask DEF TypeOK, Become
  <2>4. /\ queue'[m] > 0
        /\ \A n \in Message : /\ queue[n] > 0 => queue'[n] > 0
                              /\ n # m => queue'[n] = queue[n]
    <3> HIDE DEF m
    <3> QED BY <1>1, <2>1, <2>2 DEF TypeOK
  <2>5. \A n \in Message : UnderWay(n)' => UnderWay(n)
    BY <2>1, <2>3, <2>4 DEF UnderWay
  <2>6. \A n \in Message : WillRetry(n) => WillRetry(n)'
    BY <2>3, <2>4 DEF WillRetry
  <2>7. \A v \in Workers : worker'[v].pc \in { "send", "failed" } /\ worker'[v].msg.step = "finalize" =>
            worker[v].pc \in { "send", "failed" } /\ worker'[v].msg = worker[v].msg
    BY <2>3
  <2> QED BY <2>1, <2>5, <2>6, <2>7, RetryKeptByMessages
<1> QED BY <1>2, <1>3, <1>4 DEF Failure

\* Handlers send first attempts, and do not touch a batch that waits, save to
\* cancel it, to flag it or to put a rejected row back.
LEMMA ApiRetriesByCommit ==
  ASSUME IInv, RetryInv, RowsStep, UNCHANGED << queue, worker >>,
         \A n \in outgoing' : n \in outgoing \/ n.retries = 0,
         NEW b \in Batches, NEW s, Commit(b, s), s.failures = db[b].failures,
         s.state \in { "created", "retry_scheduled" } => s.state = db[b].state /\ s.kind = db[b].kind
  PROVE  RetryInv'
<1>1. \A n \in Message : UnderWay(n)' => UnderWay(n) \/ n.retries = 0
  BY DEF UnderWay
<1>2. \A n \in Message : WillRetry(n) => WillRetry(n)'
  BY DEF WillRetry
<1> QED BY <1>1, <1>2, RetryKeptByCommit

LEMMA ApiRetries ==
  ASSUME IInv, RetryInv, RowsStep, Api
  PROVE  RetryInv'
<1>1. TypeOK
  BY DEF IInv
<1>2. ASSUME NEW b \in Batches, NEW p \in Batches,
             StartSync(b) \/ UploadSourceFile(b) \/ ReprocessBatch(p, b)
      PROVE  RetryInv'
  <2>1. PICK step \in Steps : /\ outgoing' = outgoing \cup { FirstTry(b, step) }
                              /\ UNCHANGED << queue, worker >>
    BY <1>2 DEF StartSync, UploadSourceFile, ReprocessBatch, ApiUnchanged, Steps
  <2>2. \A n \in outgoing' : n \in outgoing \/ n.retries = 0
    BY <2>1 DEF FirstTry
  <2>3. db[b] = EmptyRow
    BY <1>2 DEF StartSync, UploadSourceFile, ReprocessBatch, IInv, RowInv
  <2>4. PICK s : /\ Commit(b, s) /\ s.failures = EmptyRow.failures
                 /\ s.state \in { "queued", "received" }
    <3>1. CASE StartSync(b)
      <4>1. PICK s : s = [ EmptyRow EXCEPT !.kind = "sync", !.state = "queued", !.exec = "queued" ]
        OBVIOUS
      <4>2. s.failures = EmptyRow.failures /\ s.state \in { "queued", "received" }
        BY <4>1 DEF EmptyRow
      <4> QED BY <3>1, <4>1, <4>2 DEF StartSync
    <3>2. CASE UploadSourceFile(b)
      <4>1. PICK s : s = [ EmptyRow EXCEPT !.kind = "upload", !.state = "received", !.file = b ]
        OBVIOUS
      <4>2. s.failures = EmptyRow.failures /\ s.state \in { "queued", "received" }
        BY <4>1 DEF EmptyRow
      <4> QED BY <3>2, <4>1, <4>2 DEF UploadSourceFile
    <3>3. CASE ReprocessBatch(p, b)
      <4>1. PICK s : s = [ EmptyRow EXCEPT !.kind = "replay", !.state = "queued",
                                             !.file = db[p].file ]
        OBVIOUS
      <4>2. s.failures = EmptyRow.failures /\ s.state \in { "queued", "received" }
        BY <4>1 DEF EmptyRow
      <4> QED BY <3>3, <4>1, <4>2 DEF ReprocessBatch
    <3> QED BY <1>2, <3>1, <3>2, <3>3
  <2> QED BY <2>1, <2>2, <2>3, <2>4, ApiRetriesByCommit
<1>3. ASSUME NEW m \in outgoing, ApiSend(m) \/ ApiCrash(m) \/ ApiSendFails(m)
      PROVE  RetryInv'
  <2>1. /\ UNCHANGED << db, worker >> /\ outgoing' = outgoing \ { m }
        /\ queue' = queue \/ queue' = [ queue EXCEPT ![m] = @ + 1 ]
    BY <1>3 DEF ApiSend, ApiCrash, ApiSendFails
  <2>2. m \in Message
    BY <1>1 DEF TypeOK
  <2>3. \A n \in Message : /\ queue[n] > 0 => queue'[n] > 0
                           /\ queue'[n] > 0 => queue[n] > 0 \/ n = m
    BY <1>1, <2>1, <2>2 DEF TypeOK
  <2>4. \A n \in Message : UnderWay(n)' => UnderWay(n)
    BY <2>1, <2>3 DEF UnderWay
  <2>5. \A n \in Message : WillRetry(n) => WillRetry(n)'
    BY <2>1, <2>3 DEF WillRetry
  <2> QED BY <2>1, <2>4, <2>5, RetryKeptByMessages
<1>4. ASSUME NEW b \in Batches, CancelRead(b) \/ CancelCommit(b)
      PROVE  RetryInv'
  <2>1. UNCHANGED << queue, worker, outgoing >> /\ db[b] \in Row
    BY <1>1, <1>4 DEF CancelRead, CancelCommit, ApiUnchanged, TypeOK
  <2>2. PICK t : t = TransitionBatch(db[b], "cancelled")
    OBVIOUS
  <2>3. t \in Row /\ t.state = "cancelled" /\ t.failures = db[b].failures
    <3>1. "cancelled" \in ProcessingState
      BY DEF ProcessingState
    <3> QED BY <2>1, <2>2, <3>1, TransitionMarks DEF Marked
  <2>4. \E s : /\ Commit(b, s) /\ s.failures = db[b].failures
               /\ \/ s.state = "cancelled"
                  \/ s.state = db[b].state /\ s.kind = db[b].kind
    <3>1. CASE UNCHANGED db
      <4>1. Commit(b, db[b])
        BY <1>1, <3>1 DEF Commit, TypeOK
      <4> QED BY <4>1
    <3>2. CASE Commit(b, [ db[b] EXCEPT !.cancel = TRUE ])
      <4>1. PICK s : s = [ db[b] EXCEPT !.cancel = TRUE ]
        OBVIOUS
      <4>2. s.failures = db[b].failures /\ s.state = db[b].state /\ s.kind = db[b].kind
        BY <2>1, <4>1 DEF Row
      <4> QED BY <3>2, <4>1, <4>2
    <3>3. CASE Commit(b, [ t EXCEPT !.cancel = TRUE ])
      <4>1. PICK s : s = [ t EXCEPT !.cancel = TRUE ]
        OBVIOUS
      <4>2. s.failures = db[b].failures /\ s.state = "cancelled"
        BY <2>3, <4>1 DEF Row
      <4> QED BY <3>3, <4>1, <4>2
    <3> QED BY <1>4, <2>2, <3>1, <3>2, <3>3 DEF CancelRead, CancelCommit
  <2> QED BY <2>1, <2>4, ApiRetriesByCommit
<1>5. ASSUME NEW b \in Batches, NEW k \in Keys, CorrectRejectedRecord(b, k)
      PROVE  RetryInv'
  <2>1. /\ UNCHANGED << queue, worker, outgoing >> /\ db[b] \in Row
        /\ Commit(b, [ db[b] EXCEPT !.staging[k] = "received" ])
    BY <1>1, <1>5 DEF CorrectRejectedRecord, ApiUnchanged, TypeOK
  <2>2. PICK s : s = [ db[b] EXCEPT !.staging[k] = "received" ]
    OBVIOUS
  <2>3. s.failures = db[b].failures /\ s.state = db[b].state /\ s.kind = db[b].kind
    BY <2>1, <2>2 DEF Row
  <2> QED BY <2>1, <2>2, <2>3, ApiRetriesByCommit
<1>6. ASSUME NEW b \in Batches, UploadRefused(b)
      PROVE  RetryInv'
  <2>1. UNCHANGED << db, queue, worker, outgoing >>
    BY <1>6 DEF UploadRefused
  <2>2. \A n \in Message : (UnderWay(n)' => UnderWay(n)) /\ (WillRetry(n) => WillRetry(n)')
    BY <2>1 DEF UnderWay, WillRetry
  <2> QED BY <2>1, <2>2, RetryKeptByMessages
<1> QED BY <1>2, <1>3, <1>4, <1>5, <1>6 DEF Api

LEMMA InitRetryInv == Init => RetryInv
<1> SUFFICES ASSUME Init PROVE RetryInv
  OBVIOUS
<1>1. \A b \in Batches : db[b] = EmptyRow
  BY DEF Init
<1>2. EmptyRow.kind = "none" /\ EmptyRow.state = "created"
  BY DEF EmptyRow
<1>3. \A w \in Workers : worker[w].pc = "idle"
  BY IdleTask DEF Init
<1>4. \A m \in Message : ~UnderWay(m)
  BY <1>3 DEF Init, UnderWay
<1> QED BY <1>1, <1>2, <1>3, <1>4 DEF RetryInv, Accepted, Counted, Finalized, Awaited

LEMMA NextRetries ==
  ASSUME IInv, RetryInv, [Next]_vars,
         "finalize" \notin FaultySteps, FinalAttempt <= MaxRetries + 1
  PROVE  RetryInv'
<1>1. RowsStep
  BY NextStep
<1>2. CASE UNCHANGED vars
  <2>1. UNCHANGED << db, queue, worker, outgoing >>
    BY <1>2 DEF vars
  <2>2. \A n \in Message : (UnderWay(n)' => UnderWay(n)) /\ (WillRetry(n) => WillRetry(n)')
    BY <2>1 DEF UnderWay, WillRetry
  <2> QED BY <2>1, <2>2, RetryKeptByMessages
<1>3. CASE Api
  BY <1>1, <1>3, ApiRetries
<1>4. CASE \E w \in Workers, m \in Message : Begin(w, m)
  BY <1>1, <1>4, BeginRetries
<1>5. CASE \E w \in Workers : Continue(w)
  BY <1>1, <1>5, LandRetries, InsertStagingChunkRetries, FinishParseRetries,
     SendFollowingRetries, RecordFailureRetries DEF Continue
<1>6. CASE Failure
  BY <1>6, FailureRetries
<1> QED BY <1>2, <1>3, <1>4, <1>5, <1>6 DEF Next

\* A batch in RETRY_SCHEDULED is never forgotten (_record_failure and the
\* retries of the actors): whatever dies or is delivered twice, a message or a
\* worker will retry its step.  It takes as many retries as final_attempt
\* leaves, and holds as long as finalize itself meets no transient error.
THEOREM RetriesScheduled ==
  ASSUME "finalize" \notin FaultySteps, FinalAttempt <= MaxRetries + 1
  PROVE  Spec => []RetryIsScheduled
<1>1. IInv /\ RetryInv /\ [Next]_vars => RetryInv'
  BY NextRetries
<1>2. RetryInv => RetryIsScheduled
  BY DEF RetryInv, Awaited, WillRetry, RetryIsScheduled, Pending, UnderWay
<1> QED BY InitRetryInv, Invariance, <1>1, <1>2, PTL DEF Spec
=============================================================================
