-------------------------- MODULE WarehouseContract --------------------------
(***************************************************************************)
(* What the warehouse of a tenant promises to those who read it, whatever  *)
(* the messages, threads, connections and locks behind a refresh: versions *)
(* come one by one, each has all that the one before had and the batch it  *)
(* was asked for, and none is published for a job that is being cancelled. *)
(***************************************************************************)
EXTENDS Naturals

CONSTANTS
    Jobs,       \* refresh jobs, those of batches among them
    Batches,
    Window      \* the batches whose events a job reloads

VARIABLES
    arrived,     \* batches whose rows are canonical
    version,     \* of the data
    facts,       \* the batches that the facts of this version come from
    completed,   \* jobs reported as completed
    cancelling   \* jobs that a user was told are being cancelled

contract == << arrived, version, facts, completed, cancelling >>

Init ==
    /\ arrived = {}
    /\ version = 0
    /\ facts = {}
    /\ completed = {}
    /\ cancelling = {}

Arrive(b) ==
    /\ arrived' = arrived \cup { b }
    /\ UNCHANGED << version, facts, completed, cancelling >>

Cancel(j) ==
    /\ j \notin completed
    /\ cancelling' = cancelling \cup { j }
    /\ UNCHANGED << arrived, version, facts, completed >>

\* What a refresh has read may be older than what has arrived, but not older
\* than what is published.
Publish(j, read) ==
    /\ j \notin cancelling
    /\ facts \subseteq read /\ read \subseteq arrived
    /\ j \in Batches => j \in read
    /\ version' = version + 1
    /\ facts' = (facts \ Window[j]) \cup (read \cap Window[j])
    /\ completed' = completed \cup { j }
    /\ UNCHANGED << arrived, cancelling >>

\* A late delivery that fails reports a completed job as failed; what the job
\* published stays.
Retract(j) ==
    /\ completed' = completed \ { j }
    /\ UNCHANGED << arrived, version, facts, cancelling >>

Next ==
    \/ \E b \in Batches : Arrive(b)
    \/ \E j \in Jobs : Cancel(j) \/ Retract(j) \/ \E read \in SUBSET Batches : Publish(j, read)

Spec == Init /\ [][Next]_contract
=============================================================================
