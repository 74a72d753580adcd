---------------------------- MODULE BatchContract ----------------------------
(***************************************************************************)
(* What an import batch promises to the rest of the platform, whatever the *)
(* steps, messages, retries and workers behind it: rows become canonical   *)
(* only while the batch is open, a completed batch has all of them, and    *)
(* completed and cancelled are for ever.                                   *)
(***************************************************************************)
CONSTANTS
    Batches,    \* identifiers of import batches
    Keys        \* the rows of the imported file

VARIABLES
    phase,      \* how far each batch has come
    canonical   \* the rows of each batch in the canonical model

contract == << phase, canonical >>

Phases == { "absent", "open", "completed", "quarantined", "failed", "cancelled" }

ContractTypeOK ==
    /\ phase \in [ Batches -> Phases ]
    /\ canonical \in [ Batches -> SUBSET Keys ]

Init ==
    /\ phase = [ b \in Batches |-> "absent" ]
    /\ canonical = [ b \in Batches |-> {} ]

Move(b, from, to) ==
    /\ phase[b] \in from
    /\ phase' = [ phase EXCEPT ![b] = to ]
    /\ UNCHANGED canonical

Accept(b) == Move(b, { "absent" }, "open")

Publish(b, rows) ==
    /\ phase[b] = "open"
    /\ canonical' = [ canonical EXCEPT ![b] = @ \cup rows ]
    /\ UNCHANGED phase

Complete(b) == canonical[b] = Keys /\ Move(b, { "open" }, "completed")

\* A batch whose rows did not pass, or that met an error too many, is set
\* aside with what it has published; a late error may still fail it.
Quarantine(b) == Move(b, { "open" }, "quarantined")

Fail(b) == Move(b, { "open", "quarantined" }, "failed")

Cancel(b) == Move(b, { "open", "quarantined", "failed" }, "cancelled")

Next ==
    \E b \in Batches :
        \/ Accept(b) \/ Complete(b) \/ Quarantine(b) \/ Fail(b) \/ Cancel(b)
        \/ \E rows \in SUBSET Keys : Publish(b, rows)

Spec == Init /\ [][Next]_contract
=============================================================================
