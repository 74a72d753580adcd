----------------------- MODULE ProcessingStateMachine -----------------------
(***************************************************************************)
(* The states of an import batch and the moves between them, as the domain *)
(* table _TRANSITIONS and the database trigger                             *)
(* validate_integration_state_transition both give them.                   *)
(***************************************************************************)

ProcessingState ==
    { "created", "queued", "connecting", "extracting", "received",
      "validating", "mapping", "normalizing", "loading", "completed",
      "completed_with_warnings", "failed", "cancelled", "quarantined",
      "retry_scheduled" }

Terminal == { "completed", "completed_with_warnings", "cancelled" }

\* The states in which a connector or a worker is at work on the batch.
Interruptible == { "cancelled", "retry_scheduled", "failed" }

Transitions ==
    [ s \in ProcessingState |->
        CASE s = "created"         -> { "queued", "cancelled", "failed" }
          [] s = "queued"          -> { "connecting", "received" } \cup Interruptible
          [] s = "connecting"      -> { "extracting" } \cup Interruptible
          [] s = "extracting"      -> { "received" } \cup Interruptible
          [] s = "received"        -> { "validating" } \cup Interruptible
          [] s = "validating"      -> { "mapping", "quarantined" } \cup Interruptible
          [] s = "mapping"         -> { "normalizing", "quarantined" } \cup Interruptible
          [] s = "normalizing"     -> { "loading", "quarantined" } \cup Interruptible
          [] s = "loading"         -> { "completed", "completed_with_warnings",
                                        "quarantined" } \cup Interruptible
          [] s = "retry_scheduled" -> { "queued", "connecting", "received",
                                        "validating", "mapping", "normalizing",
                                        "loading", "cancelled", "failed" }
          [] s = "quarantined"     -> { "queued", "cancelled", "failed" }
          [] s = "failed"          -> { "queued", "cancelled" }
          [] OTHER                 -> {} ]

\* assert_transition: a state may always be "moved" to itself.
MayMove(from, to) == from = to \/ to \in Transitions[from]
=============================================================================
