-------------------------- MODULE MCProductServices -------------------------
(* Small instances of the services for TLC. *)
EXTENDS ProductServices

\* A verification, and an invitation that is sent twice.
MCKeyOf == [m \in Mails |-> IF m = "verify" THEN "token" ELSE "invitation"]

MCOperations == {"register", "verify", "resend", "login", "forgot", "reset", "change",
                 "revoke", "revoke others", "revoke all"}
=============================================================================
