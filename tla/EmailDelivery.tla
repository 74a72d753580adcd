--------------------------- MODULE EmailDelivery ----------------------------
(***************************************************************************)
(* E-mails from the commit of the request that wants one to the mailbox:   *)
(* a message to the worker, at least once, and a marker in Redis under the *)
(* idempotency key of the e-mail, set before it is written and removed     *)
(* when writing fails.  The keys of verification and reset e-mails name    *)
(* their token; an invitation that is sent again has the key of its first  *)
(* e-mail, with another token in it.                                       *)
(***************************************************************************)
EXTENDS Naturals, FiniteSets

CONSTANTS
    Mails,          \* e-mails that are asked for
    KeyOf,          \* the idempotency key of each
    FinalDelivery,  \* attempts of the actor (6 in the code)
    MaxDeaths       \* bound: workers that die at work

ASSUME EmailAssumption == IsFiniteSet(Mails)

VARIABLES
    mail,       \* "wanted", "queued", "marked", "written", "done" or "dropped"
    delivery,   \* the attempt a mail is at
    marked,     \* the keys whose marker is set
    mailbox,    \* how often a mail was written
    ended,      \* history: how often the marker of a key passed
    lost,       \* history: keys of which a mail was lost to an error
    deaths

emails == <<mail, delivery, marked, mailbox, ended, lost, deaths>>

Keys == {KeyOf[m] : m \in Mails}

EmailInit ==
    /\ mail = [m \in Mails |-> "wanted"]
    /\ delivery = [m \in Mails |-> 1]
    /\ marked = {}
    /\ mailbox = [m \in Mails |-> 0]
    /\ ended = [k \in Keys |-> 0]
    /\ lost = {}
    /\ deaths = 0

\* After the commit; an error of the send is logged and the mail is lost.
EnqueueEmail(m) ==
    /\ mail[m] = "wanted"
    /\ \/ mail' = [mail EXCEPT ![m] = "queued"] /\ UNCHANGED lost
       \/ mail' = [mail EXCEPT ![m] = "dropped"] /\ lost' = lost \cup {KeyOf[m]}
    /\ UNCHANGED <<delivery, marked, mailbox, ended, deaths>>

\* The marker left to the end of the delivery.
MarkerUnset(m) == marked' = marked

\* SET NX.
MarkerSet(m) == marked' = marked \cup {KeyOf[m]}

DeliverEmail(m) ==
    /\ mail[m] = "queued"
    /\ KeyOf[m] \notin marked
    /\ MarkerSet(m)
    /\ mail' = [mail EXCEPT ![m] = "marked"]
    /\ UNCHANGED <<delivery, mailbox, ended, lost, deaths>>

\* A message whose key is marked is taken for a duplicate.
SuppressDuplicate(m) ==
    /\ mail[m] = "queued"
    /\ KeyOf[m] \in marked
    /\ mail' = [mail EXCEPT ![m] = "done"]
    /\ UNCHANGED <<delivery, marked, mailbox, ended, lost, deaths>>

WriteEmail(m) ==
    /\ mail[m] = "marked"
    /\ mail' = [mail EXCEPT ![m] = "written"]
    /\ mailbox' = [mailbox EXCEPT ![m] = @ + 1]
    /\ UNCHANGED <<delivery, marked, ended, lost, deaths>>

\* The actor raises: its message is retried, until the attempts are used up.
Raises(m) ==
    IF delivery[m] < FinalDelivery
    THEN /\ mail' = [mail EXCEPT ![m] = "queued"]
         /\ delivery' = [delivery EXCEPT ![m] = @ + 1]
    ELSE /\ mail' = [mail EXCEPT ![m] = "dropped"]
         /\ UNCHANGED delivery

LosesUnless(retried, m) == lost' = IF retried THEN lost ELSE lost \cup {KeyOf[m]}

\* Redis is away when the marker is to be set.
MarkingFails(m) ==
    /\ mail[m] = "queued"
    /\ Raises(m)
    /\ LosesUnless(delivery[m] < FinalDelivery, m)
    /\ UNCHANGED <<marked, mailbox, ended, deaths>>

\* The marker is removed for the retry, unless Redis is away then.
WritingFails(m) ==
    /\ mail[m] = "marked"
    /\ Raises(m)
    /\ \E cleared \in BOOLEAN :
         /\ marked' = IF cleared THEN marked \ {KeyOf[m]} ELSE marked
         /\ LosesUnless(cleared /\ delivery[m] < FinalDelivery, m)
    /\ UNCHANGED <<mailbox, ended, deaths>>

Acknowledge(m) ==
    /\ mail[m] = "written"
    /\ mail' = [mail EXCEPT ![m] = "done"]
    /\ UNCHANGED <<delivery, marked, mailbox, ended, lost, deaths>>

\* A worker dies: its message is delivered again, and the marker stays.
WorkerDies(m) ==
    /\ mail[m] \in {"marked", "written"}
    /\ deaths < MaxDeaths
    /\ deaths' = deaths + 1
    /\ mail' = [mail EXCEPT ![m] = "queued"]
    /\ lost' = IF mail[m] = "marked" THEN lost \cup {KeyOf[m]} ELSE lost
    /\ UNCHANGED <<delivery, marked, mailbox, ended>>

\* A day passes; no delivery is at work that long.
MarkerEnds(k) ==
    /\ k \in marked
    /\ \A m \in Mails : KeyOf[m] = k => mail[m] \notin {"marked", "written"}
    /\ ended[k] = 0
    /\ ended' = [ended EXCEPT ![k] = 1]
    /\ marked' = marked \ {k}
    /\ UNCHANGED <<mail, delivery, mailbox, lost, deaths>>

EmailNext ==
    \/ \E m \in Mails :
         EnqueueEmail(m) \/ DeliverEmail(m) \/ SuppressDuplicate(m) \/ MarkingFails(m)
         \/ WriteEmail(m) \/ WritingFails(m) \/ Acknowledge(m) \/ WorkerDies(m)
    \/ \E k \in Keys : MarkerEnds(k)

----------------------------------------------------------------------------

Written(k) == {m \in Mails : KeyOf[m] = k /\ mailbox[m] > 0}

\* However often a message comes and wherever a worker dies, the e-mails of
\* one key are written once in the life of a marker, and a settled e-mail
\* whose key was never written was lost to an error, a refused send, a marker
\* that could not be removed or a death between the marker and the file
\* (email/tasks.py:27-50).
MailedOnceOrLost ==
    \A k \in Keys :
        /\ \A m \in Mails : KeyOf[m] = k => mailbox[m] <= 1 + ended[k]
        /\ Cardinality(Written(k)) <= 1 + ended[k]
        /\ (\A m \in Mails : KeyOf[m] = k => mail[m] \in {"done", "dropped"})
             => Written(k) # {} \/ k \in lost
=============================================================================
