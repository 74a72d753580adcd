-------------------------- MODULE AccountSessions ---------------------------
(***************************************************************************)
(* One account: its registration, its password, its sessions and its       *)
(* one-time tokens, under requests that overlap.  A request is a           *)
(* transaction at READ COMMITTED; each of its steps is a statement.        *)
(*                                                                         *)
(* A row that a request has locked or written belongs to it until it ends; *)
(* what it does to its rows is seen when it commits.  Requests that wait   *)
(* for each other are a deadlock, and PostgreSQL aborts one.               *)
(*                                                                         *)
(* A password is named by the request that set it; a session and a token   *)
(* by the request that made it.                                            *)
(***************************************************************************)
EXTENDS Naturals, FiniteSets

CONSTANTS
    Requests,        \* numbered as they arrive
    OldSessions,     \* of an account that exists at the start
    Operations,      \* what a request may be
    OldPassword,
    None

ASSUME AccountAssumption ==
    /\ IsFiniteSet(Requests)
    /\ OldSessions \cap Requests = {}
    /\ Operations \subseteq {"register", "verify", "resend", "login", "forgot", "reset", "change",
                           "revoke", "revoke others", "revoke all"}

VARIABLES
    status,      \* of the user: "none", "pending" or "active"
    password,
    sessions,    \* id -> [live, proved]: the password its holder has proved
    tokens,      \* id -> [purpose, live]
    request,
    overlapped,  \* history: a login and a change of password at one time
    together     \* history: two requests for a token at one time

account == <<status, password, sessions, tokens, request, overlapped, together>>

User == <<"user">>
SessionRow(s) == <<"session", s>>
TokenRow(t) == <<"token", t>>

LiveSessions == {s \in DOMAIN sessions : sessions[s].live}
LiveTokens(purpose) == {t \in DOMAIN tokens : tokens[t].purpose = purpose /\ tokens[t].live}

New == [operation |-> None, step |-> "new", on |-> None, read |-> None, found |-> {}, held |-> {}]

AccountInit ==
    /\ \/ status = "none" /\ sessions = << >>
       \/ status = "active" /\ sessions = [s \in OldSessions |-> [live |-> TRUE, proved |-> OldPassword]]
    /\ password = OldPassword
    /\ tokens = << >>
    /\ request = [r \in Requests |-> New]
    /\ overlapped = FALSE
    /\ together = FALSE

----------------------------------------------------------------------------
(* Rows and the requests that wait for them.                               *)

Ended(r) == request[r].step \in {"new", "done"}

\* The rows the next statement of a request takes.
Wants(r) ==
    CASE request[r].step = "session" -> {SessionRow(request[r].on)}
      [] request[r].step = "token" -> {TokenRow(request[r].on)}
      [] request[r].step = "user" -> {User}
      [] request[r].step \in {"sessions", "tokens"} -> request[r].found
      [] OTHER -> {}

\* An insert of a session or a token refers to the user and waits for whoever
\* holds that row FOR UPDATE; a plain UPDATE of it does not matter.
Inserts == {"login", "forgot", "resend"}
ForUpdate == {"verify", "reset"}
WaitsFor(r, q) ==
    /\ r # q
    /\ \/ Wants(r) \cap request[q].held # {}
       \/ /\ request[r].step = "commit" /\ request[r].operation \in Inserts
          /\ request[q].operation \in ForUpdate /\ User \in request[q].held
Free(r) == \A q \in Requests : ~WaitsFor(r, q)

\* The statement that locks rows, and the step after it.
Takes(r, step) ==
    /\ Free(r)
    /\ request' = [request EXCEPT ![r].held = @ \cup Wants(r), ![r].step = step]

Ends(r) == request' = [request EXCEPT ![r] = [New EXCEPT !.step = "done"]]

Changing == {"change", "reset"}
Making == {"forgot", "resend"}
Mailing == Making \cup {"register"}
PurposeOf(operation) == IF operation = "forgot" THEN "reset" ELSE "verify"

\* Two requests of the kinds are at work.
AtWork(kinds) == {r \in Requests : ~Ended(r) /\ request[r].operation \in kinds}
Noted ==
    /\ overlapped' = (overlapped \/ (AtWork({"login"})' # {} /\ AtWork(Changing)' # {}))
    /\ together' = (together \/ Cardinality(AtWork(Making)') > 1)

Frame == UNCHANGED <<status, password, sessions, tokens>>

----------------------------------------------------------------------------
(* The first statement of each operation.                                  *)

Begins(r, operation, step, on, read, found) ==
    request' = [request EXCEPT ![r] = [operation |-> operation, step |-> step, on |-> on,
                                       read |-> read, found |-> found, held |-> {}]]

\* An address that exists is answered like one that does not.
RegisterUser(r) ==
    Begins(r, "register", IF status = "none" THEN "user" ELSE "done", None, None, {})

VerifyEmailToken(r) ==
    \E t \in DOMAIN tokens : tokens[t].purpose = "verify"
                             /\ Begins(r, "verify", "token", t, None, {})

ResendVerification(r) ==
    /\ status = "pending"
    /\ Begins(r, "resend", "tokens", None, None, {TokenRow(t) : t \in LiveTokens("verify")})

\* A login with the password that is committed when it is read, which it may
\* have to hash anew.
AuthenticateUser(r) ==
    /\ status = "active"
    /\ \E step \in {"commit", "user"} : Begins(r, "login", step, None, password, {})

RequestPasswordReset(r) ==
    /\ status = "active"
    /\ Begins(r, "forgot", "tokens", None, None, {TokenRow(t) : t \in LiveTokens("reset")})

ResetPassword(r) ==
    \E t \in DOMAIN tokens : tokens[t].purpose = "reset"
                             /\ Begins(r, "reset", "token", t, None, {})

\* A session is found without a lock.
SessionSeen(r, operation) == \E s \in LiveSessions : Begins(r, operation, "read", s, None, {})

\* A request of a session locks it first (get_auth_context).
SessionLocked(r, operation) ==
    \E s \in DOMAIN sessions : Begins(r, operation, "session", s, None, {})

Arrive(r) ==
    /\ request[r].step = "new"
    /\ \A q \in Requests : q < r => request[q].step # "new"
    /\ \E operation \in Operations :
         CASE operation = "register" -> RegisterUser(r)
           [] operation = "verify" -> VerifyEmailToken(r)
           [] operation = "resend" -> ResendVerification(r)
           [] operation = "login" -> AuthenticateUser(r)
           [] operation = "forgot" -> RequestPasswordReset(r)
           [] operation = "reset" -> ResetPassword(r)
           [] operation \in {"change", "revoke", "revoke others", "revoke all"} ->
                SessionLocked(r, operation)
    /\ Noted
    /\ Frame

----------------------------------------------------------------------------
(* The statements between the first and the commit.                        *)

\* FOR UPDATE waits for the row and then sees its last version.
LockSession(r) ==
    /\ request[r].step = "session"
    /\ Free(r)
    /\ IF sessions[request[r].on].live THEN Takes(r, "read") ELSE Ends(r)
    /\ Noted
    /\ Frame

LockToken(r) ==
    /\ request[r].step = "token"
    /\ Free(r)
    /\ IF tokens[request[r].on].live THEN Takes(r, "user") ELSE Ends(r)
    /\ Noted
    /\ Frame

\* The user as get_auth_context reads it; a change verifies the password
\* against it, and the others choose the sessions they revoke.
ReadUser(r) ==
    /\ request[r].step = "read"
    /\ IF request[r].operation = "change"
       THEN request' = [request EXCEPT ![r].read = password, ![r].step = "user"]
       ELSE \E chosen \in IF request[r].operation = "revoke" THEN {{s} : s \in DOMAIN sessions}
                          ELSE {LiveSessions} :
              request' = [request EXCEPT ![r].found = {SessionRow(s) : s \in chosen},
                                         ![r].step = "sessions"]
    /\ Noted
    /\ Frame

\* The row of the user: locked by a verification and a reset, written by a
\* change and by a login that hashes anew, inserted by a registration.
TakeUser(r) ==
    /\ request[r].step = "user"
    /\ Free(r)
    /\ IF request[r].operation = "register" /\ status # "none"
       THEN Ends(r)                            \* the address is taken by now
       ELSE Takes(r, IF request[r].operation \in Changing THEN "find" ELSE "commit")
    /\ Noted
    /\ Frame

\* UPDATE sessions: the live sessions its snapshot shows, without the
\* current one of a change.
FindSessions(r) ==
    /\ request[r].step = "find"
    /\ request' = [request EXCEPT
         ![r].found = {SessionRow(s) : s \in LiveSessions \ {request[r].on}},
         ![r].step = "sessions"]
    /\ Noted
    /\ Frame

\* The rows an UPDATE has found, once they are free.
TakeRows(r) ==
    /\ request[r].step \in {"sessions", "tokens"}
    /\ Takes(r, "commit")
    /\ Noted
    /\ Frame

----------------------------------------------------------------------------
(* What a commit makes of the rows a request holds.                        *)

\* A reset that leaves the sessions alone.
RevokedByChangeOnly(r) ==
    IF request[r].operation = "change" THEN {s \in DOMAIN sessions : SessionRow(s) \in request[r].held}
    ELSE {}

\* The sessions that a change or a reset revokes.
RevokedByPassword(r) == {s \in DOMAIN sessions : SessionRow(s) \in request[r].held}

Revoked(r) ==
    CASE request[r].operation \in Changing -> RevokedByPassword(r) \ {request[r].on}
      [] request[r].operation = "revoke others" ->
           {s \in DOMAIN sessions : SessionRow(s) \in request[r].held} \ {request[r].on}
      [] request[r].operation \in {"revoke", "revoke all"} ->
           {s \in DOMAIN sessions : SessionRow(s) \in request[r].found}
      [] OTHER -> {}

\* A new token beside the old ones.
SpentByUse(r) == IF request[r].operation \in Making THEN {} ELSE {request[r].on}

\* The tokens a request spends: the one it uses, or all before a new one.
Spent(r) == {t \in DOMAIN tokens : TokenRow(t) \in request[r].held}

\* What a commit adds has the number of its request.
Made(r, operations) == {n \in {r} : request[r].operation \in operations}

Commit(r) ==
    LET operation == request[r].operation
    IN /\ request[r].step = "commit"
       /\ Free(r)
       /\ status' = CASE operation = "register" -> "pending"
                      [] operation = "verify" -> "active"
                      [] OTHER -> status
       /\ password' = CASE operation \in Changing -> r
                        [] operation = "login" /\ User \in request[r].held -> request[r].read
                        [] OTHER -> password
       /\ sessions' =
            [s \in DOMAIN sessions \cup Made(r, {"login"}) |->
               IF s \in Made(r, {"login"}) THEN [live |-> TRUE, proved |-> request[r].read]
               ELSE IF s \in Revoked(r) THEN [sessions[s] EXCEPT !.live = FALSE]
               ELSE IF operation = "change" /\ s = request[r].on
                    THEN [sessions[s] EXCEPT !.proved = r]
                    ELSE sessions[s]]
       /\ tokens' =
            [t \in DOMAIN tokens \cup Made(r, Mailing) |->
               IF t \in Made(r, Mailing)
               THEN [purpose |-> PurposeOf(operation), live |-> TRUE]
               ELSE IF t \in Spent(r) THEN [tokens[t] EXCEPT !.live = FALSE] ELSE tokens[t]]
       /\ Ends(r)
       /\ Noted

\* Every request of a set waits for one of it and is waited for by one.
Circle(set) == \A r \in set : \E q, p \in set : WaitsFor(r, q) /\ WaitsFor(p, r)

Deadlock(r) ==
    /\ \E set \in SUBSET Requests : r \in set /\ Circle(set)
    /\ Ends(r)
    /\ Noted
    /\ Frame

AccountNext ==
    \E r \in Requests :
        Arrive(r) \/ LockSession(r) \/ LockToken(r) \/ ReadUser(r) \/ TakeUser(r)
        \/ FindSessions(r) \/ TakeRows(r) \/ Commit(r) \/ Deadlock(r)

----------------------------------------------------------------------------

\* Whoever changes the password has proved the one that the change replaces,
\* whatever other changes, resets and revocations are at work: the check
\* (service.py:503) and the write are statements of a transaction that locks
\* only its own session in between.  A login at work during a change may leave
\* a session that the change does not see.
ChangeReplacesWhatItProved ==
    [][\A r \in Requests :
         ~overlapped /\ request[r].operation = "change" /\ password # password' /\ password' = r
         => request[r].read = password]_account

\* Unless a login was at work during a change of password (it reads the
\* password at service.py:313 and inserts its session at the end), a session
\* that is live belongs to someone who has proved the current password.
LiveSessionsKnowThePassword ==
    ~overlapped => \A s \in LiveSessions : sessions[s].proved = password

\* Unless two requests for one were at work together (each spends what it
\* sees and then inserts its own, service.py:242), one link is good at most.
OneLiveToken ==
    ~together => \A purpose \in {"verify", "reset"} : Cardinality(LiveTokens(purpose)) <= 1
=============================================================================
