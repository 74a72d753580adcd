---------------------------- MODULE LoginLimiter ----------------------------
(***************************************************************************)
(* The attempts to log in with one e-mail from one address, and the        *)
(* requests of one public action: two counters in Redis with a time to     *)
(* live.  A login reads the counter, verifies the password, and counts the *)
(* failure only then, while other logins do the same.                      *)
(***************************************************************************)
EXTENDS Naturals, FiniteSets

CONSTANTS
    Clients,        \* logins at a time
    MaxLoginAttempts,
    MaxPublicRequests,
    MaxUncounted         \* bound: failures that Redis does not count

ASSUME LimiterAssumption ==
    /\ IsFiniteSet(Clients)
    /\ MaxLoginAttempts \in Nat \ {0}
    /\ MaxPublicRequests \in Nat

VARIABLES
    attempts,   \* the counter of the logins; 0 when the key is absent
    login,      \* where each login is: "none", "allowed", "wrong" or "right"
    requests,   \* the counter of the public action; 0 when absent
    passed,     \* history: what it let pass since
    tried,      \* history: wrong passwords verified since the key was absent
    uncounted        \* history: of these, those Redis has not counted

limiter == <<attempts, login, requests, passed, tried, uncounted>>

LimiterInit ==
    /\ attempts = 0
    /\ login = [c \in Clients |-> "none"]
    /\ requests = 0 /\ passed = 0
    /\ tried = 0 /\ uncounted = 0

\* The comparison off by one.
AllowedOnceMore == attempts <= MaxLoginAttempts

Allowed == attempts < MaxLoginAttempts

\* A refused login, or one that finds Redis away, ends where it began.
EnsureAllowed(c) ==
    /\ login[c] = "none"
    /\ Allowed
    /\ login' = [login EXCEPT ![c] = "allowed"]
    /\ UNCHANGED <<attempts, requests, passed, tried, uncounted>>

VerifyPassword(c) ==
    /\ login[c] = "allowed"
    /\ \/ /\ login' = [login EXCEPT ![c] = "wrong"]
          /\ tried' = tried + 1
       \/ /\ login' = [login EXCEPT ![c] = "right"]
          /\ UNCHANGED tried
    /\ UNCHANGED <<attempts, requests, passed, uncounted>>

\* An error of Redis is logged and the failure is not counted.
RecordFailure(c) ==
    /\ login[c] = "wrong"
    /\ login' = [login EXCEPT ![c] = "none"]
    /\ \/ /\ attempts' = attempts + 1
          /\ UNCHANGED uncounted
       \/ /\ uncounted < MaxUncounted
          /\ uncounted' = uncounted + 1
          /\ UNCHANGED attempts
    /\ UNCHANGED <<requests, passed, tried>>

Absent == attempts' = 0 /\ tried' = 0 /\ uncounted' = 0

ClearAttempts(c) ==
    /\ login[c] = "right"
    /\ login' = [login EXCEPT ![c] = "none"]
    /\ Absent \/ UNCHANGED <<attempts, tried, uncounted>>
    /\ UNCHANGED <<requests, passed>>

\* The lockout passes: its length doubles with each failure, and every
\* failure starts it again.
LockoutEnds ==
    /\ attempts > 0
    /\ Absent
    /\ UNCHANGED <<login, requests, passed>>

\* Counted first and compared then, in one transaction of Redis.  The guard
\* only bounds the count: a second refusal in a window is like the first.
Consume ==
    /\ requests <= MaxPublicRequests
    /\ requests' = requests + 1
    /\ passed' = IF requests' > MaxPublicRequests THEN passed ELSE passed + 1
    /\ UNCHANGED <<attempts, login, tried, uncounted>>

\* The window began with the first request and is not extended.
WindowEnds ==
    /\ requests > 0
    /\ requests' = 0 /\ passed' = 0
    /\ UNCHANGED <<attempts, login, tried, uncounted>>

LimiterNext ==
    \/ \E c \in Clients :
         EnsureAllowed(c) \/ VerifyPassword(c) \/ RecordFailure(c) \/ ClearAttempts(c)
    \/ LockoutEnds
    \/ Consume
    \/ WindowEnds

----------------------------------------------------------------------------

\* The limit is checked before a password is verified and counted after it
\* (rate_limit.py:34, auth/service.py:284-333): logins that overlap may exceed
\* it, but by no more than there are of them beside the last one, plus what
\* Redis did not count.  The public limit, counted first, is exact.
LimitBoundsAttempts ==
    /\ tried <= MaxLoginAttempts + Cardinality(Clients) - 1 + uncounted
    /\ passed <= MaxPublicRequests
=============================================================================
