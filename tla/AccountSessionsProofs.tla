----------------------- MODULE AccountSessionsProofs ------------------------
(***************************************************************************)
(* What an account promises under any number of overlapping requests.      *)
(*                                                                         *)
(* A request changes only itself until it commits (RequestStep).  A commit *)
(* changes the rows the others have read, and what protects those are the  *)
(* rows they hold: no row is held by two requests (Exclusive).             *)
(***************************************************************************)
EXTENDS ProductServices, FiniteSetTheorems, TLAPS

-----------------------------------------------------------------------------
(* The inductive invariant *)

Ids == OldSessions \cup Requests \cup {None}
Passwords == Requests \cup {OldPassword, None}
Rows == {User} \cup {SessionRow(s) : s \in Ids} \cup {TokenRow(t) : t \in Ids}
Kinds == {"register", "verify", "resend", "login", "forgot", "reset", "change",
          "revoke", "revoke others", "revoke all"}

RequestRows ==
    [operation : Kinds \cup {None},
     step : {"new", "session", "token", "read", "user", "find", "sessions", "tokens",
             "commit", "done"},
     on : Ids, read : Passwords, found : SUBSET Rows, held : SUBSET Rows]

\* The steps of each operation.
Course(q) ==
    /\ q.operation = "register" => q.step \in {"user", "commit"}
    /\ q.operation = "verify" => q.step \in {"token", "user", "commit"}
    /\ q.operation \in Making => q.step \in {"tokens", "commit"}
    /\ q.operation = "login" => q.step \in {"commit", "user"}
    /\ q.operation = "reset" =>
         q.step \in {"token", "user", "find", "sessions", "commit"}
    /\ q.operation = "change" =>
         q.step \in {"session", "read", "user", "find", "sessions", "commit"}
    /\ q.operation \in {"revoke", "revoke others", "revoke all"} =>
         q.step \in {"session", "read", "sessions", "commit"}
    /\ q.operation \in Kinds

\* What a request may rely on because of the rows it holds.
Locked(q) ==
    /\ q.step = "commit" => q.found \subseteq q.held
    /\ q.step \in {"session", "token", "read", "user", "find"} => q.found = {}
    /\ q.operation \in Changing /\ q.step \in {"find", "sessions", "commit"} => User \in q.held
    /\ q.operation = "verify" /\ q.step = "commit" => User \in q.held
    /\ q.operation = "register" /\ q.step = "commit" => User \in q.held /\ status = "none"
    /\ q.operation \in {"verify", "reset"} => q.on \in DOMAIN tokens
    /\ q.operation = "change" => q.on \in DOMAIN sessions
    /\ q.operation = "change" /\ q.step # "session" =>
         /\ sessions[q.on].live
         /\ SessionRow(q.on) \in q.held

\* What it has read and is still so.
Fresh(q) ==
    /\ q.operation = "login" => q.read = password
    /\ q.operation = "change" /\ q.step \in {"user", "find", "sessions", "commit"} =>
         q.read = password
    /\ q.operation \in Changing /\ q.step \in {"sessions", "commit"} =>
         \A s \in LiveSessions : SessionRow(s) \in q.found \/ s = q.on

Complete(q) ==
    q.operation \in Making =>
        /\ status # "none"
        /\ ~together => \A t \in LiveTokens(PurposeOf(q.operation)) : TokenRow(t) \in q.found

Sound(q) ==
    /\ q \in RequestRows
    /\ q.step \in {"new", "done"} => q.held = {}
    /\ q.step \notin {"new", "done"} =>
         /\ Course(q)
         /\ Locked(q)
         /\ ~overlapped => Fresh(q)
         /\ Complete(q)

TablesOK ==
    /\ DOMAIN sessions \subseteq OldSessions \cup Requests
    /\ DOMAIN tokens \subseteq Requests
    /\ DOMAIN sessions \cap DOMAIN tokens = {}
    /\ \A s \in DOMAIN sessions : sessions[s] \in [live : BOOLEAN, proved : Passwords]
    /\ \A t \in DOMAIN tokens : tokens[t] \in [purpose : {"verify", "reset"}, live : BOOLEAN]
    /\ password \in Passwords
    /\ status \in {"none", "pending", "active"}
    /\ status = "none" => DOMAIN tokens = {}
    /\ overlapped \in BOOLEAN
    /\ together \in BOOLEAN

\* A request that has made a row has ended.
Numbered ==
    \A r \in Requests : r \in DOMAIN sessions \cup DOMAIN tokens => request[r].step = "done"

Exclusive == \A r, q \in Requests : r # q => request[r].held \cap request[q].held = {}

Apart ==
    /\ ~overlapped => AtWork({"login"}) = {} \/ AtWork(Changing) = {}
    /\ ~together => \A r, q \in AtWork(Making) : r = q

OneToken ==
    ~together => \A purpose \in {"verify", "reset"} : \A t, u \in LiveTokens(purpose) : t = u

AccountInv ==
    /\ TablesOK
    /\ request \in [Requests -> RequestRows]
    /\ \A r \in Requests : Sound(request[r])
    /\ Numbered
    /\ Exclusive
    /\ Apart
    /\ LiveSessionsKnowThePassword
    /\ OneToken

-----------------------------------------------------------------------------
(* Steps of one request *)

LEMMA NewRow == New \in RequestRows /\ [New EXCEPT !.step = "done"] \in RequestRows
BY DEF New, RequestRows, Ids, Passwords

LEMMA EndedSound ==
  ASSUME NEW q, q \in {New, [New EXCEPT !.step = "done"]}
  PROVE  q \in RequestRows /\ q.held = {} /\ q.step \in {"new", "done"} /\ Sound(q)
<1>1. q \in RequestRows /\ q.held = {} /\ q.step \in {"new", "done"}
  BY NewRow DEF New
<1> QED
  BY <1>1 DEF Sound

LEMMA AccountInitial == AccountInit => AccountInv
<1> SUFFICES ASSUME AccountInit PROVE AccountInv
  OBVIOUS
<1>1. request = [r \in Requests |-> New] /\ New \in RequestRows /\ New.held = {}
      /\ New.step = "new"
  BY NewRow DEF AccountInit, New
<1>2. DOMAIN tokens = {} /\ DOMAIN sessions \in {{}, OldSessions}
  BY DEF AccountInit
<1>3. TablesOK
  <2>1. \A s \in DOMAIN sessions : sessions[s] \in [live : BOOLEAN, proved : Passwords]
    <3>1. CASE DOMAIN sessions = {}
      BY <3>1
    <3>2. CASE sessions = [s \in OldSessions |-> [live |-> TRUE, proved |-> OldPassword]]
      BY <3>2 DEF Passwords
    <3> QED
      BY <3>1, <3>2 DEF AccountInit
  <2>2. password \in Passwords /\ status \in {"none", "pending", "active"}
        /\ overlapped \in BOOLEAN /\ together \in BOOLEAN
    BY DEF AccountInit, Passwords
  <2> QED
    BY <1>2, <2>1, <2>2 DEF TablesOK
<1>4. \A r \in Requests : Sound(request[r])
  BY <1>1 DEF Sound
<1>5. Numbered
  BY <1>2, AccountAssumption DEF Numbered
<1>6. Exclusive /\ Apart
  BY <1>1 DEF Exclusive, Apart, AtWork, Ended
<1>7. LiveSessionsKnowThePassword
  BY <1>2 DEF AccountInit, LiveSessionsKnowThePassword, LiveSessions
<1>8. OneToken
  BY <1>2 DEF OneToken, LiveTokens
<1> QED
  BY <1>1, <1>3, <1>4, <1>5, <1>6, <1>7, <1>8 DEF AccountInv

\* What the history variables say of the next state.
LEMMA NotedKeeps ==
  ASSUME Noted, overlapped \in BOOLEAN, together \in BOOLEAN, request' \in [Requests -> RequestRows]
  PROVE  /\ overlapped' \in BOOLEAN /\ together' \in BOOLEAN
         /\ overlapped => overlapped'
         /\ together => together'
         /\ Apart'
<1>1. /\ overlapped' = (overlapped \/ (AtWork({"login"})' # {} /\ AtWork(Changing)' # {}))
      /\ together' = (together \/ Cardinality(AtWork(Making)') > 1)
  BY DEF Noted
<1>2. ASSUME ~together', NEW r \in AtWork(Making)', NEW q \in AtWork(Making)'
      PROVE  r = q
  <2>1. IsFiniteSet(AtWork(Making)')
    BY AccountAssumption, FS_Subset DEF AtWork
  <2>2. PICK n \in Nat : n = Cardinality(AtWork(Making)')
    BY <2>1, FS_CardinalityType
  <2>3. ~(n > 1)
    BY <1>1, <1>2, <2>2
  <2>4. n # 0
    BY <2>1, <2>2, <1>2, FS_EmptySet
  <2>5. n = 1
    BY <2>3, <2>4
  <2>6. Cardinality(AtWork(Making)') = 1
    BY <2>2, <2>5
  <2>7. \E x : AtWork(Making)' = {x}
    BY <2>1, <2>6, FS_Singleton
  <2> QED
    BY <2>7, <1>2
<1> QED
  BY <1>1, <1>2 DEF Apart

\* What is sound of a request stays so while no row changes.
LEMMA SoundKept ==
  ASSUME Frame, overlapped => overlapped', together => together', NEW q, Sound(q)
  PROVE  Sound(q)'
<1>1. status' = status /\ password' = password /\ sessions' = sessions /\ tokens' = tokens
  BY DEF Frame
<1>2. LiveSessions' = LiveSessions /\ \A p : LiveTokens(p)' = LiveTokens(p)
  BY <1>1 DEF LiveSessions, LiveTokens
<1>3. Course(q)' <=> Course(q)
  BY DEF Course
<1>4. Locked(q)' <=> Locked(q)
  BY <1>1 DEF Locked
<1>5. Fresh(q)' <=> Fresh(q)
  BY <1>1, <1>2 DEF Fresh
<1>6. Complete(q) => Complete(q)'
  BY <1>1, <1>2 DEF Complete
<1> QED
  BY <1>3, <1>4, <1>5, <1>6 DEF Sound

\* A step in which one request changes and no row does.
LEMMA RequestStep ==
  ASSUME AccountInv, NEW r \in Requests, NEW q,
         request' = [request EXCEPT ![r] = q], Frame, Noted,
         Sound(q), request[r].step = "done" => q.step = "done",
         \A o \in Requests : o # r => q.held \cap request[o].held = {}
  PROVE  AccountInv'
<1>1. q \in RequestRows
  BY DEF Sound
<1>2. request' \in [Requests -> RequestRows]
  BY <1>1 DEF AccountInv
<1>3. UNCHANGED <<status, password, sessions, tokens>>
  BY DEF Frame
<1>4. /\ overlapped' \in BOOLEAN /\ together' \in BOOLEAN
      /\ overlapped => overlapped'
      /\ together => together'
      /\ Apart'
  BY <1>2, NotedKeeps DEF AccountInv, TablesOK
<1>5. TablesOK'
  BY <1>3, <1>4 DEF AccountInv, TablesOK
<1>6. LiveSessions' = LiveSessions /\ \A p : LiveTokens(p)' = LiveTokens(p)
  BY <1>3 DEF LiveSessions, LiveTokens
<1>7. ASSUME NEW o \in Requests PROVE Sound(request[o])'
  <2>1. PICK p : p = request'[o]
    OBVIOUS
  <2>2. Sound(p)
    BY <2>1 DEF AccountInv
  <2>3. Sound(p)'
    BY <1>4, <2>2, SoundKept
  <2> QED
    BY <2>1, <2>3
<1>8. Numbered'
  BY <1>3 DEF AccountInv, Numbered
<1>9. Exclusive'
  BY DEF AccountInv, Exclusive
<1>10. LiveSessionsKnowThePassword' /\ OneToken'
  BY <1>3, <1>4, <1>6 DEF AccountInv, LiveSessionsKnowThePassword, OneToken
<1> QED
  BY <1>2, <1>4, <1>5, <1>7, <1>8, <1>9, <1>10 DEF AccountInv

\* What a request at work may rely on.
LEMMA WorkingFacts ==
  ASSUME AccountInv, NEW r \in Requests, request[r].step \notin {"new", "done"}
  PROVE  /\ request[r] \in RequestRows
         /\ Course(request[r])
         /\ Locked(request[r])
         /\ ~overlapped => Fresh(request[r])
         /\ Complete(request[r])
BY DEF AccountInv, Sound

\* A request that ends without a commit.
LEMMA EndsKeeps ==
  ASSUME AccountInv, NEW r \in Requests, Ends(r), Frame, Noted
  PROVE  AccountInv'
<1>1. PICK q : q = [New EXCEPT !.step = "done"]
  OBVIOUS
<1>2. Sound(q) /\ q.held = {} /\ q.step = "done"
  BY <1>1, EndedSound DEF New
<1>3. request' = [request EXCEPT ![r] = q]
  BY <1>1 DEF Ends
<1> QED
  BY <1>2, <1>3, RequestStep

\* A request that takes the rows it waits for.
LEMMA TakesKeeps ==
  ASSUME AccountInv, NEW r \in Requests, NEW step, Takes(r, step), Frame, Noted,
         request[r].step \notin {"new", "done"}, step \notin {"new", "done"},
         Sound([request[r] EXCEPT !.held = @ \cup Wants(r), !.step = step])
  PROVE  AccountInv'
<1>1. PICK q : q = [request[r] EXCEPT !.held = @ \cup Wants(r), !.step = step]
  OBVIOUS
<1>2. request[r] \in RequestRows /\ request \in [Requests -> RequestRows]
  BY DEF AccountInv
<1>3. request' = [request EXCEPT ![r] = q]
  BY <1>1, <1>2 DEF Takes, RequestRows
<1>4. q.held = request[r].held \cup Wants(r)
  BY <1>1, <1>2 DEF RequestRows
<1>5. \A o \in Requests : o # r => q.held \cap request[o].held = {}
  BY <1>4 DEF AccountInv, Exclusive, Takes, Free, WaitsFor
<1> QED
  BY <1>1, <1>3, <1>5, RequestStep

LEMMA LockSessionKeeps ==
  ASSUME AccountInv, NEW r \in Requests, LockSession(r)
  PROVE  AccountInv'
<1>1. request[r].step = "session" /\ Noted /\ Frame
  BY DEF LockSession
<1>2. CASE ~sessions[request[r].on].live
  BY <1>1, <1>2, EndsKeeps DEF LockSession
<1>3. CASE sessions[request[r].on].live
  <2>1. Takes(r, "read")
    BY <1>3 DEF LockSession
  <2>2. PICK p : p = request[r]
    OBVIOUS
  <2>3. p \in RequestRows /\ p.step = "session" /\ Course(p) /\ Locked(p)
    BY <1>1, <2>2, WorkingFacts
  <2>4. PICK q : q = [p EXCEPT !.held = @ \cup {SessionRow(p.on)}, !.step = "read"]
    OBVIOUS
  <2>5. /\ q.operation = p.operation /\ q.on = p.on /\ q.found = p.found /\ q.read = p.read
        /\ q.step = "read" /\ q.held = p.held \cup {SessionRow(p.on)}
        /\ q \in RequestRows
    BY <2>3, <2>4 DEF RequestRows, Rows
  <2>6. p.operation \in {"change", "revoke", "revoke others", "revoke all"} /\ p.found = {}
    BY <2>3 DEF Course, Locked, Making, Kinds
  <2>7. Course(q)
    BY <2>5, <2>6 DEF Course, Making, Kinds
  <2>8. Locked(q)
    BY <1>3, <2>2, <2>3, <2>5, <2>6 DEF Locked
  <2>9. Fresh(q) /\ Complete(q)
    BY <2>5, <2>6 DEF Fresh, Complete, Making
  <2>10. Sound(q)
    BY <2>5, <2>7, <2>8, <2>9 DEF Sound
  <2>11. Wants(r) = {SessionRow(p.on)}
    BY <1>1, <2>2 DEF Wants
  <2> QED
    BY <1>1, <2>1, <2>2, <2>4, <2>10, <2>11, TakesKeeps
<1> QED
  BY <1>2, <1>3

LEMMA LockTokenKeeps ==
  ASSUME AccountInv, NEW r \in Requests, LockToken(r)
  PROVE  AccountInv'
<1>1. request[r].step = "token" /\ Noted /\ Frame
  BY DEF LockToken
<1>2. CASE ~tokens[request[r].on].live
  BY <1>1, <1>2, EndsKeeps DEF LockToken
<1>3. CASE tokens[request[r].on].live
  <2>1. Takes(r, "user")
    BY <1>3 DEF LockToken
  <2>2. PICK p : p = request[r]
    OBVIOUS
  <2>3. p \in RequestRows /\ p.step = "token" /\ Course(p) /\ Locked(p)
    BY <1>1, <2>2, WorkingFacts
  <2>4. PICK q : q = [p EXCEPT !.held = @ \cup {TokenRow(p.on)}, !.step = "user"]
    OBVIOUS
  <2>5. /\ q.operation = p.operation /\ q.on = p.on /\ q.found = p.found /\ q.read = p.read
        /\ q.step = "user" /\ q.held = p.held \cup {TokenRow(p.on)}
        /\ q \in RequestRows
    BY <2>3, <2>4 DEF RequestRows, Rows
  <2>6. p.operation \in {"verify", "reset"} /\ p.found = {}
    BY <2>3 DEF Course, Locked, Making, Kinds
  <2>7. Course(q)
    BY <2>5, <2>6 DEF Course, Making, Kinds
  <2>8. Locked(q)
    BY <2>2, <2>3, <2>5, <2>6 DEF Locked
  <2>9. Fresh(q) /\ Complete(q)
    BY <2>5, <2>6 DEF Fresh, Complete, Making
  <2>10. Sound(q)
    BY <2>5, <2>7, <2>8, <2>9 DEF Sound
  <2>11. Wants(r) = {TokenRow(p.on)}
    BY <1>1, <2>2 DEF Wants
  <2> QED
    BY <1>1, <2>1, <2>2, <2>4, <2>10, <2>11, TakesKeeps
<1> QED
  BY <1>2, <1>3

LEMMA TakeUserKeeps ==
  ASSUME AccountInv, NEW r \in Requests, TakeUser(r)
  PROVE  AccountInv'
<1>1. request[r].step = "user" /\ Noted /\ Frame
  BY DEF TakeUser
<1>2. CASE request[r].operation = "register" /\ status # "none"
  BY <1>1, <1>2, EndsKeeps DEF TakeUser
<1>3. CASE ~(request[r].operation = "register" /\ status # "none")
  <2>1. PICK p : p = request[r]
    OBVIOUS
  <2>2. PICK step : step = IF p.operation \in Changing THEN "find" ELSE "commit"
    OBVIOUS
  <2>3. Takes(r, step)
    BY <1>3, <2>1, <2>2 DEF TakeUser
  <2>4. /\ p \in RequestRows /\ p.step = "user" /\ Course(p) /\ Locked(p)
        /\ ~overlapped => Fresh(p)
        /\ Complete(p)
    BY <1>1, <2>1, WorkingFacts
  <2>5. PICK q : q = [p EXCEPT !.held = @ \cup {User}, !.step = step]
    OBVIOUS
  <2>6. /\ q.operation = p.operation /\ q.on = p.on /\ q.found = p.found /\ q.read = p.read
        /\ q.step = step /\ q.held = p.held \cup {User}
        /\ q \in RequestRows
    BY <2>2, <2>4, <2>5 DEF RequestRows, Rows
  <2>7. p.operation \in {"register", "verify", "login", "reset", "change"} /\ p.found = {}
    BY <2>4 DEF Course, Locked, Making, Kinds
  <2>8. Course(q)
    BY <2>2, <2>6, <2>7 DEF Course, Making, Kinds, Changing
  <2>9. Locked(q)
    BY <1>3, <2>1, <2>2, <2>4, <2>6, <2>7 DEF Locked, Changing
  <2>10. ~overlapped => Fresh(q)
    BY <2>2, <2>4, <2>6, <2>7 DEF Fresh, Changing
  <2>11. Complete(q)
    BY <2>6, <2>7 DEF Complete, Making
  <2>12. Sound(q)
    BY <2>2, <2>6, <2>8, <2>9, <2>10, <2>11 DEF Sound
  <2>13. Wants(r) = {User}
    BY <1>1 DEF Wants
  <2> QED
    BY <1>1, <2>1, <2>2, <2>3, <2>5, <2>12, <2>13, TakesKeeps
<1> QED
  BY <1>2, <1>3

LEMMA TakeRowsKeeps ==
  ASSUME AccountInv, NEW r \in Requests, TakeRows(r)
  PROVE  AccountInv'
<1>1. request[r].step \in {"sessions", "tokens"} /\ Noted /\ Frame /\ Takes(r, "commit")
  BY DEF TakeRows
<1>2. PICK p : p = request[r]
  OBVIOUS
<1>3. /\ p \in RequestRows /\ p.step \in {"sessions", "tokens"} /\ Course(p) /\ Locked(p)
      /\ ~overlapped => Fresh(p)
      /\ Complete(p)
  BY <1>1, <1>2, WorkingFacts
<1>4. PICK q : q = [p EXCEPT !.held = @ \cup p.found, !.step = "commit"]
  OBVIOUS
<1>5. /\ q.operation = p.operation /\ q.on = p.on /\ q.found = p.found /\ q.read = p.read
      /\ q.step = "commit" /\ q.held = p.held \cup p.found
      /\ q \in RequestRows
  BY <1>3, <1>4 DEF RequestRows
<1>6. /\ p.operation \in Making \cup Changing \cup {"revoke", "revoke others", "revoke all"}
      /\ p.operation \in Changing => p.step = "sessions"
  BY <1>3 DEF Course, Making, Changing, Kinds
<1>7. Course(q)
  BY <1>5, <1>6 DEF Course, Making, Changing, Kinds
<1>8. Locked(q)
  BY <1>3, <1>5, <1>6 DEF Locked, Changing, Making
<1>9. ASSUME ~overlapped PROVE Fresh(q)
  <2>1. Fresh(p)
    BY <1>3, <1>9
  <2> QED
    BY <1>5, <1>6, <2>1 DEF Fresh, Changing, Making
<1>10. Complete(q)
  BY <1>3, <1>5 DEF Complete
<1>11. Sound(q)
  BY <1>5, <1>7, <1>8, <1>9, <1>10 DEF Sound
<1>12. Wants(r) = p.found
  BY <1>1, <1>2 DEF Wants
<1> QED
  BY <1>1, <1>2, <1>4, <1>11, <1>12, TakesKeeps

LEMMA ReadUserKeeps ==
  ASSUME AccountInv, NEW r \in Requests, ReadUser(r)
  PROVE  AccountInv'
<1>1. request[r].step = "read" /\ Noted /\ Frame
  BY DEF ReadUser
<1>2. PICK p : p = request[r]
  OBVIOUS
<1>3. /\ p \in RequestRows /\ p.step = "read" /\ Course(p) /\ Locked(p)
      /\ request \in [Requests -> RequestRows] /\ TablesOK
  BY <1>1, <1>2, WorkingFacts DEF AccountInv
<1>4. p.operation \in {"change", "revoke", "revoke others", "revoke all"} /\ p.found = {}
  BY <1>3 DEF Course, Locked, Making, Kinds
<1>5. CASE p.operation = "change"
  <2>1. PICK q : q = [p EXCEPT !.read = password, !.step = "user"]
    OBVIOUS
  <2>2. request' = [request EXCEPT ![r] = q]
    BY <1>2, <1>3, <1>5, <2>1 DEF ReadUser, RequestRows
  <2>3. /\ q.operation = "change" /\ q.on = p.on /\ q.found = {} /\ q.read = password
        /\ q.step = "user" /\ q.held = p.held
        /\ q \in RequestRows
    BY <1>3, <1>4, <1>5, <2>1 DEF RequestRows, TablesOK
  <2>4. Course(q) /\ Complete(q)
    BY <2>3 DEF Course, Complete, Making, Kinds
  <2>5. Locked(q)
    BY <1>3, <1>5, <2>3 DEF Locked
  <2>6. Fresh(q)
    BY <2>3 DEF Fresh
  <2>7. Sound(q)
    BY <2>3, <2>4, <2>5, <2>6 DEF Sound
  <2>8. \A o \in Requests : o # r => q.held \cap request[o].held = {}
    BY <1>2, <2>3 DEF AccountInv, Exclusive
  <2> QED
    BY <1>1, <2>2, <2>7, <2>8, RequestStep
<1>6. CASE p.operation # "change"
  <2>1. PICK chosen \in SUBSET DOMAIN sessions :
          request' = [request EXCEPT ![r].found = {SessionRow(s) : s \in chosen},
                                     ![r].step = "sessions"]
    <3>1. PICK chosen \in IF request[r].operation = "revoke" THEN {{s} : s \in DOMAIN sessions}
                         ELSE {LiveSessions} :
            request' = [request EXCEPT ![r].found = {SessionRow(s) : s \in chosen},
                                       ![r].step = "sessions"]
      BY <1>2, <1>6 DEF ReadUser
    <3>2. chosen \in SUBSET DOMAIN sessions
      BY DEF LiveSessions
    <3> QED
      BY <3>1, <3>2
  <2>2. PICK q : q = [p EXCEPT !.found = {SessionRow(s) : s \in chosen}, !.step = "sessions"]
    OBVIOUS
  <2>3. request' = [request EXCEPT ![r] = q]
    BY <1>2, <1>3, <2>1, <2>2 DEF RequestRows
  <2>4. {SessionRow(s) : s \in chosen} \subseteq Rows
    BY <1>3 DEF TablesOK, Rows, Ids
  <2>5. /\ q.operation = p.operation /\ q.on = p.on /\ q.read = p.read
        /\ q.step = "sessions" /\ q.held = p.held
        /\ q \in RequestRows
    BY <1>3, <2>2, <2>4 DEF RequestRows
  <2>6. Course(q) /\ Complete(q) /\ Fresh(q)
    BY <1>4, <1>6, <2>5 DEF Course, Complete, Fresh, Making, Changing, Kinds
  <2>7. Locked(q)
    BY <1>4, <1>6, <2>5 DEF Locked, Changing
  <2>8. Sound(q)
    BY <2>5, <2>6, <2>7 DEF Sound
  <2>9. \A o \in Requests : o # r => q.held \cap request[o].held = {}
    BY <1>2, <2>5 DEF AccountInv, Exclusive
  <2> QED
    BY <1>1, <2>3, <2>8, <2>9, RequestStep
<1> QED
  BY <1>5, <1>6

LEMMA FindSessionsKeeps ==
  ASSUME AccountInv, NEW r \in Requests, FindSessions(r)
  PROVE  AccountInv'
<1>1. request[r].step = "find" /\ Noted /\ Frame
  BY DEF FindSessions
<1>2. PICK p : p = request[r]
  OBVIOUS
<1>3. /\ p \in RequestRows /\ p.step = "find" /\ Course(p) /\ Locked(p)
      /\ ~overlapped => Fresh(p)
      /\ request \in [Requests -> RequestRows] /\ TablesOK
  BY <1>1, <1>2, WorkingFacts DEF AccountInv
<1>4. p.operation \in Changing
  BY <1>3 DEF Course, Making, Changing, Kinds
<1>5. PICK q : q = [p EXCEPT !.found = {SessionRow(s) : s \in LiveSessions \ {p.on}},
                             !.step = "sessions"]
  OBVIOUS
<1>6. request' = [request EXCEPT ![r] = q]
  BY <1>2, <1>3, <1>5 DEF FindSessions, RequestRows
<1>7. {SessionRow(s) : s \in LiveSessions \ {p.on}} \subseteq Rows
  BY <1>3 DEF TablesOK, Rows, Ids, LiveSessions
<1>8. /\ q.operation = p.operation /\ q.on = p.on /\ q.read = p.read
      /\ q.step = "sessions" /\ q.held = p.held
      /\ q.found = {SessionRow(s) : s \in LiveSessions \ {p.on}}
      /\ q \in RequestRows
  BY <1>3, <1>5, <1>7 DEF RequestRows
<1>9. Course(q) /\ Complete(q)
  BY <1>4, <1>8 DEF Course, Complete, Making, Changing, Kinds
<1>10. Locked(q)
  BY <1>3, <1>4, <1>8 DEF Locked, Changing
<1>11. ASSUME ~overlapped PROVE Fresh(q)
  <2>1. Fresh(p)
    BY <1>3, <1>11
  <2>2. \A s \in LiveSessions : SessionRow(s) \in q.found \/ s = q.on
    BY <1>8
  <2> QED
    BY <1>3, <1>4, <1>8, <2>1, <2>2 DEF Fresh, Changing
<1>12. Sound(q)
  BY <1>8, <1>9, <1>10, <1>11 DEF Sound
<1>13. \A o \in Requests : o # r => q.held \cap request[o].held = {}
  BY <1>2, <1>8 DEF AccountInv, Exclusive
<1> QED
  BY <1>1, <1>6, <1>12, <1>13, RequestStep

\* The first statement of a request that goes on.
LEMMA BeginsKeeps ==
  ASSUME AccountInv, NEW r \in Requests, request[r].step = "new", Frame, Noted,
         NEW operation \in Kinds, NEW step \in {"session", "token", "user", "tokens", "commit"},
         NEW on \in Ids, NEW read \in Passwords, NEW found \in SUBSET Rows,
         Begins(r, operation, step, on, read, found),
         NEW q, q = [operation |-> operation, step |-> step, on |-> on, read |-> read,
                     found |-> found, held |-> {}],
         Course(q), Locked(q), ~overlapped => Fresh(q), Complete(q)
  PROVE  AccountInv'
<1>1. q \in RequestRows /\ q.held = {} /\ q.step \notin {"new", "done"}
  BY DEF RequestRows
<1>2. Sound(q)
  BY <1>1 DEF Sound
<1>3. request' = [request EXCEPT ![r] = q]
  BY DEF Begins
<1> QED
  BY <1>1, <1>2, <1>3, RequestStep

LEMMA ArriveKeeps ==
  ASSUME AccountInv, NEW r \in Requests, Arrive(r)
  PROVE  AccountInv'
<1>1. request[r].step = "new" /\ Noted /\ Frame
  BY DEF Arrive
<1>2. None \in Ids /\ None \in Passwords /\ {} \in SUBSET Rows
      /\ password \in Passwords /\ DOMAIN sessions \subseteq Ids /\ DOMAIN tokens \subseteq Ids
  BY DEF Ids, Passwords, AccountInv, TablesOK
<1>3. PICK operation \in Kinds :
         CASE operation = "register" -> RegisterUser(r)
           [] operation = "verify" -> VerifyEmailToken(r)
           [] operation = "resend" -> ResendVerification(r)
           [] operation = "login" -> AuthenticateUser(r)
           [] operation = "forgot" -> RequestPasswordReset(r)
           [] operation = "reset" -> ResetPassword(r)
           [] operation \in {"change", "revoke", "revoke others", "revoke all"} ->
                SessionLocked(r, operation)
  BY AccountAssumption DEF Arrive, Kinds
<1> DEFINE Row(step, on, read, found) ==
             [operation |-> operation, step |-> step, on |-> on, read |-> read,
              found |-> found, held |-> {}]
<1>4. CASE operation = "register"
  <2>1. RegisterUser(r)
    BY <1>3, <1>4
  <2>2. CASE status = "none"
    <3>1. Begins(r, "register", "user", None, None, {})
      BY <2>1, <2>2 DEF RegisterUser
    <3>2. /\ Course(Row("user", None, None, {})) /\ Locked(Row("user", None, None, {}))
          /\ Fresh(Row("user", None, None, {})) /\ Complete(Row("user", None, None, {}))
      BY <1>4 DEF Course, Locked, Fresh, Complete, Making, Changing, Kinds
    <3> QED
      BY <1>1, <1>2, <1>4, <3>1, <3>2, BeginsKeeps
  <2>3. CASE status # "none"
    <3>1. PICK q : q = Row("done", None, None, {})
      OBVIOUS
    <3>2. request' = [request EXCEPT ![r] = q]
      BY <1>4, <2>1, <2>3, <3>1 DEF RegisterUser, Begins
    <3>3. q \in RequestRows /\ q.held = {} /\ q.step = "done"
      BY <1>2, <3>1 DEF RequestRows
    <3>4. Sound(q)
      BY <3>3 DEF Sound
    <3> QED
      BY <1>1, <3>2, <3>3, <3>4, RequestStep
  <2> QED
    BY <2>2, <2>3
<1>5. CASE operation \in {"verify", "reset"}
  <2>1. PICK t \in DOMAIN tokens : Begins(r, operation, "token", t, None, {})
    BY <1>3, <1>5 DEF VerifyEmailToken, ResetPassword
  <2>2. /\ Course(Row("token", t, None, {})) /\ Locked(Row("token", t, None, {}))
        /\ Fresh(Row("token", t, None, {})) /\ Complete(Row("token", t, None, {}))
    BY <1>5, <2>1 DEF Course, Locked, Fresh, Complete, Making, Changing, Kinds
  <2> QED
    BY <1>1, <1>2, <2>1, <2>2, BeginsKeeps
<1>6. CASE operation \in Making
  <2>1. PICK found : found = {TokenRow(t) : t \in LiveTokens(PurposeOf(operation))}
    OBVIOUS
  <2>2. /\ Begins(r, operation, "tokens", None, None, found)
        /\ status # "none"
    BY <1>3, <1>6, <2>1
       DEF Making, PurposeOf, ResendVerification, RequestPasswordReset
  <2>3. found \in SUBSET Rows
    BY <1>2, <2>1 DEF LiveTokens, Rows
  <2>4. /\ Course(Row("tokens", None, None, found)) /\ Locked(Row("tokens", None, None, found))
        /\ Fresh(Row("tokens", None, None, found))
    BY <1>6 DEF Course, Locked, Fresh, Making, Changing, Kinds
  <2>5. Complete(Row("tokens", None, None, found))
    BY <2>1, <2>2 DEF Complete
  <2> QED
    BY <1>1, <1>2, <2>2, <2>3, <2>4, <2>5, BeginsKeeps
<1>7. CASE operation = "login"
  <2>1. PICK step \in {"commit", "user"} : Begins(r, "login", step, None, password, {})
    BY <1>3, <1>7 DEF AuthenticateUser
  <2>2. /\ Course(Row(step, None, password, {})) /\ Locked(Row(step, None, password, {}))
        /\ Fresh(Row(step, None, password, {})) /\ Complete(Row(step, None, password, {}))
    BY <1>7 DEF Course, Locked, Fresh, Complete, Making, Changing, Kinds
  <2> QED
    BY <1>1, <1>2, <1>7, <2>1, <2>2, BeginsKeeps
<1>8. CASE operation \in {"change", "revoke", "revoke others", "revoke all"}
  <2>1. PICK s \in DOMAIN sessions : Begins(r, operation, "session", s, None, {})
    BY <1>3, <1>8 DEF SessionLocked
  <2>2. /\ Course(Row("session", s, None, {})) /\ Locked(Row("session", s, None, {}))
        /\ Fresh(Row("session", s, None, {})) /\ Complete(Row("session", s, None, {}))
    BY <1>8, <2>1 DEF Course, Locked, Fresh, Complete, Making, Changing, Kinds
  <2> QED
    BY <1>1, <1>2, <2>1, <2>2, BeginsKeeps
<1> QED
  BY <1>4, <1>5, <1>6, <1>7, <1>8 DEF Kinds, Making

LEMMA DeadlockKeeps ==
  ASSUME AccountInv, NEW r \in Requests, Deadlock(r)
  PROVE  AccountInv'
BY EndsKeeps DEF Deadlock

-----------------------------------------------------------------------------
(* A commit *)

\* What the request that commits may rely on.
LEMMA CommitFacts ==
  ASSUME AccountInv, NEW r \in Requests, Commit(r)
  PROVE  /\ request[r] \in RequestRows
         /\ Course(request[r])
         /\ Locked(request[r])
         /\ request[r].found \subseteq request[r].held
         /\ ~overlapped => Fresh(request[r])
         /\ Complete(request[r])
         /\ r \notin DOMAIN sessions /\ r \notin DOMAIN tokens
         /\ request' = [request EXCEPT ![r] = [New EXCEPT !.step = "done"]]
         /\ request' \in [Requests -> RequestRows]
         /\ request'[r].step = "done" /\ request'[r].held = {}
<1>1. request[r].step = "commit"
  BY DEF Commit
<1>2. /\ request[r] \in RequestRows
      /\ Course(request[r])
      /\ Locked(request[r])
      /\ ~overlapped => Fresh(request[r])
      /\ Complete(request[r])
  BY <1>1, WorkingFacts
<1>3. request[r].found \subseteq request[r].held
  BY <1>1, <1>2 DEF Locked
<1>4. r \notin DOMAIN sessions /\ r \notin DOMAIN tokens
  BY <1>1 DEF AccountInv, Numbered
<1>5. /\ request' = [request EXCEPT ![r] = [New EXCEPT !.step = "done"]]
      /\ request' \in [Requests -> RequestRows]
  BY NewRow DEF Commit, Ends, AccountInv
<1>6. request'[r].step = "done" /\ request'[r].held = {}
  BY <1>5 DEF New, AccountInv
<1> QED
  BY <1>2, <1>3, <1>4, <1>5, <1>6

\* What a commit makes of the tables.
LEMMA CommitTables ==
  ASSUME AccountInv, NEW r \in Requests, Commit(r)
  PROVE  /\ DOMAIN sessions' = DOMAIN sessions \cup Made(r, {"login"})
         /\ \A s \in DOMAIN sessions :
              sessions'[s] = IF s \in Revoked(r) THEN [sessions[s] EXCEPT !.live = FALSE]
                             ELSE IF request[r].operation = "change" /\ s = request[r].on
                                  THEN [sessions[s] EXCEPT !.proved = r]
                                  ELSE sessions[s]
         /\ request[r].operation = "login" =>
              sessions'[r] = [live |-> TRUE, proved |-> request[r].read]
         /\ DOMAIN tokens' = DOMAIN tokens \cup Made(r, Mailing)
         /\ \A t \in DOMAIN tokens :
              tokens'[t] = IF t \in Spent(r) THEN [tokens[t] EXCEPT !.live = FALSE] ELSE tokens[t]
         /\ request[r].operation \in Mailing =>
              tokens'[r] = [purpose |-> PurposeOf(request[r].operation), live |-> TRUE]
<1>1. /\ sessions' =
            [s \in DOMAIN sessions \cup Made(r, {"login"}) |->
               IF s \in Made(r, {"login"}) THEN [live |-> TRUE, proved |-> request[r].read]
               ELSE IF s \in Revoked(r) THEN [sessions[s] EXCEPT !.live = FALSE]
               ELSE IF request[r].operation = "change" /\ s = request[r].on
                    THEN [sessions[s] EXCEPT !.proved = r]
                    ELSE sessions[s]]
      /\ tokens' =
            [t \in DOMAIN tokens \cup Made(r, Mailing) |->
               IF t \in Made(r, Mailing)
               THEN [purpose |-> PurposeOf(request[r].operation), live |-> TRUE]
               ELSE IF t \in Spent(r) THEN [tokens[t] EXCEPT !.live = FALSE] ELSE tokens[t]]
  BY DEF Commit
<1>2. r \notin DOMAIN sessions /\ r \notin DOMAIN tokens
  BY CommitFacts
<1>3. \A kinds : \A n \in Made(r, kinds) : n = r /\ request[r].operation \in kinds
  BY DEF Made
<1>4. \A kinds : request[r].operation \in kinds => r \in Made(r, kinds)
  BY DEF Made
<1>5. /\ DOMAIN sessions' = DOMAIN sessions \cup Made(r, {"login"})
      /\ DOMAIN tokens' = DOMAIN tokens \cup Made(r, Mailing)
  BY <1>1
<1>6. /\ \A s \in DOMAIN sessions :
              sessions'[s] = IF s \in Revoked(r) THEN [sessions[s] EXCEPT !.live = FALSE]
                             ELSE IF request[r].operation = "change" /\ s = request[r].on
                                  THEN [sessions[s] EXCEPT !.proved = r]
                                  ELSE sessions[s]
      /\ request[r].operation = "login" =>
              sessions'[r] = [live |-> TRUE, proved |-> request[r].read]
  BY <1>1, <1>2, <1>3, <1>4
<1>7. /\ \A t \in DOMAIN tokens :
              tokens'[t] = IF t \in Spent(r) THEN [tokens[t] EXCEPT !.live = FALSE] ELSE tokens[t]
      /\ request[r].operation \in Mailing =>
              tokens'[r] = [purpose |-> PurposeOf(request[r].operation), live |-> TRUE]
  BY <1>1, <1>2, <1>3, <1>4
<1> QED
  BY <1>5, <1>6, <1>7

\* The same, as the invariant uses it.
LEMMA CommitEffects ==
  ASSUME AccountInv, NEW r \in Requests, Commit(r), NEW operation, operation = request[r].operation
  PROVE  /\ TablesOK'
         /\ LiveSessions' \subseteq LiveSessions \cup {n \in {r} : operation = "login"}
         /\ \A s \in LiveSessions :
              s \in LiveSessions' \/ SessionRow(s) \in request[r].held
         /\ \A s \in LiveSessions' : SessionRow(s) \in request[r].held /\ operation \in Changing
                                     => s = request[r].on
         /\ \A p : LiveTokens(p)' \subseteq LiveTokens(p) \cup
              {n \in {r} : operation \in Mailing /\ p = PurposeOf(operation)}
         /\ \A p : \A t \in LiveTokens(p)' : t = r \/ TokenRow(t) \notin request[r].held
         /\ operation = "register" => status = "none" /\ status' = "pending"
         /\ status # "none" => status' # "none"
<1>1. /\ request[r] \in RequestRows
      /\ Course(request[r])
      /\ Locked(request[r])
      /\ request[r].found \subseteq request[r].held
      /\ Complete(request[r])
      /\ r \notin DOMAIN sessions /\ r \notin DOMAIN tokens
      /\ request' \in [Requests -> RequestRows]
  BY CommitFacts
<1>2. TablesOK /\ operation \in Kinds /\ request[r].step = "commit"
  BY <1>1 DEF AccountInv, Course, Commit
<1>3. /\ DOMAIN sessions' = DOMAIN sessions \cup {n \in {r} : operation = "login"}
      /\ DOMAIN tokens' = DOMAIN tokens \cup {n \in {r} : operation \in Mailing}
  <2>1. /\ DOMAIN sessions' = DOMAIN sessions \cup Made(r, {"login"})
        /\ DOMAIN tokens' = DOMAIN tokens \cup Made(r, Mailing)
    BY CommitTables
  <2> QED
    BY <2>1 DEF Made
<1>4. ASSUME NEW s \in DOMAIN sessions
      PROVE  sessions'[s] = IF s \in Revoked(r) THEN [sessions[s] EXCEPT !.live = FALSE]
                            ELSE IF operation = "change" /\ s = request[r].on
                                 THEN [sessions[s] EXCEPT !.proved = r]
                                 ELSE sessions[s]
  BY CommitTables
<1>5. operation = "login" => sessions'[r] = [live |-> TRUE, proved |-> request[r].read]
  BY CommitTables
<1>6. ASSUME NEW t \in DOMAIN tokens
      PROVE  tokens'[t] = IF t \in Spent(r) THEN [tokens[t] EXCEPT !.live = FALSE] ELSE tokens[t]
  BY CommitTables
<1>7. operation \in Mailing => tokens'[r] = [purpose |-> PurposeOf(operation), live |-> TRUE]
  BY CommitTables
<1>8. /\ \A s \in DOMAIN sessions : sessions[s] \in [live : BOOLEAN, proved : Passwords]
      /\ \A t \in DOMAIN tokens : tokens[t] \in [purpose : {"verify", "reset"}, live : BOOLEAN]
  BY <1>2 DEF TablesOK
<1>9. ASSUME NEW s \in DOMAIN sessions
      PROVE  /\ sessions'[s] \in [live : BOOLEAN, proved : Passwords]
             /\ s \in Revoked(r) => ~sessions'[s].live
             /\ s \notin Revoked(r) => (sessions'[s].live <=> sessions[s].live)
  <2>1. sessions[s] \in [live : BOOLEAN, proved : Passwords] /\ r \in Passwords
    BY <1>8 DEF Passwords
  <2> QED
    BY <1>4, <2>1
<1>10. ASSUME NEW t \in DOMAIN tokens
       PROVE  /\ tokens'[t] \in [purpose : {"verify", "reset"}, live : BOOLEAN]
              /\ tokens'[t].purpose = tokens[t].purpose
              /\ t \in Spent(r) => ~tokens'[t].live
              /\ t \notin Spent(r) => (tokens'[t].live <=> tokens[t].live)
  <2>1. tokens[t] \in [purpose : {"verify", "reset"}, live : BOOLEAN]
    BY <1>8
  <2> QED
    BY <1>6, <2>1
<1>11. Revoked(r) \subseteq {s \in DOMAIN sessions : SessionRow(s) \in request[r].held}
  BY <1>1 DEF Revoked, RevokedByPassword
<1>12. status' = CASE operation = "register" -> "pending"
                   [] operation = "verify" -> "active"
                   [] OTHER -> status
  BY DEF Commit
<1>13. operation = "register" => status = "none" /\ status' = "pending"
  BY <1>1, <1>2, <1>12 DEF Locked
<1>14. status # "none" => status' # "none"
  BY <1>12
<1>15. TablesOK'
  <2>1. status' \in {"none", "pending", "active"}
    BY <1>2, <1>12 DEF TablesOK
  <2>2. /\ overlapped' \in BOOLEAN /\ together' \in BOOLEAN
    BY <1>1, NotedKeeps DEF Commit, AccountInv, TablesOK
  <2>3. password' \in Passwords
    <3>1. password' = CASE operation \in Changing -> r
                          [] operation = "login" /\ User \in request[r].held -> request[r].read
                          [] OTHER -> password
      BY DEF Commit
    <3>2. r \in Passwords /\ request[r].read \in Passwords /\ password \in Passwords
      BY <1>1, <1>2 DEF Passwords, TablesOK, RequestRows
    <3> QED
      BY <3>1, <3>2
  <2>4. \A s \in DOMAIN sessions' : sessions'[s] \in [live : BOOLEAN, proved : Passwords]
    <3>1. request[r].read \in Passwords
      BY <1>1 DEF RequestRows
    <3>2. [live |-> TRUE, proved |-> request[r].read] \in [live : BOOLEAN, proved : Passwords]
      BY <3>1
    <3>3. operation = "login" => sessions'[r] \in [live : BOOLEAN, proved : Passwords]
      BY <1>5, <3>2
    <3> QED
      BY <1>3, <1>9, <3>3
  <2>5. \A t \in DOMAIN tokens' : tokens'[t] \in [purpose : {"verify", "reset"}, live : BOOLEAN]
    <3>1. PurposeOf(operation) \in {"verify", "reset"}
      BY DEF PurposeOf
    <3>2. [purpose |-> PurposeOf(operation), live |-> TRUE]
            \in [purpose : {"verify", "reset"}, live : BOOLEAN]
      BY <3>1
    <3>3. operation \in Mailing => tokens'[r] \in [purpose : {"verify", "reset"}, live : BOOLEAN]
      BY <1>7, <3>2
    <3> QED
      BY <1>3, <1>10, <3>3
  <2>6. status' = "none" => DOMAIN tokens' = {}
    <3> SUFFICES ASSUME status' = "none" PROVE DOMAIN tokens' = {}
      OBVIOUS
    <3>1. status = "none" /\ operation # "register"
      BY <1>13, <1>14
    <3>2. operation \notin Mailing /\ DOMAIN tokens = {}
      BY <1>1, <1>2, <3>1 DEF Complete, Mailing, TablesOK
    <3> QED
      BY <1>3, <3>2
  <2>7. /\ DOMAIN sessions' \subseteq OldSessions \cup Requests
        /\ DOMAIN tokens' \subseteq Requests
    BY <1>2, <1>3 DEF TablesOK
  <2>8. DOMAIN sessions' \cap DOMAIN tokens' = {}
    <3>1. operation = "login" => operation \notin Mailing
      BY DEF Mailing, Making
    <3>2. DOMAIN sessions \cap DOMAIN tokens = {}
      BY <1>2 DEF TablesOK
    <3> QED
      BY <1>1, <1>3, <3>1, <3>2
  <2> QED
    BY <2>1, <2>2, <2>3, <2>4, <2>5, <2>6, <2>7, <2>8 DEF TablesOK
<1>16. LiveSessions' \subseteq LiveSessions \cup {n \in {r} : operation = "login"}
  BY <1>3, <1>9 DEF LiveSessions
<1>17. ASSUME NEW s \in LiveSessions PROVE s \in LiveSessions' \/ SessionRow(s) \in request[r].held
  BY <1>3, <1>9, <1>11 DEF LiveSessions
<1>18. ASSUME NEW s \in LiveSessions', SessionRow(s) \in request[r].held, operation \in Changing
       PROVE  s = request[r].on
  <2>1. s \in DOMAIN sessions
    BY <1>3, <1>18 DEF LiveSessions, Changing
  <2>2. s \notin Revoked(r)
    BY <1>9, <2>1 DEF LiveSessions
  <2>3. Revoked(r) = RevokedByPassword(r) \ {request[r].on}
    BY <1>18 DEF Revoked, Changing
  <2> QED
    BY <1>18, <2>1, <2>2, <2>3 DEF RevokedByPassword
<1>19. ASSUME NEW p
       PROVE LiveTokens(p)' \subseteq LiveTokens(p) \cup
              {n \in {r} : operation \in Mailing /\ p = PurposeOf(operation)}
  <2>1. operation \in Mailing => tokens'[r].purpose = PurposeOf(operation)
    BY <1>7
  <2> QED
    BY <1>3, <1>10, <2>1 DEF LiveTokens
<1>20. ASSUME NEW p, NEW t \in LiveTokens(p)' PROVE t = r \/ TokenRow(t) \notin request[r].held
  BY <1>3, <1>10 DEF LiveTokens, Spent
<1> QED
  BY <1>13, <1>14, <1>15, <1>16, <1>17, <1>18, <1>19, <1>20

\* What a request that does not commit may rely on stays so.
LEMMA OthersStaySound ==
  ASSUME AccountInv, NEW r \in Requests, Commit(r),
         NEW o \in Requests, o # r, NEW p, p = request[o]
  PROVE  Sound(p)'
<1>1. PICK operation : operation = request[r].operation
  OBVIOUS
<1>2. /\ request[r] \in RequestRows
      /\ Course(request[r])
      /\ Locked(request[r])
      /\ request[r].found \subseteq request[r].held
      /\ ~overlapped => Fresh(request[r])
      /\ Complete(request[r])
      /\ r \notin DOMAIN sessions /\ r \notin DOMAIN tokens
      /\ request' \in [Requests -> RequestRows]
  BY CommitFacts
<1>3. /\ TablesOK' /\ TablesOK
      /\ LiveSessions' \subseteq LiveSessions \cup {n \in {r} : operation = "login"}
      /\ \A s \in LiveSessions : s \in LiveSessions' \/ SessionRow(s) \in request[r].held
      /\ \A q : LiveTokens(q)' \subseteq LiveTokens(q) \cup
              {n \in {r} : operation \in Mailing /\ q = PurposeOf(operation)}
      /\ operation = "register" => status = "none" /\ status' = "pending"
      /\ status # "none" => status' # "none"
  BY <1>1, CommitEffects DEF AccountInv
<1>4. p \in RequestRows /\ (p.step \in {"new", "done"} => p.held = {}) /\ Sound(p)
  BY DEF AccountInv, Sound
<1>5. request[r].held \cap p.held = {}
  BY DEF AccountInv, Exclusive
<1>6. /\ overlapped => overlapped'
      /\ together => together'
      /\ ~overlapped => AtWork({"login"}) = {} \/ AtWork(Changing) = {}
      /\ ~together => \A n, m \in AtWork(Making) : n = m
  BY <1>2, NotedKeeps DEF Commit, AccountInv, TablesOK, Apart
<1>7. request[r].step = "commit" /\ ~Ended(r)
  BY DEF Commit, Ended
<1>8. SUFFICES ASSUME p.step \notin {"new", "done"}
               PROVE  Course(p) /\ Locked(p)' /\ (~overlapped' => Fresh(p)') /\ Complete(p)'
  BY <1>4 DEF Sound, Course
<1>9. Course(p) /\ Locked(p) /\ (~overlapped => Fresh(p)) /\ Complete(p) /\ ~Ended(o)
  BY <1>4, <1>8 DEF Sound, Ended
<1>10. Locked(p)'
  <2>1. p.step = "commit" => p.found \subseteq p.held
    BY <1>9 DEF Locked
  <2>2. p.step \in {"session", "token", "read", "user", "find"} => p.found = {}
    BY <1>9 DEF Locked
  <2>3. p.operation \in Changing /\ p.step \in {"find", "sessions", "commit"} => User \in p.held
    BY <1>9 DEF Locked
  <2>4. p.operation = "verify" /\ p.step = "commit" => User \in p.held
    BY <1>9 DEF Locked
  <2>5. p.operation = "register" /\ p.step = "commit" => User \in p.held /\ status' = "none"
    <3> SUFFICES ASSUME p.operation = "register", p.step = "commit"
                 PROVE  User \in p.held /\ status' = "none"
      OBVIOUS
    <3>1. User \in p.held /\ status = "none"
      BY <1>9 DEF Locked
    <3>2. User \notin request[r].held
      BY <1>5, <3>1
    <3>3. operation # "register"
      BY <1>1, <1>2, <1>7, <3>2 DEF Locked
    <3>4. operation # "verify"
      BY <1>1, <1>2, <1>7, <3>2 DEF Locked
    <3> QED
      BY <1>1, <3>1, <3>3, <3>4 DEF Commit
  <2>6. p.operation \in {"verify", "reset"} => p.on \in DOMAIN tokens'
    <3>1. DOMAIN tokens \subseteq DOMAIN tokens'
      BY CommitTables
    <3> QED
      BY <1>9, <3>1 DEF Locked
  <2>7. p.operation = "change" => p.on \in DOMAIN sessions'
    <3>1. DOMAIN sessions \subseteq DOMAIN sessions'
      BY CommitTables
    <3> QED
      BY <1>9, <3>1 DEF Locked
  <2>8. p.operation = "change" /\ p.step # "session" =>
           sessions'[p.on].live /\ SessionRow(p.on) \in p.held
    <3> SUFFICES ASSUME p.operation = "change", p.step # "session"
                 PROVE  sessions'[p.on].live /\ SessionRow(p.on) \in p.held
      OBVIOUS
    <3>1. p.on \in LiveSessions /\ SessionRow(p.on) \in p.held
      BY <1>9 DEF Locked, LiveSessions
    <3>2. p.on \in LiveSessions'
      BY <1>3, <1>5, <3>1
    <3> QED
      BY <3>1, <3>2 DEF LiveSessions
  <2> QED
    BY <2>1, <2>2, <2>3, <2>4, <2>5, <2>6, <2>7, <2>8 DEF Locked
<1>11. ASSUME ~overlapped' PROVE Fresh(p)'
  <2>1. ~overlapped /\ Fresh(p) /\ Fresh(request[r])
    BY <1>2, <1>6, <1>9, <1>11
  <2>2. p.operation = "login" => operation \notin Changing
    <3>1. p.operation = "login" => o \in AtWork({"login"})
      BY <1>9 DEF AtWork
    <3>2. operation \in Changing => r \in AtWork(Changing)
      BY <1>1, <1>7 DEF AtWork
    <3> QED
      BY <1>6, <2>1, <3>1, <3>2
  <2>3. p.operation \in Changing => operation # "login"
    <3>1. p.operation \in Changing => o \in AtWork(Changing)
      BY <1>9 DEF AtWork
    <3>2. operation = "login" => r \in AtWork({"login"})
      BY <1>1, <1>7 DEF AtWork
    <3> QED
      BY <1>6, <2>1, <3>1, <3>2
  <2>4. operation \notin Changing => password' = password
    <3>1. operation = "login" => request[r].read = password
      BY <1>1, <2>1 DEF Fresh
    <3> QED
      BY <1>1, <3>1 DEF Commit
  <2>5. p.operation = "login" => p.read = password'
    BY <2>1, <2>2, <2>4 DEF Fresh
  <2>6. p.operation = "change" /\ p.step \in {"user", "find", "sessions", "commit"} =>
           p.read = password'
    <3> SUFFICES ASSUME p.operation = "change", p.step \in {"user", "find", "sessions", "commit"}
                 PROVE  p.read = password'
      OBVIOUS
    <3>1. p.on \in LiveSessions /\ SessionRow(p.on) \in p.held /\ p.on \in DOMAIN sessions
      BY <1>9 DEF Locked, LiveSessions
    <3>2. ASSUME operation \in Changing PROVE FALSE
      <4>1. SessionRow(p.on) \in request[r].held \/ p.on = request[r].on
        BY <1>1, <1>2, <1>7, <2>1, <3>1, <3>2 DEF Fresh
      <4>2. p.on = request[r].on
        BY <1>5, <3>1, <4>1
      <4>3. CASE operation = "change"
        BY <1>1, <1>2, <1>5, <1>7, <3>1, <4>2, <4>3 DEF Locked
      <4>4. CASE operation = "reset"
        BY <1>1, <1>2, <1>3, <3>1, <4>2, <4>4 DEF Locked, TablesOK
      <4> QED
        BY <3>2, <4>3, <4>4 DEF Changing
    <3> QED
      BY <2>1, <2>4, <3>2 DEF Fresh
  <2>7. p.operation \in Changing /\ p.step \in {"sessions", "commit"} =>
           \A s \in LiveSessions' : SessionRow(s) \in p.found \/ s = p.on
    BY <1>3, <2>1, <2>3 DEF Fresh
  <2> QED
    BY <2>5, <2>6, <2>7 DEF Fresh
<1>12. Complete(p)'
  <2> SUFFICES ASSUME p.operation \in Making
               PROVE  /\ status' # "none"
                      /\ ~together' =>
                           \A t \in LiveTokens(PurposeOf(p.operation))' : TokenRow(t) \in p.found
    BY DEF Complete
  <2>1. status # "none" /\ status' # "none"
    BY <1>3, <1>9 DEF Complete
  <2>2. ASSUME ~together' PROVE operation \notin Mailing
    <3>1. operation # "register"
      BY <1>3, <2>1
    <3>2. o \in AtWork(Making)
      BY <1>9 DEF AtWork
    <3>3. operation \in Making => r \in AtWork(Making)
      BY <1>1, <1>7 DEF AtWork
    <3> QED
      BY <1>6, <2>2, <3>1, <3>2, <3>3 DEF Mailing
  <2>3. PICK purpose : purpose = PurposeOf(p.operation)
    OBVIOUS
  <2>4. ASSUME ~together' PROVE \A t \in LiveTokens(purpose)' : TokenRow(t) \in p.found
    <3>1. LiveTokens(purpose)' \subseteq LiveTokens(purpose)
      BY <1>3, <2>2, <2>4
    <3>2. \A t \in LiveTokens(purpose) : TokenRow(t) \in p.found
      BY <1>6, <1>9, <2>3, <2>4 DEF Complete
    <3> QED
      BY <3>1, <3>2
  <2> QED
    BY <2>1, <2>3, <2>4
<1> QED
  BY <1>9, <1>10, <1>11, <1>12

LEMMA CommitKeeps ==
  ASSUME AccountInv, NEW r \in Requests, Commit(r)
  PROVE  AccountInv'
<1>1. PICK operation : operation = request[r].operation
  OBVIOUS
<1>2. /\ request[r] \in RequestRows
      /\ Course(request[r])
      /\ Locked(request[r])
      /\ request[r].found \subseteq request[r].held
      /\ ~overlapped => Fresh(request[r])
      /\ Complete(request[r])
      /\ r \notin DOMAIN sessions /\ r \notin DOMAIN tokens
      /\ request' = [request EXCEPT ![r] = [New EXCEPT !.step = "done"]]
      /\ request' \in [Requests -> RequestRows]
      /\ request'[r].step = "done" /\ request'[r].held = {}
  BY CommitFacts
<1>3. /\ TablesOK' /\ TablesOK
      /\ LiveSessions' \subseteq LiveSessions \cup {n \in {r} : operation = "login"}
      /\ \A s \in LiveSessions' : SessionRow(s) \in request[r].held /\ operation \in Changing
                                  => s = request[r].on
      /\ \A q : LiveTokens(q)' \subseteq LiveTokens(q) \cup
              {n \in {r} : operation \in Mailing /\ q = PurposeOf(operation)}
      /\ \A q : \A t \in LiveTokens(q)' : t = r \/ TokenRow(t) \notin request[r].held
      /\ operation = "register" => status = "none"
  BY <1>1, CommitEffects DEF AccountInv
<1>4. \A o \in Requests : o # r => request'[o] = request[o]
  BY <1>2 DEF AccountInv
<1>5. request[r].step = "commit"
  BY DEF Commit
<1>6. ASSUME NEW o \in Requests PROVE Sound(request[o])'
  <2>1. CASE o = r
    <3>1. PICK p : p = request'[r]
      OBVIOUS
    <3>2. p \in RequestRows /\ p.step = "done" /\ p.held = {}
      BY <1>2, <3>1
    <3>3. Sound(p)'
      BY <3>2 DEF Sound
    <3> QED
      BY <2>1, <3>1, <3>3
  <2>2. CASE o # r
    <3>1. PICK p : p = request[o]
      OBVIOUS
    <3>2. Sound(p)'
      BY <2>2, <3>1, OthersStaySound
    <3>3. p = request'[o]
      BY <1>4, <2>2, <3>1
    <3> QED
      BY <3>2, <3>3
  <2> QED
    BY <2>1, <2>2
<1>7. Numbered'
  <2>1. /\ DOMAIN sessions' = DOMAIN sessions \cup Made(r, {"login"})
        /\ DOMAIN tokens' = DOMAIN tokens \cup Made(r, Mailing)
    BY CommitTables
  <2> QED
    BY <1>2, <1>4, <2>1 DEF AccountInv, Numbered, Made
<1>8. Exclusive'
  BY <1>2, <1>4 DEF AccountInv, Exclusive
<1>9. /\ overlapped => overlapped'
      /\ together => together'
      /\ Apart'
  BY <1>2, NotedKeeps DEF Commit, AccountInv, TablesOK
<1>10. LiveSessionsKnowThePassword'
  <2> SUFFICES ASSUME ~overlapped', NEW s \in LiveSessions' PROVE sessions'[s].proved = password'
    BY DEF LiveSessionsKnowThePassword
  <2>1. ~overlapped /\ Fresh(request[r])
    BY <1>2, <1>9
  <2>2. \A n \in LiveSessions : sessions[n].proved = password
    BY <2>1 DEF AccountInv, LiveSessionsKnowThePassword
  <2>3. CASE operation \in Changing
    <3>1. password' = r
      BY <1>1, <2>3 DEF Commit, Changing
    <3>2. s \in LiveSessions /\ s \in DOMAIN sessions
      BY <1>3, <2>3 DEF Changing, LiveSessions
    <3>3. s = request[r].on
      BY <1>1, <1>2, <1>3, <1>5, <2>1, <2>3, <3>2 DEF Fresh
    <3>4. operation = "change"
      BY <1>1, <1>2, <1>3, <2>3, <3>2, <3>3 DEF Changing, Locked, TablesOK
    <3>5. sessions'[s] = IF s \in Revoked(r) THEN [sessions[s] EXCEPT !.live = FALSE]
                         ELSE [sessions[s] EXCEPT !.proved = r]
      BY <1>1, <3>2, <3>3, <3>4, CommitTables
    <3>6. s \notin Revoked(r)
      BY <1>1, <2>3, <3>3 DEF Revoked, Changing
    <3>7. sessions[s] \in [live : BOOLEAN, proved : Passwords]
      BY <1>3, <3>2 DEF TablesOK
    <3> QED
      BY <3>1, <3>5, <3>6, <3>7
  <2>4. CASE operation \notin Changing
    <3>1. operation = "login" => request[r].read = password
      BY <1>1, <2>1 DEF Fresh
    <3>2. password' = password
      BY <1>1, <2>4, <3>1 DEF Commit
    <3>3. CASE s \in LiveSessions
      <4>1. s \in DOMAIN sessions /\ operation # "change"
        BY <2>4, <3>3 DEF LiveSessions, Changing
      <4>2. sessions'[s] = IF s \in Revoked(r) THEN [sessions[s] EXCEPT !.live = FALSE]
                           ELSE sessions[s]
        BY <1>1, <4>1, CommitTables
      <4>3. sessions[s] \in [live : BOOLEAN, proved : Passwords]
        BY <1>3, <4>1 DEF TablesOK
      <4>4. sessions'[s].proved = sessions[s].proved
        BY <4>2, <4>3
      <4> QED
        BY <2>2, <3>2, <3>3, <4>4
    <3>4. CASE s \notin LiveSessions
      <4>1. s = r /\ operation = "login"
        BY <1>3, <3>4
      <4>2. sessions'[r] = [live |-> TRUE, proved |-> request[r].read]
        BY <1>1, <4>1, CommitTables
      <4> QED
        BY <3>1, <3>2, <4>1, <4>2
    <3> QED
      BY <3>3, <3>4
  <2> QED
    BY <2>3, <2>4
<1>11. OneToken'
  <2> SUFFICES ASSUME ~together', NEW purpose \in {"verify", "reset"},
                      NEW t \in LiveTokens(purpose)', NEW u \in LiveTokens(purpose)'
               PROVE  t = u
    BY DEF OneToken
  <2>1. ~together /\ \A n, m \in LiveTokens(purpose) : n = m
    BY <1>9 DEF AccountInv, OneToken
  <2>2. CASE ~(operation \in Mailing /\ purpose = PurposeOf(operation))
    BY <1>3, <2>1, <2>2
  <2>3. CASE operation = "register"
    <3>1. LiveTokens(purpose) = {}
      BY <1>3, <2>3 DEF TablesOK, LiveTokens
    <3> QED
      BY <1>3, <3>1
  <2>4. CASE operation \in Making /\ purpose = PurposeOf(operation)
    <3>1. \A n \in LiveTokens(purpose) : TokenRow(n) \in request[r].held
      BY <1>1, <1>2, <2>1, <2>4 DEF Complete
    <3> QED
      BY <1>3, <3>1
  <2> QED
    BY <2>2, <2>3, <2>4 DEF Mailing
<1> QED
  BY <1>2, <1>3, <1>6, <1>7, <1>8, <1>9, <1>10, <1>11 DEF AccountInv

-----------------------------------------------------------------------------
(* The account *)

LEMMA AccountStep == AccountInv /\ AccountNext => AccountInv'
BY ArriveKeeps, LockSessionKeeps, LockTokenKeeps, ReadUserKeeps, TakeUserKeeps,
   FindSessionsKeeps, TakeRowsKeeps, CommitKeeps, DeadlockKeeps DEF AccountNext

LEMMA AccountRests == AccountInv /\ UNCHANGED account => AccountInv'
<1> SUFFICES ASSUME AccountInv, UNCHANGED account PROVE AccountInv'
  OBVIOUS
<1>1. /\ status' = status /\ password' = password /\ sessions' = sessions /\ tokens' = tokens
      /\ request' = request /\ overlapped' = overlapped /\ together' = together
  BY DEF account
<1>2. LiveSessions' = LiveSessions /\ \A p : LiveTokens(p)' = LiveTokens(p)
  BY <1>1 DEF LiveSessions, LiveTokens
<1>3. \A kinds : AtWork(kinds)' = AtWork(kinds)
  BY <1>1 DEF AtWork, Ended
<1>4. TablesOK'
  BY <1>1 DEF AccountInv, TablesOK
<1>5. ASSUME NEW o \in Requests PROVE Sound(request[o])'
  <2>1. PICK p : p = request[o]
    OBVIOUS
  <2>2. Sound(p)
    BY <2>1 DEF AccountInv
  <2>3. Sound(p)'
    BY <1>1, <2>2, SoundKept DEF Frame
  <2> QED
    BY <1>1, <2>1, <2>3
<1>6. Numbered' /\ Exclusive'
  BY <1>1 DEF AccountInv, Numbered, Exclusive
<1>7. Apart'
  BY <1>1, <1>3 DEF AccountInv, Apart
<1>8. LiveSessionsKnowThePassword' /\ OneToken'
  BY <1>1, <1>2 DEF AccountInv, LiveSessionsKnowThePassword, OneToken
<1> QED
  BY <1>1, <1>4, <1>5, <1>6, <1>7, <1>8 DEF AccountInv

\* The inductive invariant of the account holds in every behaviour.
THEOREM AccountInvariant == Spec => []AccountInv
<1>1. Init => AccountInv
  BY AccountInitial DEF Init
<1>2. AccountInv /\ [Next]_services => AccountInv'
  <2> SUFFICES ASSUME AccountInv, [Next]_services PROVE AccountInv'
    OBVIOUS
  <2>1. CASE AccountNext
    BY <2>1, AccountStep
  <2>2. CASE UNCHANGED account
    BY <2>2, AccountRests
  <2> QED
    BY <2>1, <2>2 DEF Next, Rest, services
<1> QED
  BY <1>1, <1>2, PTL DEF Spec

\* However requests overlap, unless a login did with a change of password or a
\* reset (auth/service.py:313, 477, 510), a session that is live belongs to
\* someone who has proved the current password.
THEOREM SessionsHold == Spec => []LiveSessionsKnowThePassword
<1>1. AccountInv => LiveSessionsKnowThePassword
  BY DEF AccountInv
<1> QED
  BY <1>1, AccountInvariant, PTL

\* However requests overlap, unless two for a token did (auth/service.py:242,
\* 423), at most one link of a purpose is good.
THEOREM TokensHold == Spec => []OneLiveToken
<1>1. AccountInv => OneLiveToken
  <2> SUFFICES ASSUME AccountInv, ~together, NEW purpose \in {"verify", "reset"}
               PROVE  Cardinality(LiveTokens(purpose)) <= 1
    BY DEF OneLiveToken
  <2>1. \A t, u \in LiveTokens(purpose) : t = u
    BY DEF AccountInv, OneToken
  <2>2. CASE LiveTokens(purpose) = {}
    BY <2>2, FS_EmptySet
  <2>3. CASE LiveTokens(purpose) # {}
    <3>1. PICK t : LiveTokens(purpose) = {t}
      BY <2>1, <2>3
    <3>2. Cardinality({t}) = 1
      BY FS_Singleton
    <3> QED
      BY <3>1, <3>2
  <2> QED
    BY <2>2, <2>3
<1> QED
  BY <1>1, AccountInvariant, PTL

\* The check of a change of password and its write are statements apart
\* (auth/service.py:503, 508), and still the password it replaces is the one it
\* has checked: another change or a reset would have to revoke the session
\* that it holds.
THEOREM ChangeHolds == Spec => ChangeReplacesWhatItProved
<1>1. ASSUME AccountInv, NEW q \in Requests, Commit(q), NEW r \in Requests,
             ~overlapped, request[r].operation = "change", password # password', password' = r
      PROVE  request[r].read = password
  <2>1. /\ Course(request[q]) /\ Fresh(request[q])
    BY <1>1, CommitFacts
  <2>2. request[q].operation \in Changing
    BY <1>1, <2>1 DEF Commit, Fresh
  <2>3. password' = q
    BY <1>1, <2>2 DEF Commit, Changing
  <2>4. request[q].step = "commit" /\ q = r
    BY <1>1, <2>3 DEF Commit
  <2> QED
    BY <1>1, <2>1, <2>4 DEF Fresh
<1>2. ASSUME AccountInv, AccountNext, NEW r \in Requests,
             ~overlapped, request[r].operation = "change", password # password', password' = r
      PROVE  request[r].read = password
  <2>1. PICK q \in Requests :
          Arrive(q) \/ LockSession(q) \/ LockToken(q) \/ ReadUser(q) \/ TakeUser(q)
          \/ FindSessions(q) \/ TakeRows(q) \/ Commit(q) \/ Deadlock(q)
    BY <1>2 DEF AccountNext
  <2>2. Commit(q)
    BY <1>2, <2>1 DEF Arrive, LockSession, LockToken, ReadUser, TakeUser, FindSessions,
                      TakeRows, Deadlock, Frame
  <2> QED
    BY <1>1, <1>2, <2>2
<1>3. AccountInv /\ [Next]_services
      => [\A r \in Requests :
            ~overlapped /\ request[r].operation = "change" /\ password # password' /\ password' = r
            => request[r].read = password]_account
  <2> SUFFICES ASSUME AccountInv, [Next]_services, ~UNCHANGED account, NEW r \in Requests,
                      ~overlapped, request[r].operation = "change",
                      password # password', password' = r
               PROVE  request[r].read = password
    OBVIOUS
  <2>1. AccountNext
    BY DEF Next, Rest, services
  <2> QED
    BY <1>2, <2>1
<1> QED
  BY <1>3, AccountInvariant, PTL DEF Spec, ChangeReplacesWhatItProved
=============================================================================
