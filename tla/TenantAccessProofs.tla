------------------------- MODULE TenantAccessProofs -------------------------
(***************************************************************************)
(* The properties of TenantAccess hold for every tenant, every group of    *)
(* users and every number of sessions.                                     *)
(*                                                                         *)
(* A request touches the database twice: when it has decided, only its own *)
(* transaction changes (DecisionStep), and what has to be shown is that    *)
(* the decision is sound; when it commits, the others' transactions have   *)
(* to survive the change.                                                  *)
(***************************************************************************)
EXTENDS TenantAccess, PermissionScopesProofs

-----------------------------------------------------------------------------
(* What is covered *)

LEMMA CoveredBelow ==
  ASSUME NEW k, NEW p, NEW t, Covered(k, p), Within(t, p)
  PROVE  Covered(k, t)
BY DEF Covered, Within

LEMMA PlacesAreTargets == Places \subseteq Targets
BY DEF Places

LEMMA YieldCovered ==
  ASSUME TypeOK, RolesExist, NoEscalation, NEW a \in Theirs
  PROVE  Yield(a) \subseteq Grants /\ GrantsCovered(Yield(a))
<1>1. /\ a \in assigned /\ a.role \in Roles /\ a.target \in Places /\ a.target \in Targets
      /\ roles[a.role].scope = Scope(a.target)
  BY PlacesAreTargets DEF Theirs, TypeOK, Assignments, RolesExist, ResolvesTo
<1>2. roles[a.role].keys \subseteq Keys
  BY <1>1 DEF TypeOK, RoleRows, Absent
<1>3. ASSUME NEW k \in roles[a.role].keys
      PROVE  /\ GrantAt(k, roles[a.role].scope, a.target) \in PlacedGrants
             /\ \A t \in Places : CoversDelegation(GrantAt(k, roles[a.role].scope, a.target), t)
                                    => Covered(k, t)
  <2> DEFINE g == GrantAt(k, roles[a.role].scope, a.target)
  <2>1. g \in PlacedGrants
    BY <1>1, <1>2 DEF GrantAt, PlacedGrants, Targets, Scope
  <2>2. g.scope # "platform"
    BY <1>1 DEF GrantAt, Scope
  <2>3. ASSUME NEW t \in Places, CoversDelegation(g, t)
        PROVE  Covered(k, t)
    <3>1. Within(t, g)
      BY <2>1, <2>2, <2>3, DelegationReachesDown, PlacesAreTargets DEF Grants
    <3>2. Within(t, a.target)
      BY <3>1 DEF Within, GrantAt
    <3>3. Covered(k, a.target)
      BY DEF NoEscalation
    <3> QED
      BY <3>2, <3>3, CoveredBelow
  <2> QED
    BY <2>1, <2>3
<1>4. \A g \in Yield(a) : \E k \in roles[a.role].keys :
        g = GrantAt(k, roles[a.role].scope, a.target) /\ g.key = k
  BY DEF Yield, GrantAt
<1> QED
  BY <1>3, <1>4 DEF GrantsCovered, Grants

LEMMA AllGrantsCovered ==
  ASSUME TypeOK, RolesExist, NoEscalation, NEW u \in Actors
  PROVE  AllGrantsOf(u) \subseteq Grants /\ GrantsCovered(AllGrantsOf(u))
<1>1. \A g \in AllGrantsOf(u) : \E a \in Theirs : g \in Yield(a)
  BY DEF AllGrantsOf, Theirs
<1> QED
  BY <1>1, YieldCovered DEF GrantsCovered

LEMMA GrantsOfCovered ==
  ASSUME TypeOK, RolesExist, NoEscalation, NEW u \in Actors, NEW active
  PROVE  GrantsOf(u, active) \subseteq Grants /\ GrantsCovered(GrantsOf(u, active))
<1>1. CASE u \in PlatformAdmins
  BY <1>1 DEF GrantsOf, Grants, GrantsCovered, Covered
<1>2. CASE u \notin PlatformAdmins
  <2>1. GrantsOf(u, active) \subseteq AllGrantsOf(u)
    BY <1>2 DEF GrantsOf, AllGrantsOf
  <2> QED
    BY <2>1, AllGrantsCovered DEF GrantsCovered
<1> QED
  BY <1>1, <1>2

LEMMA DelegatedIsCovered ==
  ASSUME NEW grants, GrantsCovered(grants), NEW authority, NEW r, NEW t \in Places,
         DelegatesRole(grants, authority, r, t)
  PROVE  \A k \in roles[r].keys : Covered(k, t)
BY DEF GrantsCovered, DelegatesRole, CanDelegate

LEMMA DelegableEverywhereIsCovered ==
  ASSUME NEW grants \in SUBSET Grants, GrantsCovered(grants), NEW keys \in SUBSET Keys,
         DelegableEverywhere(grants, keys)
  PROVE  \A k \in keys : \A t \in Places : Covered(k, t)
<1> SUFFICES ASSUME NEW k \in keys, NEW t \in Places
             PROVE  Covered(k, t)
    OBVIOUS
<1>1. t \in Targets /\ t.tenant = Tenant
  BY DEF Places
<1>2. CanDelegate(grants, k, t)
  BY <1>1, TenantWideCoversTenant DEF DelegableEverywhere
<1> QED
  BY <1>2 DEF GrantsCovered, CanDelegate

-----------------------------------------------------------------------------
(* The shape of a transaction at each stage *)

LEMMA StageShapes ==
  ASSUME NEW d \in Transactions
  PROVE  /\ d.stage = "open" => d.grants \in SUBSET Grants
         /\ d.stage = "writeRole" => d.role \in Roles /\ d.row \in RoleRows
         /\ d.stage = "deleteRole" => d.role \in Roles
         /\ d.stage \in {"assign", "remove", "accept"} => d.row \in Assignments
         /\ d.stage = "status" => /\ d.member \in Users
                                  /\ d.status \in {"active", "suspended", "revoked"}
         /\ d.stage = "invite" => /\ d.invitation \in Invitations /\ d.row \in InvitationRows
                                  /\ d.expires \in SUBSET Invitations
         /\ d.stage = "resend" => d.invitation \in Invitations /\ d.by \in Users
         /\ d.stage \in {"revoke", "accept"} => d.invitation \in Invitations
<1>1. CASE d \in [stage : {"writeRole"}, role : Roles, row : RoleRows]
  BY <1>1
<1>2. CASE d \in [stage : {"deleteRole"}, role : Roles]
  BY <1>2
<1>3. CASE d \in [stage : {"assign", "remove"}, row : Assignments]
  BY <1>3
<1>4. CASE d \in [stage : {"status"}, member : Users, status : {"active", "suspended", "revoked"}]
  BY <1>4
<1>5. CASE d \in [stage : {"invite"}, invitation : Invitations, row : InvitationRows,
                  expires : SUBSET Invitations]
  BY <1>5
<1>6. CASE d \in [stage : {"resend"}, invitation : Invitations, by : Users]
  BY <1>6
<1>7. CASE d \in [stage : {"revoke"}, invitation : Invitations]
  BY <1>7
<1>8. CASE d \in [stage : {"accept"}, invitation : Invitations, row : Assignments,
                  adds : BOOLEAN, membership : {"none", "active", "suspended"}]
  BY <1>8
<1>9. CASE d = Idle \/ d \in [stage : {"open"}, grants : SUBSET Grants]
  BY <1>9 DEF Idle
<1> QED
  BY <1>1, <1>2, <1>3, <1>4, <1>5, <1>6, <1>7, <1>8, <1>9 DEF Transactions, Decided

LEMMA ActorIsUser == \A s \in Sessions : UserOf[s] \in Actors /\ UserOf[s] \in Users
BY TenantAssumption DEF Actors

-----------------------------------------------------------------------------
(* Deciding *)

\* A step that changes nothing but its own transaction, to a sound one.
LEMMA DecisionStep ==
  ASSUME IInv, NEW s \in Sessions, NEW d \in Transactions,
         tx' = [tx EXCEPT ![s] = d], requests' \in 0..MaxRequests,
         UNCHANGED <<roles, members, assigned, invitations>>,
         ReadHolds(d), RequestCovered(d),
         \A o \in Sessions \ {s} : Apart(d, tx[o])
  PROVE  IInv'
<1>1. tx \in [Sessions -> Transactions]
  BY DEF IInv, TypeOK
<1>2. \A o \in Sessions : tx'[o] = IF o = s THEN d ELSE tx[o]
  BY <1>1
<1>3. TypeOK'
  BY <1>1 DEF IInv, TypeOK
<1>4. RolesExist' /\ InvitersAct' /\ NoEscalation' /\ OnePending'
  BY DEF IInv, RolesExist, ResolvesTo, Sent, InvitersAct, NoEscalation, Theirs, OnePending
<1>5. LocksHold'
  <2> SUFFICES ASSUME NEW p \in Sessions, NEW o \in Sessions, p # o
               PROVE  Apart(tx'[p], tx'[o])
      BY DEF LocksHold, Apart, HeldRoles, HeldInvitations, NewInvitation
  <2>1. CASE p = s
    BY <1>2, <2>1
  <2>2. CASE o = s
    BY <1>2, <2>2 DEF Apart
  <2>3. CASE p # s /\ o # s
    BY <1>2, <2>3 DEF IInv, LocksHold
  <2> QED
    BY <2>1, <2>2, <2>3
<1>6. ReadsHold'
  <2> SUFFICES ASSUME NEW o \in Sessions
               PROVE  ReadHolds(tx[o])'
      BY DEF ReadsHold
  <2>1. ReadHolds(tx'[o])
    BY <1>2 DEF IInv, ReadsHold
  <2> QED
    BY <2>1 DEF ReadHolds
<1>7. RequestsCovered'
  <2> SUFFICES ASSUME NEW o \in Sessions
               PROVE  RequestCovered(tx[o])'
      BY DEF RequestsCovered
  <2>1. RequestCovered(tx'[o])
    BY <1>2 DEF IInv, RequestsCovered
  <2> QED
    BY <2>1 DEF RequestCovered
<1> QED
  BY <1>3, <1>4, <1>5, <1>6, <1>7 DEF IInv

LEMMA HoldsNothing ==
  ASSUME NEW d, NEW e, d.stage \in {"idle", "open", "assign", "remove", "status"}
  PROVE  Apart(d, e)
BY DEF Apart, HeldRoles, HeldInvitations, NewInvitation

LEMMA AuthenticateStep ==
  ASSUME IInv, NEW s \in Sessions, Authenticate(s)
  PROVE  IInv'
<1>1. PICK active \in Places :
        tx' = [tx EXCEPT ![s] = [stage |-> "open", grants |-> GrantsOf(UserOf[s], active)]]
  BY DEF Authenticate
<1> DEFINE d == [stage |-> "open", grants |-> GrantsOf(UserOf[s], active)]
<1>2. d \in Transactions /\ RequestCovered(d)
  BY ActorIsUser, GrantsOfCovered DEF IInv, Transactions, RequestCovered
<1>3. requests' \in 0..MaxRequests
  BY TenantAssumption DEF Authenticate, IInv, TypeOK
<1>4. ReadHolds(d) /\ \A o \in Sessions : Apart(d, tx[o])
  BY HoldsNothing DEF ReadHolds
<1> QED
  BY <1>1, <1>2, <1>3, <1>4, DecisionStep DEF Authenticate

LEMMA RollbackStep ==
  ASSUME IInv, NEW s \in Sessions, Rollback(s)
  PROVE  IInv'
<1>1. Idle \in Transactions /\ ReadHolds(Idle) /\ RequestCovered(Idle)
  BY DEF Transactions, Idle, ReadHolds, RequestCovered
<1>2. \A o \in Sessions : Apart(Idle, tx[o])
  BY HoldsNothing DEF Idle
<1> QED
  BY <1>1, <1>2, DecisionStep DEF Rollback, IInv, TypeOK

\* The grants of an open request.
LEMMA OpenGrants ==
  ASSUME IInv, NEW s \in Sessions, tx[s].stage = "open"
  PROVE  tx[s].grants \in SUBSET Grants /\ GrantsCovered(tx[s].grants)
BY StageShapes DEF IInv, TypeOK, RequestsCovered, RequestCovered

\* FOR UPDATE on a role keeps two requests apart.
LEMMA RoleFreeApart ==
  ASSUME NEW s \in Sessions, NEW d, d.stage \in {"writeRole", "deleteRole"}, RoleFree(s, d.role)
  PROVE  \A o \in Sessions \ {s} : Apart(d, tx[o])
BY DEF RoleFree, Holds, Apart, HeldRoles, HeldInvitations, NewInvitation

\* A decision that takes no lock on a role or an invitation.
LEMMA QuietDecision ==
  ASSUME IInv, NEW s \in Sessions, NEW d \in Transactions,
         d.stage \in {"assign", "remove", "status"}, RequestCovered(d), Decide(s, d)
  PROVE  IInv'
<1>1. ReadHolds(d) /\ \A o \in Sessions : Apart(d, tx[o])
  BY HoldsNothing DEF ReadHolds
<1>2. requests' \in 0..MaxRequests
  BY DEF Decide, IInv, TypeOK
<1> QED
  BY <1>1, <1>2, DecisionStep DEF Decide

LEMMA RoleDecision ==
  ASSUME IInv, NEW s \in Sessions, CreateRole(s) \/ UpdateRole(s) \/ DeleteRole(s)
  PROVE  IInv'
<1>1. CASE CreateRole(s) \/ UpdateRole(s)
  <2>1. PICK r \in Roles, keys \in RequestedKeys,
             scope \in {"platform", "tenant", "company", "branch"} :
          /\ roles[r] = Absent \/ roles[r].scope = scope
          /\ RoleFree(s, r)
          /\ DelegableEverywhere(tx[s].grants, keys)
          /\ Decide(s, [stage |-> "writeRole", role |-> r, row |-> [scope |-> scope, keys |-> keys]])
    <3>1. CASE CreateRole(s)
      BY <3>1 DEF CreateRole
    <3>2. CASE UpdateRole(s)
      <4>1. PICK r \in Roles, keys \in RequestedKeys :
              /\ roles[r] # Absent /\ RoleFree(s, r)
              /\ DelegableEverywhere(tx[s].grants, keys)
              /\ Decide(s, [stage |-> "writeRole", role |-> r,
                            row |-> [scope |-> roles[r].scope, keys |-> keys]])
        BY <3>2 DEF UpdateRole
      <4>2. roles[r].scope \in {"platform", "tenant", "company", "branch"}
        BY <4>1 DEF IInv, TypeOK, RoleRows
      <4> QED
        BY <4>1, <4>2
    <3> QED
      BY <1>1, <3>1, <3>2
  <2> DEFINE d == [stage |-> "writeRole", role |-> r, row |-> [scope |-> scope, keys |-> keys]]
  <2>2. tx[s].stage = "open"
    BY <1>1 DEF CreateRole, UpdateRole
  <2>3. keys \in SUBSET Keys
    BY TenantAssumption
  <2>4. [scope |-> scope, keys |-> keys] \in RoleRows
    BY <2>1, <2>3 DEF IInv, TypeOK, RoleRows
  <2>5. d \in Transactions
    BY <2>4 DEF Transactions, Decided
  <2>6. RequestCovered(d)
    BY <2>1, <2>2, <2>3, OpenGrants, DelegableEverywhereIsCovered DEF RequestCovered
  <2>7. ReadHolds(d)
    BY <2>1 DEF ReadHolds
  <2>8. \A o \in Sessions \ {s} : Apart(d, tx[o])
    BY <2>1, RoleFreeApart
  <2> QED
    BY <2>1, <2>5, <2>6, <2>7, <2>8, DecisionStep DEF Decide, IInv, TypeOK
<1>2. CASE DeleteRole(s)
  <2>1. PICK r \in Roles : RoleFree(s, r) /\ Decide(s, [stage |-> "deleteRole", role |-> r])
    BY <1>2 DEF DeleteRole
  <2> DEFINE d == [stage |-> "deleteRole", role |-> r]
  <2>2. d \in Transactions /\ RequestCovered(d) /\ ReadHolds(d)
    BY DEF Transactions, Decided, RequestCovered, ReadHolds
  <2>3. \A o \in Sessions \ {s} : Apart(d, tx[o])
    BY <2>1, RoleFreeApart
  <2> QED
    BY <2>1, <2>2, <2>3, DecisionStep DEF Decide, IInv, TypeOK
<1> QED
  BY <1>1, <1>2

LEMMA MemberDecision ==
  ASSUME IInv, NEW s \in Sessions,
         AssignRole(s) \/ RemoveRoleAssignment(s) \/ UpdateMembershipStatus(s)
  PROVE  IInv'
<1>1. CASE AssignRole(s)
  <2>1. PICK u \in Users, r \in Roles, t \in Places :
          /\ DelegatesRole(tx[s].grants, "role.assign", r, t)
          /\ Decide(s, [stage |-> "assign", row |-> [member |-> u, role |-> r, target |-> t]])
    BY <1>1 DEF AssignRole
  <2> DEFINE d == [stage |-> "assign", row |-> [member |-> u, role |-> r, target |-> t]]
  <2>2. d \in Transactions
    BY DEF Transactions, Decided, Assignments
  <2>3. GrantsCovered(tx[s].grants)
    BY <1>1, OpenGrants DEF AssignRole
  <2>4. RequestCovered(d)
    BY <2>1, <2>3, DelegatedIsCovered DEF RequestCovered
  <2> QED
    BY <2>1, <2>2, <2>4, QuietDecision
<1>2. CASE RemoveRoleAssignment(s)
  <2>1. PICK a \in assigned : Decide(s, [stage |-> "remove", row |-> a])
    BY <1>2 DEF RemoveRoleAssignment
  <2> DEFINE d == [stage |-> "remove", row |-> a]
  <2>2. d \in Transactions
    BY DEF Transactions, Decided, IInv, TypeOK
  <2>3. RequestCovered(d)
    BY DEF RequestCovered
  <2> QED
    BY <2>1, <2>2, <2>3, QuietDecision
<1>3. CASE UpdateMembershipStatus(s)
  <2>1. PICK u \in Users, status \in {"active", "suspended", "revoked"} :
          Decide(s, [stage |-> "status", member |-> u, status |-> status])
    BY <1>3 DEF UpdateMembershipStatus
  <2> DEFINE d == [stage |-> "status", member |-> u, status |-> status]
  <2>2. d \in Transactions
    BY DEF Transactions, Decided
  <2>3. RequestCovered(d)
    BY DEF RequestCovered
  <2> QED
    BY <2>1, <2>2, <2>3, QuietDecision
<1> QED
  BY <1>1, <1>2, <1>3

\* FOR UPDATE on an invitation does as well.
LEMMA InvitationFreeApart ==
  ASSUME NEW s \in Sessions, NEW d, d.stage \in {"resend", "revoke", "accept"},
         InvitationFree(s, d.invitation)
  PROVE  \A o \in Sessions \ {s} : Apart(d, tx[o])
BY DEF InvitationFree, Holds, Apart, HeldRoles, HeldInvitations, NewInvitation

LEMMA InvitationRead ==
  ASSUME TypeOK, NEW i \in Invitations
  PROVE  /\ i \in Sent => invitations[i] \in InvitationRows
         /\ i \notin Sent => invitations[i] = Unsent
BY DEF TypeOK, Sent, InvitationRows, Unsent

LEMMA CreateInvitationStep ==
  ASSUME IInv, NEW s \in Sessions, CreateInvitation(s)
  PROVE  IInv'
<1> DEFINE Pending(email) == {j \in Sent : invitations[j].status = "pending" /\ invitations[j].email = email}
           Row(email, role, target) ==
             [status |-> "pending", fresh |-> TRUE, email |-> email,
              role |-> role, target |-> target, by |-> UserOf[s]]
<1>1. PICK i \in Invitations \ Sent, e \in Users, r \in Roles, t \in Places :
        /\ \A o \in Holds({"invite"}, s) : tx[o].invitation # i
        /\ \A j \in Pending(e) : InvitationFree(s, j)
        /\ Decide(s, [stage |-> "invite", invitation |-> i, expires |-> Pending(e),
                      row |-> Row(e, r, t)])
  BY DEF CreateInvitation
<1> DEFINE d == [stage |-> "invite", invitation |-> i, expires |-> Pending(e), row |-> Row(e, r, t)]
<1>2. Row(e, r, t) \in InvitationRows
  BY ActorIsUser DEF InvitationRows
<1>3. Pending(e) \in SUBSET Invitations
  BY DEF Sent
<1>4. d \in Transactions
  BY <1>2, <1>3 DEF Transactions, Decided
<1>5. RequestCovered(d)
  BY ActorIsUser DEF RequestCovered
<1>6. ReadHolds(d)
  BY InvitationRead DEF ReadHolds, IInv
<1>7. \A o \in Sessions \ {s} : Apart(d, tx[o])
  BY <1>1 DEF InvitationFree, Holds, Apart, HeldRoles, HeldInvitations, NewInvitation
<1> QED
  BY <1>1, <1>4, <1>5, <1>6, <1>7, DecisionStep DEF Decide, IInv, TypeOK

LEMMA ResendOrRevokeStep ==
  ASSUME IInv, NEW s \in Sessions, ResendInvitation(s) \/ RevokeInvitation(s)
  PROVE  IInv'
<1> DEFINE Decisions(inv) == {[stage |-> "resend", invitation |-> inv, by |-> UserOf[s]],
                              [stage |-> "revoke", invitation |-> inv]}
<1>0. PICK i \in Invitations : Manages(s, i) /\ \E d \in Decisions(i) : Decide(s, d)
  BY DEF ResendInvitation, RevokeInvitation
<1>1. PICK d \in Decisions(i) : Manages(s, i) /\ Decide(s, d)
  BY <1>0
<1>2. d.stage \in {"resend", "revoke"} /\ d.invitation = i
  OBVIOUS
<1>3. d \in Transactions
  BY ActorIsUser DEF Transactions, Decided
<1>4. RequestCovered(d)
  BY <1>2, ActorIsUser DEF RequestCovered
<1>5. ReadHolds(d)
  BY <1>1, <1>2 DEF Manages, Sent, ReadHolds
<1>6. \A o \in Sessions \ {s} : Apart(d, tx[o])
  BY <1>1, <1>2, InvitationFreeApart DEF Manages
<1> QED
  BY <1>1, <1>3, <1>4, <1>5, <1>6, DecisionStep DEF Decide, IInv, TypeOK

LEMMA AcceptInvitationStep ==
  ASSUME IInv, NEW s \in Sessions, AcceptInvitation(s)
  PROVE  IInv'
<1> DEFINE Row(inv) == [member |-> UserOf[s], role |-> inv.role, target |-> inv.target]
<1>1. PICK i \in Sent :
        /\ InvitationFree(s, i)
        /\ invitations[i].status = "pending"
        /\ InviterMayStill(invitations[i].by, invitations[i].role, invitations[i].target)
        /\ members[UserOf[s]] # "revoked"
        /\ tx' = [tx EXCEPT ![s] = [stage |-> "accept", invitation |-> i, row |-> Row(invitations[i]),
                                    adds |-> Row(invitations[i]) \notin assigned, membership |-> members[UserOf[s]]]]
  BY DEF AcceptInvitation
<1> DEFINE d == [stage |-> "accept", invitation |-> i, row |-> Row(invitations[i]),
                 adds |-> Row(invitations[i]) \notin assigned, membership |-> members[UserOf[s]]]
<1>2. /\ i \in Invitations /\ invitations[i].role \in Roles /\ invitations[i].target \in Places
      /\ invitations[i].by \in Actors
  BY InvitationRead DEF IInv, InvitersAct, Sent, InvitationRows
<1>3. members[UserOf[s]] \in {"none", "active", "suspended"}
  BY <1>1, ActorIsUser DEF IInv, TypeOK, Statuses
<1>4. d \in Transactions
  BY <1>2, <1>3, ActorIsUser DEF Transactions, Decided, Assignments
<1>5. \A k \in roles[invitations[i].role].keys : Covered(k, invitations[i].target)
  <2>1. CASE invitations[i].by \in PlatformAdmins
    BY <1>2, <2>1 DEF Covered
  <2>2. CASE DelegatesRole(AllGrantsOf(invitations[i].by), "user.invite",
                           invitations[i].role, invitations[i].target)
    BY <1>2, <2>2, AllGrantsCovered, DelegatedIsCovered DEF IInv
  <2> QED
    BY <1>1, <2>1, <2>2 DEF InviterMayStill
<1>6. RequestCovered(d)
  BY <1>5 DEF RequestCovered
<1>7. ReadHolds(d)
  BY <1>1 DEF ReadHolds
<1>8. \A o \in Sessions \ {s} : Apart(d, tx[o])
  BY <1>1, InvitationFreeApart
<1>9. requests' \in 0..MaxRequests
  BY TenantAssumption DEF AcceptInvitation, IInv, TypeOK
<1> QED
  BY <1>1, <1>4, <1>6, <1>7, <1>8, <1>9, DecisionStep DEF AcceptInvitation

-----------------------------------------------------------------------------
(* Committing *)

LEMMA OthersStay ==
  ASSUME TypeOK, NEW s \in Sessions, tx' = [tx EXCEPT ![s] = Idle]
  PROVE  /\ tx'[s] = Idle
         /\ \A o \in Sessions \ {s} : tx'[o] = tx[o]
BY DEF TypeOK

\* A commit is sound if its writes are, and if what the others have read and
\* decided survives it.
LEMMA CommitStep ==
  ASSUME IInv, NEW s \in Sessions, Commit(s),
         roles' \in [Roles -> RoleRows \cup {Absent}], members' \in [Users -> Statuses],
         assigned' \subseteq Assignments,
         invitations' \in [Invitations -> InvitationRows \cup {Unsent}],
         RolesExist', InvitersAct', NoEscalation', OnePending',
         \A o \in Sessions \ {s} : ReadHolds(tx[o])',
         \A o \in Sessions \ {s} : RequestCovered(tx[o])'
  PROVE  IInv'
<1>1. Idle \in Transactions /\ Idle.stage = "idle"
  BY DEF Transactions, Idle
<1>2. TypeOK'
  BY <1>1 DEF Commit, IInv, TypeOK
<1>3. /\ tx'[s] = Idle
      /\ \A o \in Sessions \ {s} : tx'[o] = tx[o]
  BY OthersStay DEF IInv, Commit
<1>4. LocksHold'
  <2> SUFFICES ASSUME NEW p \in Sessions, NEW o \in Sessions, p # o
               PROVE  Apart(tx'[p], tx'[o])
      BY DEF LocksHold, Apart, HeldRoles, HeldInvitations, NewInvitation
  <2>1. CASE p = s
    BY <1>1, <1>3, <2>1, HoldsNothing
  <2>2. CASE o = s
    BY <1>1, <1>3, <2>2, HoldsNothing DEF Apart
  <2>3. CASE p # s /\ o # s
    BY <1>3, <2>3 DEF IInv, LocksHold
  <2> QED
    BY <2>1, <2>2, <2>3
<1>5. ReadHolds(tx[s])' /\ RequestCovered(tx[s])'
  BY <1>1, <1>3 DEF ReadHolds, RequestCovered
<1>6. ReadsHold' /\ RequestsCovered'
  BY <1>5 DEF ReadsHold, RequestsCovered
<1> QED
  BY <1>2, <1>4, <1>6 DEF IInv

\* What the other requests have read and decided survives a commit that leaves
\* roles and invitations alone.
LEMMA OthersUntouched ==
  ASSUME IInv, NEW s \in Sessions, Commit(s), UNCHANGED <<roles, invitations>>
  PROVE  /\ \A o \in Sessions \ {s} : ReadHolds(tx[o])'
         /\ \A o \in Sessions \ {s} : RequestCovered(tx[o])'
<1>1. \A o \in Sessions \ {s} : tx'[o] = tx[o]
  BY OthersStay DEF IInv, Commit
<1>2. \A o \in Sessions \ {s} : ReadHolds(tx[o]) /\ RequestCovered(tx[o])
  BY DEF IInv, ReadsHold, RequestsCovered
<1> QED
  BY <1>1, <1>2 DEF ReadHolds, RequestCovered

LEMMA WriteRoleStep ==
  ASSUME IInv, NEW s \in Sessions, WriteRole(s)
  PROVE  IInv'
<1> DEFINE r == tx[s].role
           row == tx[s].row
<1>1. /\ tx[s].stage = "writeRole" /\ r \in Roles /\ row \in RoleRows
      /\ roles' = [roles EXCEPT ![r] = row]
      /\ Commit(s) /\ UNCHANGED <<members, assigned, invitations>>
  BY StageShapes DEF WriteRole, IInv, TypeOK
<1>2. roles[r] = Absent \/ roles[r].scope = row.scope
  BY <1>1 DEF IInv, ReadsHold, ReadHolds
<1>3. \A k \in row.keys : \A t \in Places : Covered(k, t)
  BY <1>1 DEF IInv, RequestsCovered, RequestCovered
<1>4. roles' \in [Roles -> RoleRows \cup {Absent}]
  BY <1>1 DEF IInv, TypeOK
<1>5. \A q \in Roles : roles'[q] = IF q = r THEN row ELSE roles[q]
  BY <1>1 DEF IInv, TypeOK
<1>6. RolesExist'
  <2>1. \A q \in Roles, t \in Places : roles[q].scope = Scope(t) => roles'[q].scope = Scope(t)
    BY <1>2, <1>5 DEF Absent, Scope
  <2>2. \A a \in assigned : a.role \in Roles /\ a.target \in Places
    BY DEF IInv, TypeOK, Assignments
  <2>3. \A i \in Sent : invitations[i].role \in Roles /\ invitations[i].target \in Places
    BY InvitationRead DEF Sent, IInv, InvitationRows
  <2> QED
    BY <1>1, <2>1, <2>2, <2>3 DEF IInv, RolesExist, ResolvesTo, Sent
<1>7. NoEscalation'
  <2> SUFFICES ASSUME NEW a \in Theirs, NEW k \in roles'[a.role].keys
               PROVE  Covered(k, a.target)
      BY <1>1 DEF NoEscalation, Theirs
  <2>1. a.role \in Roles /\ a.target \in Places
    BY DEF IInv, TypeOK, Theirs, Assignments
  <2>2. k \in roles[a.role].keys \/ k \in row.keys
    BY <1>5, <2>1
  <2> QED
    BY <1>3, <2>1, <2>2 DEF IInv, NoEscalation
<1>8. InvitersAct' /\ OnePending'
  BY <1>1 DEF IInv, InvitersAct, OnePending, Sent
<1>9. \A o \in Sessions \ {s} : tx'[o] = tx[o] /\ tx[o] \in Transactions /\ Apart(tx[s], tx[o])
  BY <1>1, OthersStay DEF Commit, IInv, TypeOK, LocksHold
<1>10. \A o \in Sessions \ {s} : ReadHolds(tx[o])'
  <2> SUFFICES ASSUME NEW o \in Sessions \ {s}
               PROVE  ReadHolds(tx[o])'
      OBVIOUS
  <2>1. tx[o].stage = "writeRole" => tx[o].role # r /\ tx[o].role \in Roles
    BY <1>1, <1>9, StageShapes DEF Apart, HeldRoles
  <2>2. ReadHolds(tx[o])
    BY DEF IInv, ReadsHold
  <2> QED
    BY <1>1, <1>5, <1>9, <2>1, <2>2 DEF ReadHolds
<1>11. \A o \in Sessions \ {s} : RequestCovered(tx[o])'
  <2> SUFFICES ASSUME NEW o \in Sessions \ {s}
               PROVE  RequestCovered(tx[o])'
      OBVIOUS
  <2>1. tx[o].stage \in {"assign", "accept"} => tx[o].row.role \in Roles /\ tx[o].row.target \in Places
    BY <1>9, StageShapes DEF Assignments
  <2>2. RequestCovered(tx[o])
    BY DEF IInv, RequestsCovered
  <2> QED
    BY <1>3, <1>5, <1>9, <2>1, <2>2 DEF RequestCovered
<1>12. members' \in [Users -> Statuses] /\ assigned' \subseteq Assignments
       /\ invitations' \in [Invitations -> InvitationRows \cup {Unsent}]
  BY <1>1 DEF IInv, TypeOK
<1> HIDE DEF r, row
<1> QED
  BY <1>1, <1>4, <1>6, <1>7, <1>8, <1>10, <1>11, <1>12, CommitStep

LEMMA EraseRoleStep ==
  ASSUME IInv, NEW s \in Sessions, EraseRole(s)
  PROVE  IInv'
<1> DEFINE r == tx[s].role
<1>1. /\ tx[s].stage = "deleteRole" /\ r \in Roles
      /\ Unreferenced(r)
      /\ roles' = [roles EXCEPT ![r] = Absent]
      /\ Commit(s) /\ UNCHANGED <<members, assigned, invitations>>
  BY StageShapes DEF EraseRole, IInv, TypeOK
<1>2. roles' \in [Roles -> RoleRows \cup {Absent}]
  BY <1>1 DEF IInv, TypeOK
<1>3. \A q \in Roles : roles'[q] = IF q = r THEN Absent ELSE roles[q]
  BY <1>1 DEF IInv, TypeOK
<1>4. RolesExist'
  <2>1. \A a \in assigned : a.role \in Roles /\ a.role # r
    BY <1>1 DEF Unreferenced, IInv, TypeOK, Assignments
  <2>2. \A i \in Sent : invitations[i].role \in Roles /\ invitations[i].role # r
    BY <1>1, InvitationRead DEF Unreferenced, Sent, IInv, InvitationRows
  <2> QED
    BY <1>1, <1>3, <2>1, <2>2 DEF IInv, RolesExist, ResolvesTo, Sent
<1>5. \A q \in Roles : roles'[q].keys \subseteq roles[q].keys
  BY <1>3 DEF Absent
<1>6. NoEscalation'
  <2>1. \A a \in Theirs : a.role \in Roles
    BY DEF IInv, TypeOK, Theirs, Assignments
  <2> QED
    BY <1>1, <1>5, <2>1 DEF IInv, NoEscalation, Theirs
<1>7. InvitersAct' /\ OnePending'
  BY <1>1 DEF IInv, InvitersAct, OnePending, Sent
<1>8. \A o \in Sessions \ {s} : tx'[o] = tx[o] /\ tx[o] \in Transactions /\ Apart(tx[s], tx[o])
  BY <1>1, OthersStay DEF Commit, IInv, TypeOK, LocksHold
<1>9. \A o \in Sessions \ {s} : ReadHolds(tx[o])'
  <2> SUFFICES ASSUME NEW o \in Sessions \ {s}
               PROVE  ReadHolds(tx[o])'
      OBVIOUS
  <2>1. tx[o].stage = "writeRole" => tx[o].role # r /\ tx[o].role \in Roles
    BY <1>1, <1>8, StageShapes DEF Apart, HeldRoles
  <2>2. ReadHolds(tx[o])
    BY DEF IInv, ReadsHold
  <2> QED
    BY <1>1, <1>3, <1>8, <2>1, <2>2 DEF ReadHolds
<1>10. \A o \in Sessions \ {s} : RequestCovered(tx[o])'
  <2> SUFFICES ASSUME NEW o \in Sessions \ {s}
               PROVE  RequestCovered(tx[o])'
      OBVIOUS
  <2>1. tx[o].stage \in {"assign", "accept"} => tx[o].row.role \in Roles
    BY <1>8, StageShapes DEF Assignments
  <2>2. RequestCovered(tx[o])
    BY DEF IInv, RequestsCovered
  <2> QED
    BY <1>5, <1>8, <2>1, <2>2 DEF RequestCovered
<1>11. members' \in [Users -> Statuses] /\ assigned' \subseteq Assignments
       /\ invitations' \in [Invitations -> InvitationRows \cup {Unsent}]
  BY <1>1 DEF IInv, TypeOK
<1> HIDE DEF r
<1> QED
  BY <1>1, <1>2, <1>4, <1>6, <1>7, <1>9, <1>10, <1>11, CommitStep

\* A commit that only adds covered assignments of roles that exist, or removes
\* some, or changes memberships.
LEMMA AssignedStep ==
  ASSUME IInv, NEW s \in Sessions, Commit(s), UNCHANGED <<roles, invitations>>,
         members' \in [Users -> Statuses],
         assigned' \subseteq Assignments,
         \A a \in assigned' \ assigned :
           /\ ResolvesTo(a.role, a.target)
           /\ \A k \in roles[a.role].keys : Covered(k, a.target)
  PROVE  IInv'
<1>1. RolesExist'
  BY DEF IInv, RolesExist, ResolvesTo, Sent
<1>2. NoEscalation'
  BY DEF IInv, NoEscalation, Theirs
<1>3. InvitersAct' /\ OnePending'
  BY DEF IInv, InvitersAct, OnePending, Sent
<1>4. /\ roles' \in [Roles -> RoleRows \cup {Absent}]
      /\ invitations' \in [Invitations -> InvitationRows \cup {Unsent}]
  BY DEF IInv, TypeOK
<1> QED
  BY <1>1, <1>2, <1>3, <1>4, OthersUntouched, CommitStep

LEMMA MemberCommit ==
  ASSUME IInv, NEW s \in Sessions,
         InsertAssignment(s) \/ DeleteAssignment(s) \/ SetMembershipStatus(s)
  PROVE  IInv'
<1>1. CASE InsertAssignment(s)
  <2>1. /\ tx[s].stage = "assign" /\ tx[s].row \in Assignments
        /\ ResolvesTo(tx[s].row.role, tx[s].row.target)
        /\ assigned' = assigned \cup {tx[s].row}
        /\ Commit(s) /\ UNCHANGED <<roles, members, invitations>>
    BY <1>1, StageShapes DEF InsertAssignment, Insertable, IInv, TypeOK
  <2>2. \A k \in roles[tx[s].row.role].keys : Covered(k, tx[s].row.target)
    BY <2>1 DEF IInv, RequestsCovered, RequestCovered
  <2>3. assigned' \subseteq Assignments /\ members' \in [Users -> Statuses]
    BY <2>1 DEF IInv, TypeOK
  <2>4. \A a \in assigned' \ assigned : a = tx[s].row
    BY <2>1
  <2> QED
    BY <2>1, <2>2, <2>3, <2>4, AssignedStep
<1>2. CASE DeleteAssignment(s)
  <2>1. /\ assigned' \subseteq assigned
        /\ Commit(s) /\ UNCHANGED <<roles, members, invitations>>
    BY <1>2 DEF DeleteAssignment
  <2>2. assigned' \subseteq Assignments /\ members' \in [Users -> Statuses]
    BY <2>1 DEF IInv, TypeOK
  <2> QED
    BY <2>1, <2>2, AssignedStep
<1>3. CASE SetMembershipStatus(s)
  <2>1. /\ tx[s].status \in {"active", "suspended", "revoked"}
        /\ members' = [members EXCEPT ![tx[s].member] = tx[s].status]
        /\ Commit(s) /\ UNCHANGED <<roles, assigned, invitations>>
    BY <1>3, StageShapes DEF SetMembershipStatus, IInv, TypeOK
  <2>2. assigned' \subseteq Assignments /\ members' \in [Users -> Statuses]
    BY <2>1 DEF IInv, TypeOK, Statuses
  <2> QED
    BY <2>1, <2>2, AssignedStep
<1> QED
  BY <1>1, <1>2, <1>3

\* A change of one invitation that keeps what it offers and to whom.
LEMMA InvitationRewritten ==
  ASSUME IInv, NEW i \in Sent, NEW row \in InvitationRows,
         invitations' = [invitations EXCEPT ![i] = row],
         row.email = invitations[i].email, row.role = invitations[i].role,
         row.target = invitations[i].target, row.by \in Actors,
         row.status = "pending" => OnlyPending(row.email, {i})
  PROVE  /\ invitations' \in [Invitations -> InvitationRows \cup {Unsent}]
         /\ \A j \in Invitations : invitations'[j] = IF j = i THEN row ELSE invitations[j]
         /\ Sent' = Sent
         /\ \A j \in Sent : /\ invitations'[j].role = invitations[j].role
                            /\ invitations'[j].target = invitations[j].target
         /\ InvitersAct' /\ OnePending'
<1>1. /\ i \in Invitations
      /\ \A j \in Invitations : invitations'[j] = IF j = i THEN row ELSE invitations[j]
  BY DEF Sent, IInv, TypeOK
<1>2. invitations' \in [Invitations -> InvitationRows \cup {Unsent}]
  BY DEF IInv, TypeOK
<1>3. Sent' = Sent
  <2>1. row.status # "unsent"
    BY DEF InvitationRows
  <2> QED
    BY <1>1, <2>1 DEF Sent
<1>4. \A j \in Sent : /\ invitations'[j].role = invitations[j].role
                      /\ invitations'[j].target = invitations[j].target
  BY <1>1 DEF Sent
<1>5. InvitersAct'
  BY <1>1, <1>3 DEF InvitersAct, IInv, Sent
<1>6. OnePending'
  <2> SUFFICES ASSUME NEW j \in Sent, NEW l \in Sent, j # l,
                      invitations'[j].email = invitations'[l].email,
                      invitations'[j].status = "pending", invitations'[l].status = "pending"
               PROVE  FALSE
      BY <1>3 DEF OnePending
  <2>1. CASE j = i
    BY <1>1, <2>1 DEF OnlyPending, Sent
  <2>2. CASE l = i
    BY <1>1, <2>2 DEF OnlyPending, Sent
  <2>3. CASE j # i /\ l # i
    BY <1>1, <2>3 DEF IInv, OnePending, Sent
  <2> QED
    BY <2>1, <2>2, <2>3
<1> QED
  BY <1>1, <1>2, <1>3, <1>4, <1>5, <1>6

\* A commit of the request that holds invitation i.
LEMMA HeldInvitationStep ==
  ASSUME IInv, NEW s \in Sessions, Commit(s), UNCHANGED roles,
         tx[s].stage \in {"resend", "revoke", "accept"},
         NEW row \in InvitationRows,
         invitations' = [invitations EXCEPT ![tx[s].invitation] = row],
         row.email = invitations[tx[s].invitation].email,
         row.role = invitations[tx[s].invitation].role,
         row.target = invitations[tx[s].invitation].target, row.by \in Actors,
         row.status = "pending" => OnlyPending(row.email, {tx[s].invitation}),
         members' \in [Users -> Statuses],
         assigned' \subseteq Assignments,
         \A a \in assigned' \ assigned :
           /\ ResolvesTo(a.role, a.target)
           /\ \A k \in roles[a.role].keys : Covered(k, a.target)
  PROVE  IInv'
<1> DEFINE i == tx[s].invitation
<1>1. i \in Invitations
  BY StageShapes DEF IInv, TypeOK
<1>2. i \in Sent
  BY <1>1 DEF Sent, IInv, ReadsHold, ReadHolds
<1>3. /\ invitations' \in [Invitations -> InvitationRows \cup {Unsent}]
      /\ \A j \in Invitations : invitations'[j] = IF j = i THEN row ELSE invitations[j]
      /\ Sent' = Sent
      /\ \A j \in Sent : /\ invitations'[j].role = invitations[j].role
                         /\ invitations'[j].target = invitations[j].target
      /\ InvitersAct' /\ OnePending'
  BY <1>2, InvitationRewritten
<1>4. RolesExist'
  <2>1. \A j \in Sent : ResolvesTo(invitations[j].role, invitations[j].target)
    BY DEF IInv, RolesExist
  <2>2. \A a \in assigned' : ResolvesTo(a.role, a.target)
    BY DEF IInv, RolesExist
  <2>3. \A j \in Sent' : ResolvesTo(invitations[j].role, invitations[j].target)
                         /\ invitations'[j].role = invitations[j].role
                         /\ invitations'[j].target = invitations[j].target
    BY <1>3, <2>1
  <2> QED
    BY <2>2, <2>3 DEF RolesExist, ResolvesTo
<1>5. NoEscalation'
  BY DEF IInv, NoEscalation, Theirs
<1>6. \A o \in Sessions \ {s} : tx'[o] = tx[o] /\ tx[o] \in Transactions /\ Apart(tx[s], tx[o])
  BY OthersStay DEF Commit, IInv, TypeOK, LocksHold
<1>7. \A o \in Sessions \ {s} : ReadHolds(tx[o])'
  <2> SUFFICES ASSUME NEW o \in Sessions \ {s}
               PROVE  ReadHolds(tx[o])'
      OBVIOUS
  <2>1. ReadHolds(tx[o])
    BY DEF IInv, ReadsHold
  <2>2. tx[o].stage \in {"resend", "revoke", "accept"} => tx[o].invitation \in Invitations \ {i}
    BY <1>6, StageShapes DEF Apart, HeldInvitations
  <2>3. tx[o].stage = "invite" =>
          /\ tx[o].expires \subseteq Invitations \ {i}
          /\ tx[o].invitation \in Invitations \ {i}
    <3> SUFFICES ASSUME tx[o].stage = "invite"
                 PROVE  /\ tx[o].expires \subseteq Invitations \ {i}
                        /\ tx[o].invitation \in Invitations \ {i}
        OBVIOUS
    <3>1. tx[o].expires \subseteq Invitations /\ tx[o].invitation \in Invitations
      BY <1>6, StageShapes
    <3>2. i \notin tx[o].expires
      BY <1>6 DEF Apart, HeldInvitations
    <3>3. tx[o].invitation # i
      BY <1>2, <2>1 DEF ReadHolds, Sent, Unsent
    <3> QED
      BY <3>1, <3>2, <3>3
  <2> QED
    BY <1>3, <1>6, <2>1, <2>2, <2>3 DEF ReadHolds
<1>8. \A o \in Sessions \ {s} : RequestCovered(tx[o])'
  BY <1>6 DEF IInv, RequestsCovered, RequestCovered
<1>9. roles' \in [Roles -> RoleRows \cup {Absent}]
  BY DEF IInv, TypeOK
<1> HIDE DEF i
<1> QED
  BY <1>3, <1>4, <1>5, <1>7, <1>8, <1>9, CommitStep

LEMMA InvitationCommit ==
  ASSUME IInv, NEW s \in Sessions,
         RenewInvitation(s) \/ WithdrawInvitation(s) \/ Accept(s)
  PROVE  IInv'
<1> DEFINE i == tx[s].invitation
<1>1. /\ tx[s].stage \in {"resend", "revoke", "accept"}
      /\ Commit(s) /\ UNCHANGED roles
  BY DEF RenewInvitation, WithdrawInvitation, Accept
<1>2. i \in Sent /\ invitations[i] \in InvitationRows /\ invitations[i].by \in Actors
  <2>1. i \in Invitations
    BY <1>1, StageShapes DEF IInv, TypeOK
  <2>2. i \in Sent
    BY <1>1, <2>1 DEF Sent, IInv, ReadsHold, ReadHolds
  <2> QED
    BY <2>1, <2>2, InvitationRead DEF IInv, InvitersAct
<1>3. CASE RenewInvitation(s)
  <2> DEFINE row == [invitations[i] EXCEPT !.status = "pending", !.fresh = TRUE, !.by = tx[s].by]
  <2>1. /\ tx[s].by \in Users /\ tx[s].by \in Actors
        /\ OnlyPending(invitations[i].email, {i})
        /\ UNCHANGED <<members, assigned>>
    BY <1>3, StageShapes DEF RenewInvitation, IInv, TypeOK, RequestsCovered, RequestCovered
  <2>2. row \in InvitationRows
    BY <1>2, <2>1 DEF InvitationRows
  <2>3. /\ row.email = invitations[i].email /\ row.role = invitations[i].role
        /\ row.target = invitations[i].target /\ row.by \in Actors
    BY <1>2, <2>1 DEF InvitationRows
  <2>4. invitations' = [invitations EXCEPT ![i] = row]
    BY <1>3 DEF RenewInvitation
  <2>5. members' \in [Users -> Statuses] /\ assigned' \subseteq Assignments
    BY <2>1 DEF IInv, TypeOK
  <2> QED
    BY <1>1, <2>1, <2>2, <2>3, <2>4, <2>5, HeldInvitationStep
<1>4. CASE WithdrawInvitation(s)
  <2> DEFINE row == [invitations[i] EXCEPT !.status = "revoked"]
  <2>1. UNCHANGED <<members, assigned>>
    BY <1>4 DEF WithdrawInvitation
  <2>2. row \in InvitationRows
    BY <1>2 DEF InvitationRows
  <2>3. /\ row.email = invitations[i].email /\ row.role = invitations[i].role
        /\ row.target = invitations[i].target /\ row.by \in Actors /\ row.status # "pending"
    BY <1>2 DEF InvitationRows
  <2>4. invitations' = [invitations EXCEPT ![i] = row]
    BY <1>4 DEF WithdrawInvitation
  <2>5. members' \in [Users -> Statuses] /\ assigned' \subseteq Assignments
    BY <2>1 DEF IInv, TypeOK
  <2> QED
    BY <1>1, <2>1, <2>2, <2>3, <2>4, <2>5, HeldInvitationStep
<1>5. CASE Accept(s)
  <2> DEFINE row == [invitations[i] EXCEPT !.status = "accepted"]
  <2>1. row \in InvitationRows
    BY <1>2 DEF InvitationRows
  <2>2. /\ row.email = invitations[i].email /\ row.role = invitations[i].role
        /\ row.target = invitations[i].target /\ row.by \in Actors /\ row.status # "pending"
    BY <1>2 DEF InvitationRows
  <2>3. invitations' = [invitations EXCEPT ![i] = row]
    BY <1>5 DEF Accept
  <2>4. tx[s].stage = "accept" /\ tx[s].row \in Assignments
    BY <1>5, StageShapes DEF Accept, IInv, TypeOK
  <2>5. members' \in [Users -> Statuses]
    BY <1>5 DEF Accept, Join, Statuses, IInv, TypeOK
  <2>6. \/ assigned' = assigned
        \/ /\ assigned' = assigned \cup {tx[s].row}
           /\ ResolvesTo(tx[s].row.role, tx[s].row.target)
    BY <1>5 DEF Accept, Insertable
  <2>7. \A k \in roles[tx[s].row.role].keys : Covered(k, tx[s].row.target)
    BY <2>4 DEF IInv, RequestsCovered, RequestCovered
  <2>8. /\ assigned' \subseteq Assignments
        /\ \A a \in assigned' \ assigned :
             /\ ResolvesTo(a.role, a.target)
             /\ \A k \in roles[a.role].keys : Covered(k, a.target)
    BY <2>4, <2>6, <2>7 DEF IInv, TypeOK
  <2> QED
    BY <1>1, <2>1, <2>2, <2>3, <2>5, <2>8, HeldInvitationStep
<1> QED
  BY <1>3, <1>4, <1>5

LEMMA InsertInvitationStep ==
  ASSUME IInv, NEW s \in Sessions, InsertInvitation(s)
  PROVE  IInv'
<1> DEFINE i == tx[s].invitation
           row == tx[s].row
           old == tx[s].expires
           Expired(j) == [invitations[j] EXCEPT !.status = "expired"]
<1>1. /\ tx[s].stage = "invite" /\ i \in Invitations /\ row \in InvitationRows
      /\ old \subseteq Invitations
      /\ Commit(s) /\ UNCHANGED <<roles, members, assigned>>
      /\ ResolvesTo(row.role, row.target) /\ OnlyPending(row.email, old)
      /\ invitations' = [j \in Invitations |-> IF j = i THEN row
                                               ELSE IF j \in old THEN Expired(j) ELSE invitations[j]]
  BY StageShapes DEF InsertInvitation, IInv, TypeOK
<1>2. /\ invitations[i] = Unsent /\ i \notin Sent /\ row.status = "pending"
      /\ \A j \in old : j \in Sent /\ invitations[j].status = "pending" /\ j # i
  BY <1>1 DEF IInv, ReadsHold, ReadHolds, Unsent, Sent
<1>3. row.by \in Actors
  BY <1>1 DEF IInv, RequestsCovered, RequestCovered
<1>4. \A j \in old : /\ Expired(j) \in InvitationRows
                     /\ Expired(j).status = "expired" /\ Expired(j).email = invitations[j].email
                     /\ Expired(j).role = invitations[j].role
                     /\ Expired(j).target = invitations[j].target
                     /\ Expired(j).by = invitations[j].by
  BY <1>1, <1>2, InvitationRead DEF IInv, InvitationRows
<1>5. invitations' \in [Invitations -> InvitationRows \cup {Unsent}]
  BY <1>1, <1>4 DEF IInv, TypeOK
<1>6. /\ invitations'[i] = row
      /\ \A j \in old : invitations'[j] = Expired(j)
      /\ \A j \in Invitations \ (old \cup {i}) : invitations'[j] = invitations[j]
  BY <1>1, <1>2
<1>7. Sent' = Sent \cup {i}
  <2>1. row.status # "unsent"
    BY <1>2
  <2> QED
    BY <1>1, <1>2, <1>4, <1>6, <2>1 DEF Sent
<1>8. \A j \in Sent : /\ invitations'[j].role = invitations[j].role
                      /\ invitations'[j].target = invitations[j].target
                      /\ invitations'[j].by = invitations[j].by
                      /\ invitations'[j].email = invitations[j].email
                      /\ invitations'[j].status = "pending" => invitations[j].status = "pending" /\ j \notin old
  <2> SUFFICES ASSUME NEW j \in Sent
               PROVE  /\ invitations'[j].role = invitations[j].role
                      /\ invitations'[j].target = invitations[j].target
                      /\ invitations'[j].by = invitations[j].by
                      /\ invitations'[j].email = invitations[j].email
                      /\ invitations'[j].status = "pending" => invitations[j].status = "pending" /\ j \notin old
      OBVIOUS
  <2>1. j \in Invitations /\ j # i
    BY <1>2 DEF Sent
  <2>2. CASE j \in old
    BY <1>4, <1>6, <2>2
  <2>3. CASE j \notin old
    BY <1>6, <2>1, <2>3
  <2> QED
    BY <2>2, <2>3
<1> HIDE DEF Expired
<1>9. RolesExist'
  BY <1>1, <1>6, <1>7, <1>8 DEF IInv, RolesExist, ResolvesTo
<1>10. InvitersAct'
  BY <1>3, <1>6, <1>7, <1>8 DEF IInv, InvitersAct
<1>11. OnePending'
  <2> SUFFICES ASSUME NEW j \in Sent', NEW l \in Sent', j # l,
                      invitations'[j].email = invitations'[l].email,
                      invitations'[j].status = "pending", invitations'[l].status = "pending"
               PROVE  FALSE
      BY DEF OnePending
  <2>1. CASE j = i
    BY <1>1, <1>6, <1>7, <1>8, <2>1 DEF OnlyPending
  <2>2. CASE l = i
    BY <1>1, <1>6, <1>7, <1>8, <2>2 DEF OnlyPending
  <2>3. CASE j # i /\ l # i
    BY <1>7, <1>8, <2>3 DEF IInv, OnePending
  <2> QED
    BY <2>1, <2>2, <2>3
<1>12. NoEscalation'
  BY <1>1 DEF IInv, NoEscalation, Theirs
<1>13. \A o \in Sessions \ {s} : tx'[o] = tx[o] /\ tx[o] \in Transactions /\ Apart(tx[s], tx[o])
  BY <1>1, OthersStay DEF Commit, IInv, TypeOK, LocksHold
<1>14. \A o \in Sessions \ {s} : ReadHolds(tx[o])'
  <2> SUFFICES ASSUME NEW o \in Sessions \ {s}
               PROVE  ReadHolds(tx[o])'
      OBVIOUS
  <2>1. ReadHolds(tx[o])
    BY DEF IInv, ReadsHold
  <2>2. tx[o].stage \in {"resend", "revoke", "accept"} => tx[o].invitation \in Invitations \ (old \cup {i})
    BY <1>1, <1>2, <1>13, <2>1, StageShapes DEF Apart, HeldInvitations, ReadHolds, Unsent
  <2>3. tx[o].stage = "invite" =>
          /\ tx[o].expires \subseteq Invitations \ (old \cup {i})
          /\ tx[o].invitation \in Invitations \ (old \cup {i})
    <3> SUFFICES ASSUME tx[o].stage = "invite"
                 PROVE  /\ tx[o].expires \subseteq Invitations \ (old \cup {i})
                        /\ tx[o].invitation \in Invitations \ (old \cup {i})
        OBVIOUS
    <3>1. tx[o].expires \subseteq Invitations /\ tx[o].invitation \in Invitations
      BY <1>13, StageShapes
    <3>2. tx[o].expires \cap old = {} /\ tx[o].invitation # i
      BY <1>1, <1>13 DEF Apart, HeldInvitations, NewInvitation
    <3>3. i \notin tx[o].expires /\ tx[o].invitation \notin old
      BY <1>2, <2>1 DEF ReadHolds, Unsent, Sent
    <3> QED
      BY <3>1, <3>2, <3>3
  <2> QED
    BY <1>1, <1>6, <1>13, <2>1, <2>2, <2>3 DEF ReadHolds
<1>15. \A o \in Sessions \ {s} : RequestCovered(tx[o])'
  BY <1>1, <1>13 DEF IInv, RequestsCovered, RequestCovered
<1>16. /\ roles' \in [Roles -> RoleRows \cup {Absent}]
       /\ members' \in [Users -> Statuses] /\ assigned' \subseteq Assignments
  BY <1>1 DEF IInv, TypeOK
<1> HIDE DEF i, row, old
<1> QED
  BY <1>1, <1>5, <1>9, <1>10, <1>11, <1>12, <1>14, <1>15, <1>16, CommitStep

LEMMA ExpireStep ==
  ASSUME IInv, NEW i \in Invitations, Expire(i)
  PROVE  IInv'
<1> DEFINE row == [invitations[i] EXCEPT !.fresh = FALSE]
<1>1. /\ invitations[i].status = "pending"
      /\ invitations' = [invitations EXCEPT ![i] = row]
      /\ UNCHANGED <<roles, members, assigned, tx, requests>>
  BY DEF Expire
<1>2. i \in Sent /\ invitations[i] \in InvitationRows /\ invitations[i].by \in Actors
  BY <1>1, InvitationRead DEF Sent, IInv, InvitersAct
<1>3. /\ row \in InvitationRows /\ row.status = "pending"
      /\ row.email = invitations[i].email /\ row.role = invitations[i].role
      /\ row.target = invitations[i].target /\ row.by \in Actors
  BY <1>1, <1>2 DEF InvitationRows
<1>4. OnlyPending(row.email, {i})
  BY <1>1, <1>2, <1>3 DEF OnlyPending, IInv, OnePending
<1>5. /\ invitations' \in [Invitations -> InvitationRows \cup {Unsent}]
      /\ \A j \in Invitations : invitations'[j] = IF j = i THEN row ELSE invitations[j]
      /\ Sent' = Sent
      /\ \A j \in Sent : /\ invitations'[j].role = invitations[j].role
                         /\ invitations'[j].target = invitations[j].target
      /\ InvitersAct' /\ OnePending'
  BY <1>1, <1>2, <1>3, <1>4, InvitationRewritten
<1>6. TypeOK'
  BY <1>1, <1>5 DEF IInv, TypeOK
<1>7. RolesExist'
  BY <1>1, <1>5 DEF IInv, RolesExist, ResolvesTo
<1>8. LocksHold' /\ NoEscalation'
  BY <1>1 DEF IInv, LocksHold, Apart, HeldRoles, HeldInvitations, NewInvitation, NoEscalation, Theirs
<1>9. ReadsHold'
  <2> SUFFICES ASSUME NEW o \in Sessions
               PROVE  ReadHolds(tx[o])'
      BY DEF ReadsHold
  <2>1. ReadHolds(tx[o]) /\ tx[o] \in Transactions
    BY DEF IInv, ReadsHold, TypeOK
  <2>2. /\ tx[o].stage \in {"resend", "revoke", "accept", "invite"} => tx[o].invitation \in Invitations
        /\ tx[o].stage = "invite" => tx[o].expires \subseteq Invitations
    BY <2>1, StageShapes
  <2>3. \A j \in Invitations : /\ invitations'[j].status = invitations[j].status
                               /\ invitations[j] = Unsent => invitations'[j] = Unsent
    BY <1>1, <1>3, <1>5 DEF Unsent
  <2> QED
    BY <1>1, <2>1, <2>2, <2>3 DEF ReadHolds
<1>10. RequestsCovered'
  BY <1>1 DEF IInv, RequestsCovered, RequestCovered
<1> QED
  BY <1>5, <1>6, <1>7, <1>8, <1>9, <1>10 DEF IInv

-----------------------------------------------------------------------------
(* The theorems *)

LEMMA InitIInv == Init => IInv
<1> SUFFICES ASSUME Init
             PROVE  IInv
    OBVIOUS
<1> USE DEF Init
<1>1. TypeOK
  BY TenantAssumption DEF TypeOK, Transactions
<1>2. Sent = {}
  BY DEF Sent, Unsent
<1>3. RolesExist /\ InvitersAct /\ OnePending
  BY <1>2, TenantAssumption DEF RolesExist, ResolvesTo, InvitersAct, OnePending
<1>4. LocksHold /\ ReadsHold /\ RequestsCovered
  BY DEF LocksHold, ReadsHold, ReadHolds, RequestsCovered, RequestCovered, Idle,
         Apart, HeldRoles, HeldInvitations, NewInvitation
<1>5. NoEscalation
  BY DEF NoEscalation, Theirs, Covered, Within
<1> QED
  BY <1>1, <1>3, <1>4, <1>5 DEF IInv

LEMMA NextIInv == IInv /\ [Next]_vars => IInv'
<1> SUFFICES ASSUME IInv, [Next]_vars
             PROVE  IInv'
    OBVIOUS
<1>1. ASSUME NEW s \in Sessions, Authenticate(s)
      PROVE  IInv'
  BY <1>1, AuthenticateStep
<1>2. ASSUME NEW s \in Sessions, Rollback(s)
      PROVE  IInv'
  BY <1>2, RollbackStep
<1>3. ASSUME NEW s \in Sessions, RoleRequest(s)
      PROVE  IInv'
  BY <1>3, RoleDecision, WriteRoleStep, EraseRoleStep DEF RoleRequest
<1>4. ASSUME NEW s \in Sessions, MemberRequest(s)
      PROVE  IInv'
  BY <1>4, MemberDecision, MemberCommit DEF MemberRequest
<1>5. ASSUME NEW s \in Sessions, InvitationRequest(s)
      PROVE  IInv'
  BY <1>5, CreateInvitationStep, InsertInvitationStep, ResendOrRevokeStep, AcceptInvitationStep,
     InvitationCommit DEF InvitationRequest
<1>6. ASSUME NEW i \in Invitations, Expire(i)
      PROVE  IInv'
  BY <1>6, ExpireStep
<1>7. CASE UNCHANGED vars
  BY <1>7 DEF vars, IInv, TypeOK, RolesExist, ResolvesTo, LocksHold, Apart, HeldRoles,
              HeldInvitations, NewInvitation, ReadsHold, ReadHolds, RequestsCovered, RequestCovered,
              InvitersAct, NoEscalation, Theirs, OnePending, Sent
<1> QED
  BY <1>1, <1>2, <1>3, <1>4, <1>5, <1>6, <1>7 DEF Next

\* The inductive invariant: the state is well formed, and what a request has read
\* under a lock, and what it may do with its grants, is still so when it commits
\* (the FOR UPDATE reads of rbac/service.py and organizations/service.py).
THEOREM AccessInvariant == Spec => []IInv
BY InitIInv, NextIInv, PTL DEF Spec

\* No sequence of requests of a group of users, however they interleave, gives a
\* permission where none of the group could delegate it at the start.
THEOREM NoEscalationHolds == Spec => []NoEscalation
<1>1. IInv => NoEscalation
  BY DEF IInv
<1> QED
  BY <1>1, AccessInvariant, PTL

\* Assignments and invitations never lose the role they refer to, although
\* delete_role and create_role do not know each other's requests.
THEOREM RolesExistHolds == Spec => []RolesExist
<1>1. IInv => RolesExist
  BY DEF IInv
<1> QED
  BY <1>1, AccessInvariant, PTL

\* Invitations created, resent and accepted at the same time leave at most one
\* pending for an address.
THEOREM OnePendingHolds == Spec => []OnePending
<1>1. IInv => OnePending
  BY DEF IInv
<1> QED
  BY <1>1, AccessInvariant, PTL

LEMMA InvitationStatusStep ==
  ASSUME IInv, [Next]_vars, NEW i \in Invitations
  PROVE  /\ invitations[i].status = "accepted" => invitations'[i] = invitations[i]
         /\ invitations[i].status # "accepted" /\ invitations'[i].status = "accepted"
              => invitations[i].status = "pending"
<1> DEFINE Kept(j) == /\ invitations[j].status = "accepted" => invitations'[j] = invitations[j]
                      /\ invitations[j].status # "accepted" /\ invitations'[j].status = "accepted"
                           => invitations[j].status = "pending"
<1> SUFFICES Kept(i)
    OBVIOUS
<1>1. invitations \in [Invitations -> InvitationRows \cup {Unsent}]
  BY DEF IInv, TypeOK
<1>2. CASE UNCHANGED invitations
  BY <1>2
<1>3. ASSUME NEW j \in Invitations, Expire(j)
      PROVE  Kept(i)
  BY <1>1, <1>3 DEF Expire, InvitationRows
<1>4. ASSUME NEW s \in Sessions, InsertInvitation(s)
      PROVE  Kept(i)
  <2>1. /\ tx[s].row.status = "pending"
        /\ invitations[tx[s].invitation] = Unsent
        /\ \A j \in tx[s].expires : invitations[j].status = "pending"
    BY <1>4 DEF InsertInvitation, IInv, ReadsHold, ReadHolds
  <2> QED
    BY <1>1, <1>4, <2>1 DEF InsertInvitation, Unsent
<1>5. ASSUME NEW s \in Sessions, RenewInvitation(s) \/ WithdrawInvitation(s)
      PROVE  Kept(i)
  <2>1. invitations[tx[s].invitation].status \notin {"unsent", "accepted"}
    BY <1>5 DEF RenewInvitation, WithdrawInvitation, IInv, ReadsHold, ReadHolds
  <2>2. /\ \A j \in Invitations \ {tx[s].invitation} : invitations'[j] = invitations[j]
        /\ tx[s].invitation \in Invitations
             => invitations'[tx[s].invitation].status \in {"pending", "revoked"}
    <3>1. tx[s].invitation \in Invitations => invitations[tx[s].invitation] \in InvitationRows
      BY <1>1, <2>1 DEF Unsent
    <3> QED
      BY <1>1, <1>5, <3>1 DEF RenewInvitation, WithdrawInvitation, InvitationRows
  <2> QED
    BY <2>1, <2>2
<1>6. ASSUME NEW s \in Sessions, Accept(s)
      PROVE  Kept(i)
  <2>1. invitations[tx[s].invitation].status = "pending"
    BY <1>6 DEF Accept, IInv, ReadsHold, ReadHolds
  <2>2. \A j \in Invitations \ {tx[s].invitation} : invitations'[j] = invitations[j]
    BY <1>1, <1>6 DEF Accept
  <2> QED
    BY <2>1, <2>2
<1> HIDE DEF Kept
<1>7. \/ UNCHANGED invitations
      \/ \E j \in Invitations : Expire(j)
      \/ \E s \in Sessions : \/ InsertInvitation(s) \/ Accept(s)
                             \/ RenewInvitation(s) \/ WithdrawInvitation(s)
  BY DEF Next, vars, Authenticate, Rollback, RoleRequest, CreateRole, UpdateRole, WriteRole,
         DeleteRole, EraseRole, MemberRequest, AssignRole, InsertAssignment, RemoveRoleAssignment,
         DeleteAssignment, UpdateMembershipStatus, SetMembershipStatus, InvitationRequest,
         CreateInvitation, ResendInvitation, RevokeInvitation, AcceptInvitation, Decide
<1> QED
  BY <1>2, <1>3, <1>4, <1>5, <1>6, <1>7

\* An invitation is accepted once, from pending, whatever resends, revocations and
\* acceptances run at the same time.
THEOREM InvitationUsedOnceHolds == Spec => InvitationUsedOnce
<1>1. IInv /\ [Next]_vars =>
        [\A i \in Invitations :
           /\ invitations[i].status = "accepted" => invitations'[i] = invitations[i]
           /\ invitations[i].status # "accepted" /\ invitations'[i].status = "accepted"
                => invitations[i].status = "pending"]_invitations
  BY InvitationStatusStep
<1> QED
  BY <1>1, AccessInvariant, PTL DEF Spec, InvitationUsedOnce
=============================================================================
