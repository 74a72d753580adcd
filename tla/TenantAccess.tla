---------------------------- MODULE TenantAccess ----------------------------
(***************************************************************************)
(* The administration of one tenant: roles, their assignment to members at *)
(* a place, the status of memberships, and invitations.  A request runs in *)
(* one transaction at READ COMMITTED.  It first resolves its actor's       *)
(* grants (get_auth_context), then reads and decides, with the row locks   *)
(* the service takes, and then commits; every other request may run in     *)
(* between.  A session's requests follow each other, because               *)
(* get_auth_context locks the session row.                                 *)
(*                                                                         *)
(* A refused or failed request rolls back.  The version a client has read  *)
(* is not data here: it is compared under the row lock, so a stale request *)
(* is one more request that is refused.                                    *)
(***************************************************************************)
EXTENDS PermissionScopes, Naturals, FiniteSets

CONSTANTS Tenant, Users, PlatformAdmins,
          Sessions, UserOf,               \* signed-in sessions and their users
          Roles, SystemRoles, OwnerRole,
          Invitations,
          InitialRoles, InitialMembers, InitialAssigned,  \* the tenant when the sessions start
          RequestedKeys,                  \* bound: the key sets requests ask a role to have
          MaxRequests                     \* bound: the requests in a behaviour

VARIABLES roles, members, assigned, invitations, tx, requests
vars == <<roles, members, assigned, invitations, tx, requests>>

Absent == [scope |-> "absent", keys |-> {}]
RoleRows == [scope : {"platform", "tenant", "company", "branch"}, keys : SUBSET Keys]

\* The places of the tenant: foreign keys tie a branch to its company.
Places == {t \in Targets : t.tenant = Tenant /\ (t.branch # None => CompanyOf[t.branch] = t.company)}

Assignments == [member : Users, role : Roles, target : Places]

Unsent == [status |-> "unsent"]
InvitationRows ==
  [status : {"pending", "accepted", "revoked", "expired"}, fresh : BOOLEAN,
   email : Users, role : Roles, target : Places, by : Users]
Sent == {i \in Invitations : invitations[i].status # "unsent"}

\* The stages of a session's request.
Idle == [stage |-> "idle"]
Decided ==
       [stage : {"writeRole"}, role : Roles, row : RoleRows]
  \cup [stage : {"deleteRole"}, role : Roles]
  \cup [stage : {"assign", "remove"}, row : Assignments]
  \cup [stage : {"status"}, member : Users, status : {"active", "suspended", "revoked"}]
  \cup [stage : {"invite"}, invitation : Invitations, row : InvitationRows, expires : SUBSET Invitations]
  \cup [stage : {"resend"}, invitation : Invitations, by : Users]
  \cup [stage : {"revoke"}, invitation : Invitations]
  \cup [stage : {"accept"}, invitation : Invitations, row : Assignments,
        adds : BOOLEAN, membership : {"none", "active", "suspended"}]
Transactions == {Idle} \cup [stage : {"open"}, grants : SUBSET Grants] \cup Decided

Statuses == {"none", "active", "suspended", "revoked"}   \* "none": no membership

TypeOK ==
  /\ roles \in [Roles -> RoleRows \cup {Absent}]
  /\ members \in [Users -> Statuses]
  /\ assigned \subseteq Assignments
  /\ invitations \in [Invitations -> InvitationRows \cup {Unsent}]
  /\ tx \in [Sessions -> Transactions]
  /\ requests \in 0..MaxRequests

ASSUME TenantAssumption ==
  /\ Tenant \in Tenants
  /\ PlatformAdmins \subseteq Users
  /\ UserOf \in [Sessions -> Users]
  /\ SystemRoles \subseteq Roles
  /\ OwnerRole \in SystemRoles
  /\ InitialRoles \in [Roles -> RoleRows \cup {Absent}]
  /\ InitialMembers \in [Users -> Statuses]
  /\ InitialAssigned \subseteq Assignments
  /\ \A a \in InitialAssigned : InitialRoles[a.role].scope = Scope(a.target)
  /\ RequestedKeys \subseteq SUBSET Keys
  /\ MaxRequests \in Nat

Init ==
  /\ roles = InitialRoles
  /\ members = InitialMembers
  /\ assigned = InitialAssigned
  /\ invitations = [i \in Invitations |-> Unsent]
  /\ tx = [s \in Sessions |-> Idle]
  /\ requests = 0

-----------------------------------------------------------------------------
(* Authority *)

\* The grants that one assignment yields.
Yield(a) == {GrantAt(k, roles[a.role].scope, a.target) : k \in roles[a.role].keys}

\* _resolve_permission_grants: the assignments for the tenant, and those for the
\* company and the branch that are active in the session.
GrantsOf(u, active) ==
  IF u \in PlatformAdmins THEN PlatformGrants
  ELSE UNION {Yield(a) : a \in {b \in assigned : b.member = u /\ Within(active, b.target)}}

\* validate_inviter_authority takes all of the inviter's assignments.
AllGrantsOf(u) == UNION {Yield(a) : a \in {b \in assigned : b.member = u}}

DelegatesRole(grants, authority, r, t) ==
  /\ CanDelegate(grants, authority, t)
  /\ \A k \in roles[r].keys : CanDelegate(grants, k, t)

\* resolve_role_target: the identifiers a role needs are exactly those of its scope.
ResolvesTo(r, t) == roles[r].scope = Scope(t)

ActiveOwners == {a \in assigned : a.role = OwnerRole /\ members[a.member] = "active"}

-----------------------------------------------------------------------------
(* Row locks, and what the database refuses *)

\* FOR UPDATE is taken on a row by the requests that name it; an INSERT that
\* refers to a role or a membership takes a key share of it and waits as well.
Holds(stage, s) == {o \in Sessions \ {s} : tx[o].stage \in stage}

\* Mutation: a role is read without FOR UPDATE.
RoleFreeUnlocked(s, r) == TRUE

\* Mutation: an acceptance reads the invitation without FOR UPDATE.
InvitationFreeForAll(s, i) ==
  /\ \A o \in Holds({"resend", "revoke"}, s) : tx[o].invitation # i
  /\ \A o \in Holds({"invite"}, s) : i \notin tx[o].expires

RoleFree(s, r)       == \A o \in Holds({"writeRole", "deleteRole"}, s) : tx[o].role # r
AssignmentFree(s, a) == \A o \in Holds({"remove"}, s) : tx[o].row # a
MemberFree(s, u)     == \A o \in Holds({"status"}, s) : tx[o].member # u
InvitationFree(s, i) ==
  /\ \A o \in Holds({"resend", "revoke", "accept"}, s) : tx[o].invitation # i
  /\ \A o \in Holds({"invite"}, s) : i \notin tx[o].expires

\* A new assignment: the foreign keys, the trigger validate_scoped_role_reference
\* and the unique index uq_role_assignments_scope.
Insertable(s, a) ==
  /\ RoleFree(s, a.role) /\ MemberFree(s, a.member)
  /\ ResolvesTo(a.role, a.target)
  /\ a \notin assigned

\* Mutation: without the index, there is only the check of create_invitation.
OnlyPendingUnchecked(email, except) == TRUE

\* uq_invitations_pending_tenant_email.
OnlyPending(email, except) ==
  \A i \in Sent \ except : ~(invitations[i].status = "pending" /\ invitations[i].email = email)

-----------------------------------------------------------------------------
(* The start and the end of a request *)

\* get_auth_context; the active context may have been set to any place of the
\* tenant by switch_context, which asks for the membership alone.
Authenticate(s) ==
  /\ tx[s] = Idle /\ requests < MaxRequests
  /\ UserOf[s] \in PlatformAdmins \/ members[UserOf[s]] = "active"
  /\ \E active \in Places :
       tx' = [tx EXCEPT ![s] = [stage |-> "open", grants |-> GrantsOf(UserOf[s], active)]]
  /\ requests' = requests + 1
  /\ UNCHANGED <<roles, members, assigned, invitations>>

\* The service raises, a constraint is violated or the process dies:
\* get_db_session rolls back.
Rollback(s) ==
  /\ tx[s] # Idle
  /\ tx' = [tx EXCEPT ![s] = Idle]
  /\ UNCHANGED <<roles, members, assigned, invitations, requests>>

Decide(s, decision) ==
  /\ tx' = [tx EXCEPT ![s] = decision]
  /\ UNCHANGED <<roles, members, assigned, invitations, requests>>

\* get_db_session commits when the handler returns.
Commit(s) == tx' = [tx EXCEPT ![s] = Idle] /\ UNCHANGED requests

-----------------------------------------------------------------------------
(* Roles *)

\* Mutation: has_permission in place of has_tenant_wide_permission.
DelegableSomewhere(grants, keys) ==
  keys # {} /\ \A k \in keys : \E g \in grants : g.key = k

\* _validate_tenant_role_permissions
DelegableEverywhere(grants, keys) ==
  keys # {} /\ \A k \in keys : TenantWide(grants, k, Tenant)

CreateRole(s) ==
  /\ tx[s].stage = "open"
  /\ TenantWide(tx[s].grants, "role.create", Tenant)
  /\ \E r \in Roles \ SystemRoles, scope \in {"tenant", "company", "branch"}, keys \in RequestedKeys :
       /\ roles[r] = Absent /\ RoleFree(s, r)   \* a new identifier
       /\ DelegableEverywhere(tx[s].grants, keys)
       /\ Decide(s, [stage |-> "writeRole", role |-> r, row |-> [scope |-> scope, keys |-> keys]])

UpdateRole(s) ==
  /\ tx[s].stage = "open"
  /\ TenantWide(tx[s].grants, "role.update", Tenant)
  /\ \E r \in Roles \ SystemRoles, keys \in RequestedKeys :
       /\ roles[r] # Absent /\ RoleFree(s, r)
       /\ DelegableEverywhere(tx[s].grants, keys)
       /\ Decide(s, [stage |-> "writeRole", role |-> r, row |-> [scope |-> roles[r].scope, keys |-> keys]])

WriteRole(s) ==
  /\ tx[s].stage = "writeRole"
  /\ roles' = [roles EXCEPT ![tx[s].role] = tx[s].row]
  /\ Commit(s)
  /\ UNCHANGED <<members, assigned, invitations>>

DeleteRole(s) ==
  /\ tx[s].stage = "open"
  /\ TenantWide(tx[s].grants, "role.delete", Tenant)
  /\ \E r \in Roles \ SystemRoles :
       /\ roles[r] # Absent /\ RoleFree(s, r)
       /\ \A a \in assigned : a.role # r
       /\ Decide(s, [stage |-> "deleteRole", role |-> r])

\* Mutation: invitations do not restrict the deletion of their role.
UnassignedOnly(r) == \A a \in assigned : a.role # r

\* ON DELETE RESTRICT of role_assignments and of invitations.
Unreferenced(r) ==
  /\ \A a \in assigned : a.role # r
  /\ \A i \in Sent : invitations[i].role # r

EraseRole(s) ==
  /\ tx[s].stage = "deleteRole"
  /\ Unreferenced(tx[s].role)
  /\ roles' = [roles EXCEPT ![tx[s].role] = Absent]
  /\ Commit(s)
  /\ UNCHANGED <<members, assigned, invitations>>

-----------------------------------------------------------------------------
(* Assignments and memberships *)

AssignRole(s) ==
  /\ tx[s].stage = "open"
  /\ \E u \in Users, r \in Roles, t \in Places :
       /\ members[u] # "none"
       /\ ResolvesTo(r, t)
       /\ DelegatesRole(tx[s].grants, "role.assign", r, t)
       /\ Decide(s, [stage |-> "assign", row |-> [member |-> u, role |-> r, target |-> t]])

InsertAssignment(s) ==
  /\ tx[s].stage = "assign"
  /\ Insertable(s, tx[s].row)
  /\ assigned' = assigned \cup {tx[s].row}
  /\ Commit(s)
  /\ UNCHANGED <<roles, members, invitations>>

\* remove_role_assignment locks the assignment, and counts the owners' others
\* without a lock.
RemoveRoleAssignment(s) ==
  /\ tx[s].stage = "open"
  /\ \E a \in assigned :
       /\ AssignmentFree(s, a)
       /\ DelegatesRole(tx[s].grants, "role.assign", a.role, a.target)
       /\ a.role = OwnerRole => Cardinality(ActiveOwners) > 1
       /\ Decide(s, [stage |-> "remove", row |-> a])

DeleteAssignment(s) ==
  /\ tx[s].stage = "remove"
  /\ assigned' = assigned \ {tx[s].row}
  /\ Commit(s)
  /\ UNCHANGED <<roles, members, invitations>>

\* update_membership_status locks the membership, and counts in the same way.
UpdateMembershipStatus(s) ==
  /\ tx[s].stage = "open"
  /\ TenantWide(tx[s].grants, "membership.manage", Tenant)
  /\ \E u \in Users, status \in {"active", "suspended", "revoked"} :
       /\ members[u] # "none" /\ MemberFree(s, u)
       /\ (status # "active" /\ \E a \in assigned : a.member = u /\ a.role = OwnerRole)
            => Cardinality(ActiveOwners) # 1
       /\ Decide(s, [stage |-> "status", member |-> u, status |-> status])

SetMembershipStatus(s) ==
  /\ tx[s].stage = "status"
  /\ members' = [members EXCEPT ![tx[s].member] = tx[s].status]
  /\ Commit(s)
  /\ UNCHANGED <<roles, assigned, invitations>>

-----------------------------------------------------------------------------
(* Invitations *)

\* Time passes expires_at.
Expire(i) ==
  /\ invitations[i].status = "pending" /\ invitations[i].fresh
  /\ invitations' = [invitations EXCEPT ![i].fresh = FALSE]
  /\ UNCHANGED <<roles, members, assigned, tx, requests>>

CreateInvitation(s) ==
  /\ tx[s].stage = "open"
  /\ \E i \in Invitations \ Sent, email \in Users, r \in Roles, t \in Places :
       LET pending == {j \in Sent : invitations[j].status = "pending" /\ invitations[j].email = email} IN
       /\ \A o \in Holds({"invite"}, s) : tx[o].invitation # i   \* a new identifier
       /\ ResolvesTo(r, t)
       /\ DelegatesRole(tx[s].grants, "user.invite", r, t)
       /\ \A j \in pending : ~invitations[j].fresh /\ InvitationFree(s, j)
       /\ Decide(s, [stage |-> "invite", invitation |-> i, expires |-> pending,
                     row |-> [status |-> "pending", fresh |-> TRUE, email |-> email,
                              role |-> r, target |-> t, by |-> UserOf[s]]])

InsertInvitation(s) ==
  LET row == tx[s].row IN
  /\ tx[s].stage = "invite"
  /\ RoleFree(s, row.role) /\ ResolvesTo(row.role, row.target)
  /\ OnlyPending(row.email, tx[s].expires)
  /\ invitations' = [i \in Invitations |->
                       IF i = tx[s].invitation THEN row
                       ELSE IF i \in tx[s].expires THEN [invitations[i] EXCEPT !.status = "expired"]
                       ELSE invitations[i]]
  /\ Commit(s)
  /\ UNCHANGED <<roles, members, assigned>>

\* What resend_invitation and revoke_invitation_record check, under the lock.
Manages(s, i) ==
  /\ tx[s].stage = "open"
  /\ i \in Sent /\ InvitationFree(s, i)
  /\ ResolvesTo(invitations[i].role, invitations[i].target)
  /\ DelegatesRole(tx[s].grants, "user.invite", invitations[i].role, invitations[i].target)
  /\ invitations[i].status # "accepted"

ResendInvitation(s) ==
  \E i \in Invitations :
    Manages(s, i) /\ Decide(s, [stage |-> "resend", invitation |-> i, by |-> UserOf[s]])

RenewInvitation(s) ==
  LET i == tx[s].invitation IN
  /\ tx[s].stage = "resend"
  /\ OnlyPending(invitations[i].email, {i})
  /\ invitations' = [invitations EXCEPT ![i].status = "pending", ![i].fresh = TRUE, ![i].by = tx[s].by]
  /\ Commit(s)
  /\ UNCHANGED <<roles, members, assigned>>

RevokeInvitation(s) ==
  \E i \in Invitations :
    Manages(s, i) /\ Decide(s, [stage |-> "revoke", invitation |-> i])

WithdrawInvitation(s) ==
  /\ tx[s].stage = "revoke"
  /\ invitations' = [invitations EXCEPT ![tx[s].invitation].status = "revoked"]
  /\ Commit(s)
  /\ UNCHANGED <<roles, members, assigned>>

\* validate_inviter_authority, at the time of the acceptance.
InviterMayStill(u, r, t) ==
  \/ u \in PlatformAdmins
  \/ members[u] = "active" /\ DelegatesRole(AllGrantsOf(u), "user.invite", r, t)

\* accept_invitation locks the invitation; it reads the membership without a lock.
\* Its user may have no active tenant, so that no grant is resolved.
AcceptInvitation(s) ==
  /\ tx[s] = Idle /\ requests < MaxRequests
  /\ \E i \in Sent :
       LET inv == invitations[i]
           row == [member |-> UserOf[s], role |-> inv.role, target |-> inv.target] IN
       /\ InvitationFree(s, i)
       /\ inv.status = "pending" /\ inv.fresh /\ inv.email = UserOf[s]
       /\ ResolvesTo(inv.role, inv.target)
       /\ InviterMayStill(inv.by, inv.role, inv.target)
       /\ members[UserOf[s]] # "revoked"
       /\ tx' = [tx EXCEPT ![s] = [stage |-> "accept", invitation |-> i, row |-> row,
                                   adds |-> row \notin assigned, membership |-> members[UserOf[s]]]]
  /\ requests' = requests + 1
  /\ UNCHANGED <<roles, members, assigned, invitations>>

\* A membership that was missing is inserted (uq_memberships_tenant_user); one that
\* was read as suspended is set to active, whatever it has become since.
Join(s) ==
  LET u == tx[s].row.member IN
  \/ tx[s].membership = "none" /\ members[u] = "none" /\ members' = [members EXCEPT ![u] = "active"]
  \/ tx[s].membership = "suspended" /\ MemberFree(s, u) /\ members' = [members EXCEPT ![u] = "active"]
  \/ tx[s].membership = "active" /\ UNCHANGED members

Accept(s) ==
  /\ tx[s].stage = "accept"
  /\ Join(s)
  /\ \/ tx[s].adds /\ Insertable(s, tx[s].row) /\ assigned' = assigned \cup {tx[s].row}
     \/ ~tx[s].adds /\ UNCHANGED assigned
  /\ invitations' = [invitations EXCEPT ![tx[s].invitation].status = "accepted"]
  /\ Commit(s)
  /\ UNCHANGED roles

-----------------------------------------------------------------------------
RoleRequest(s)       == CreateRole(s) \/ UpdateRole(s) \/ WriteRole(s) \/ DeleteRole(s) \/ EraseRole(s)
MemberRequest(s)     == \/ AssignRole(s) \/ InsertAssignment(s)
                        \/ RemoveRoleAssignment(s) \/ DeleteAssignment(s)
                        \/ UpdateMembershipStatus(s) \/ SetMembershipStatus(s)
InvitationRequest(s) == \/ CreateInvitation(s) \/ InsertInvitation(s)
                        \/ ResendInvitation(s) \/ RenewInvitation(s)
                        \/ RevokeInvitation(s) \/ WithdrawInvitation(s)
                        \/ AcceptInvitation(s) \/ Accept(s)

Next ==
  \/ \E s \in Sessions :
       Authenticate(s) \/ Rollback(s) \/ RoleRequest(s) \/ MemberRequest(s) \/ InvitationRequest(s)
  \/ \E i \in Invitations : Expire(i)

Spec == Init /\ [][Next]_vars

-----------------------------------------------------------------------------
(* Properties *)

\* What the users of these sessions could delegate when they started.
Actors == {UserOf[s] : s \in Sessions}
Covered(k, t) ==
  \/ Actors \cap PlatformAdmins # {}
  \/ \E a \in InitialAssigned :
       /\ a.member \in Actors
       /\ k \in InitialRoles[a.role].keys
       /\ Within(t, a.target)

\* No request, alone or among others, takes a group of users further than the
\* group could already go: whatever the users of these sessions create, change,
\* assign, invite and accept, nobody they gave a role, themselves included, has a
\* permission at a place where none of them had it (validate_role_delegation,
\* _validate_tenant_role_permissions, validate_inviter_authority).  The roles that
\* others held before are not theirs to answer for.
Theirs == {a \in assigned : a \in InitialAssigned => a.member \in Actors}
NoEscalation == \A a \in Theirs : \A k \in roles[a.role].keys : Covered(k, a.target)

\* Every assignment refers to a role that exists and lies at the level of its
\* scope, although roles are deleted without a look at requests in flight, and
\* every invitation keeps its role, so that it can be accepted or resent.
RolesExist ==
  /\ \A a \in assigned : ResolvesTo(a.role, a.target)
  /\ \A i \in Sent : ResolvesTo(invitations[i].role, invitations[i].target)

\* An address has at most one invitation that can be accepted.
OnePending ==
  \A i, j \in Sent : i # j /\ invitations[i].email = invitations[j].email =>
    ~(invitations[i].status = "pending" /\ invitations[j].status = "pending")

\* An invitation is used once, and only while it is pending: nothing changes it
\* afterwards, and one that was revoked or replaced in the meantime is not used.
InvitationUsedOnce ==
  [][\A i \in Invitations :
       /\ invitations[i].status = "accepted" => invitations'[i] = invitations[i]
       /\ invitations[i].status # "accepted" /\ invitations'[i].status = "accepted"
            => invitations[i].status = "pending"]_invitations

\* A tenant that has an active owner keeps one.
OwnerRemains == ActiveOwners # {}

\* A membership that was revoked does not come back by the acceptance of an
\* invitation.
RevokedStaysOut ==
  [][\A u \in Users : members[u] = "revoked" /\ invitations' # invitations => members'[u] = "revoked"]_vars

-----------------------------------------------------------------------------
(* The inductive invariant of the properties above *)

\* Two requests never hold the same role, nor the same invitation.
HeldRoles(d)       == IF d.stage \in {"writeRole", "deleteRole"} THEN {d.role} ELSE {}
HeldInvitations(d) == IF d.stage \in {"resend", "revoke", "accept"} THEN {d.invitation}
                      ELSE IF d.stage = "invite" THEN d.expires ELSE {}
NewInvitation(d)   == IF d.stage = "invite" THEN {d.invitation} ELSE {}
Apart(d, e) ==
  /\ HeldRoles(d) \cap HeldRoles(e) = {}
  /\ HeldInvitations(d) \cap HeldInvitations(e) = {}
  /\ NewInvitation(d) \cap NewInvitation(e) = {}
LocksHold == \A s, o \in Sessions : s # o => Apart(tx[s], tx[o])

\* What a request has read under a lock is still so when it commits.
ReadHolds(d) ==
  /\ d.stage = "writeRole" => roles[d.role] = Absent \/ roles[d.role].scope = d.row.scope
  /\ d.stage = "invite" => /\ invitations[d.invitation] = Unsent
                           /\ d.row.status = "pending"
                           /\ \A i \in d.expires : invitations[i].status = "pending"
  /\ d.stage \in {"resend", "revoke"} => invitations[d.invitation].status \notin {"unsent", "accepted"}
  /\ d.stage = "accept" => invitations[d.invitation].status = "pending"
ReadsHold == \A s \in Sessions : ReadHolds(tx[s])

\* Everything a request holds, is about to write, or has left to be accepted is
\* within what the actors could delegate.
GrantsCovered(grants) == \A g \in grants : \A t \in Places : CoversDelegation(g, t) => Covered(g.key, t)
RequestCovered(d) ==
  /\ d.stage = "open" => GrantsCovered(d.grants)
  /\ d.stage = "writeRole" => \A k \in d.row.keys : \A t \in Places : Covered(k, t)
  /\ d.stage \in {"assign", "accept"} => \A k \in roles[d.row.role].keys : Covered(k, d.row.target)
  /\ d.stage = "invite" => d.row.by \in Actors
  /\ d.stage = "resend" => d.by \in Actors
RequestsCovered == \A s \in Sessions : RequestCovered(tx[s])
InvitersAct == \A i \in Sent : invitations[i].by \in Actors

IInv ==
  /\ TypeOK /\ RolesExist /\ LocksHold /\ ReadsHold
  /\ RequestsCovered /\ InvitersAct /\ NoEscalation /\ OnePending
=============================================================================
