--------------------------- MODULE MCTenantAccess ---------------------------
(* A tenant with an owner, and a manager who may make roles for the whole     *)
(* tenant, but may assign and invite in one company only.                     *)
EXTENDS TenantAccess

CONSTANTS T, c1, c2, b1, owner, manager, guest, newcomer, s1, s2, s3, s4, Owner, Staff, Local, Spare

MCKeys == {"role.create", "role.update", "role.delete", "role.assign", "user.invite",
           "membership.manage", "tenant.update"}
MCCompanyOf == [b \in {b1} |-> c1]
Place(c, b) == [tenant |-> T, company |-> c, branch |-> b]
Assigned(u, r, t) == [member |-> u, role |-> r, target |-> t]

MCInitialRoles ==
  [r \in {Owner, Staff, Local, Spare} |->
     IF r = Owner THEN [scope |-> "tenant", keys |-> MCKeys]
     ELSE IF r = Staff THEN [scope |-> "tenant",
                             keys |-> {"role.create", "role.update", "role.delete", "membership.manage"}]
     ELSE IF r = Local THEN [scope |-> "company", keys |-> {"role.assign", "user.invite"}]
     ELSE Absent]

\* The guest was a member once, and is suspended.
MCInitialMembers ==
  [u \in {owner, manager, guest, newcomer} |->
     IF u = guest THEN "suspended" ELSE IF u = newcomer THEN "none" ELSE "active"]

\* The manager's requests, and those of the two it may invite.
ManagerAndGuests ==
  [s \in {s1, s2, s3, s4} |-> IF s = s3 THEN guest ELSE IF s = s4 THEN newcomer ELSE manager]
ManagerAssigned == {Assigned(owner, Owner, Place(None, None)),
                    Assigned(manager, Staff, Place(None, None)),
                    Assigned(manager, Local, Place(c1, None))}
SmallKeySets == {{"role.update"}, {"role.assign"}}

\* Two owners, and a guest of theirs.
OwnersAndGuest == [s \in {s1, s2, s3} |-> IF s = s1 THEN owner ELSE IF s = s2 THEN manager ELSE guest]
TwoOwners == {Assigned(owner, Owner, Place(None, None)), Assigned(manager, Owner, Place(None, None))}
NoKeySets == {}
=============================================================================
