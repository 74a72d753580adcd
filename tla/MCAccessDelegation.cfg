SPECIFICATION Spec
CONSTANTS
  T = T
  c1 = c1
  c2 = c2
  b1 = b1
  owner = owner
  manager = manager
  guest = guest
  newcomer = newcomer
  s1 = s1
  s2 = s2
  s3 = s3
  s4 = s4
  Owner = Owner
  Staff = Staff
  Local = Local
  Spare = Spare
  None = None
  Keys <- MCKeys
  Tenants = {T}
  Tenant = T
  Companies = {c1, c2}
  Branches = {b1}
  CompanyOf <- MCCompanyOf
  Users = {owner, manager, guest, newcomer}
  PlatformAdmins = {}
  Sessions = {s1, s2, s3, s4}
  UserOf <- ManagerAndGuests
  Roles = {Owner, Staff, Local, Spare}
  SystemRoles = {Owner}
  OwnerRole = Owner
  Invitations = {1, 2}
  InitialRoles <- MCInitialRoles
  InitialMembers <- MCInitialMembers
  InitialAssigned <- ManagerAssigned
  RequestedKeys <- SmallKeySets
  MaxRequests = 4
CHECK_DEADLOCK FALSE
INVARIANTS IInv NoEscalation RolesExist OnePending
PROPERTIES InvitationUsedOnce
