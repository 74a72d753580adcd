----------------------- MODULE PermissionScopesProofs -----------------------
(***************************************************************************)
(* The two questions asked of a grant, the order they are about, and the   *)
(* agreement of the list filters with the checks of single resources.      *)
(***************************************************************************)
EXTENDS PermissionScopes, TLAPS

\* A grant gives a permission away exactly at its own place and below it, and a
\* platform grant everywhere (PermissionGrant.covers_delegation).
THEOREM DelegationReachesDown ==
  \A g \in Grants, t \in Targets :
    CoversDelegation(g, t) <=> g.scope = "platform" \/ Within(t, g)
<1> SUFFICES ASSUME NEW g \in Grants, NEW t \in Targets
             PROVE  CoversDelegation(g, t) <=> g.scope = "platform" \/ Within(t, g)
    OBVIOUS
<1>1. CASE g \in PlatformGrants
  BY <1>1 DEF PlatformGrants, CoversDelegation
<1>2. CASE g \in PlacedGrants
  <2>1. /\ g.scope \in {"tenant", "company", "branch"}
        /\ g.scope = "tenant" <=> g.company = None
        /\ g.scope = "branch" <=> g.branch # None
    BY <1>2 DEF PlacedGrants
  <2>2. t.branch # None => t.company # None
    BY DEF Targets
  <2> QED
    BY <2>1, <2>2 DEF CoversDelegation, Within, Scope
<1> QED
  BY <1>1, <1>2 DEF Grants

\* A grant lets its holder use exactly the resources that lie below it or above
\* it (PermissionGrant.covers_resource).
THEOREM AccessIsComparable ==
  \A g \in Grants, t \in Targets :
    CoversResource(g, t) <=> g.scope = "platform" \/ Within(t, g) \/ Within(g, t)
<1> SUFFICES ASSUME NEW g \in Grants, NEW t \in Targets
             PROVE  CoversResource(g, t) <=>
                      g.scope = "platform" \/ Within(t, g) \/ Within(g, t)
    OBVIOUS
<1>1. CASE g \in PlatformGrants
  BY <1>1 DEF PlatformGrants, CoversResource
<1>2. CASE g \in PlacedGrants
  <2>1. /\ g.scope \in {"tenant", "company", "branch"}
        /\ g.scope = "tenant" <=> g.company = None
        /\ g.scope = "branch" <=> g.branch # None
    BY <1>2 DEF PlacedGrants
  <2>2. t.branch # None => t.company # None
    BY DEF Targets
  <2> QED
    BY <2>1, <2>2 DEF CoversResource, Within, Scope
<1> QED
  BY <1>1, <1>2 DEF Grants

\* What can be given away can be used: delegation is the stricter question.
THEOREM DelegationImpliesAccess ==
  \A g \in Grants, t \in Targets : CoversDelegation(g, t) => CoversResource(g, t)
BY DelegationReachesDown, AccessIsComparable

\* Giving away does not go further each time: what a grant handed on at h's place
\* may reach, the first grant reaches too.
THEOREM DelegationIsTransitive ==
  \A g \in Grants, p, t \in Targets :
    CoversDelegation(g, p) /\ Within(t, p) => CoversDelegation(g, t)
<1> SUFFICES ASSUME NEW g \in Grants, NEW p \in Targets, NEW t \in Targets,
                    CoversDelegation(g, p), Within(t, p)
             PROVE  CoversDelegation(g, t)
    OBVIOUS
<1>1. g.scope = "platform" \/ Within(p, g)
  BY DelegationReachesDown
<1>2. g.scope = "platform" \/ Within(t, g)
  BY <1>1 DEF Within
<1> QED
  BY <1>2, DelegationReachesDown

\* A permission held for the whole tenant is delegable everywhere in it
\* (has_tenant_wide_permission, which the creation of a role asks for each key).
THEOREM TenantWideCoversTenant ==
  ASSUME NEW grants \in SUBSET Grants, NEW key \in Keys, NEW t \in Targets,
         TenantWide(grants, key, t.tenant)
  PROVE  CanDelegate(grants, key, t)
BY DEF TenantWide, ScopeAccess, Of, CanDelegate, CoversDelegation

LEMMA PlacedShape ==
  ASSUME NEW g \in Grants, g.scope # "platform"
  PROVE  /\ g \in PlacedGrants
         /\ g.tenant \in Tenants
         /\ g.scope \in {"tenant", "company", "branch"}
         /\ g.scope = "tenant" <=> g.company = None
         /\ g.scope = "branch" <=> g.branch # None
BY DEF Grants, PlatformGrants, PlacedGrants

\* A company is listed exactly for whom its own page opens: the filter of the
\* list (company_visibility_filter) agrees with can_access.
THEOREM CompanyListAgrees ==
  ASSUME NEW grants \in SUBSET Grants, NEW key \in Keys, NEW t \in Targets,
         Scope(t) = "company"
  PROVE  CompanyVisible(ScopeAccess(grants, key, t.tenant), t.company)
           <=> CanAccess(grants, key, t)
<1> DEFINE access == ScopeAccess(grants, key, t.tenant)
<1>0. t.company # None /\ t.branch = None /\ t.tenant \in Tenants
  BY DEF Targets, Scope
<1>1. ASSUME CompanyVisible(access, t.company)
      PROVE  CanAccess(grants, key, t)
  <2>1. CASE access.tenantWide
    BY <2>1 DEF ScopeAccess, Of, CanAccess, CoversResource
  <2>2. CASE t.company \in access.companies
    BY <2>2 DEF ScopeAccess, Of, CanAccess, CoversResource
  <2>3. CASE t.company \in access.branchCompanies
    BY <2>3 DEF ScopeAccess, Of, CanAccess, CoversResource
  <2> QED
    BY <1>1, <2>1, <2>2, <2>3 DEF CompanyVisible
<1>2. ASSUME CanAccess(grants, key, t)
      PROVE  CompanyVisible(access, t.company)
  <2>1. PICK g \in grants : g.key = key /\ CoversResource(g, t)
    BY <1>2 DEF CanAccess
  <2>2. CASE g.scope = "platform"
    BY <2>1, <2>2 DEF CompanyVisible, ScopeAccess
  <2>3. CASE g.scope = "tenant"
    BY <2>1, <2>3 DEF CompanyVisible, ScopeAccess, Of, CoversResource
  <2>4. CASE g.scope = "company"
    BY <1>0, <2>1, <2>4, PlacedShape DEF CompanyVisible, ScopeAccess, Of, CoversResource, Scope
  <2>5. CASE g.scope = "branch"
    BY <1>0, <2>1, <2>5, PlacedShape DEF CompanyVisible, ScopeAccess, Of, CoversResource, Scope
  <2> QED
    BY <2>2, <2>3, <2>4, <2>5, PlacedShape
<1> QED
  BY <1>1, <1>2

\* The same for branches (branch_visibility_filter), which the filter compares by
\* their identifier alone: it agrees with can_access because a grant of a branch
\* carries the company of that branch.
THEOREM BranchListAgrees ==
  ASSUME NEW grants \in SUBSET Grants, NEW key \in Keys, NEW t \in Targets,
         Scope(t) = "branch", CompanyOf[t.branch] = t.company, Consistent(grants)
  PROVE  BranchVisible(ScopeAccess(grants, key, t.tenant), t.branch)
           <=> CanAccess(grants, key, t)
<1> DEFINE access == ScopeAccess(grants, key, t.tenant)
<1>0. t.company # None /\ t.branch # None /\ t.tenant \in Tenants
  BY DEF Targets, Scope
<1>1. ASSUME BranchVisible(access, t.branch)
      PROVE  CanAccess(grants, key, t)
  <2>1. CASE access.tenantWide
    BY <2>1 DEF ScopeAccess, Of, CanAccess, CoversResource
  <2>2. CASE CompanyOf[t.branch] \in access.companies
    BY <2>2 DEF ScopeAccess, Of, CanAccess, CoversResource
  <2>3. CASE t.branch \in access.branches
    <3>1. PICK g \in grants : /\ g.key = key /\ g.scope = "branch"
                              /\ g.tenant = t.tenant /\ g.branch = t.branch
      BY <2>3 DEF ScopeAccess, Of
    <3>2. g.company = t.company
      BY <3>1 DEF Consistent
    <3> QED
      BY <3>1, <3>2 DEF CanAccess, CoversResource
  <2> QED
    BY <1>1, <2>1, <2>2, <2>3 DEF BranchVisible
<1>2. ASSUME CanAccess(grants, key, t)
      PROVE  BranchVisible(access, t.branch)
  <2>1. PICK g \in grants : g.key = key /\ CoversResource(g, t)
    BY <1>2 DEF CanAccess
  <2>2. CASE g.scope = "platform"
    BY <2>1, <2>2 DEF BranchVisible, ScopeAccess
  <2>3. CASE g.scope = "tenant"
    BY <2>1, <2>3 DEF BranchVisible, ScopeAccess, Of, CoversResource
  <2>4. CASE g.scope = "company"
    BY <1>0, <2>1, <2>4, PlacedShape DEF BranchVisible, ScopeAccess, Of, CoversResource, Scope
  <2>5. CASE g.scope = "branch"
    BY <1>0, <2>1, <2>5, PlacedShape DEF BranchVisible, ScopeAccess, Of, CoversResource, Scope
  <2> QED
    BY <2>2, <2>3, <2>4, <2>5, PlacedShape
<1> QED
  BY <1>1, <1>2

\* No list shows a row that its holder could not open: a row with a company or a
\* branch that passes the common filter (invitations, assignments, audit events,
\* sources, batches, facts) is within reach of can_access.
THEOREM ListedRowsAreAccessible ==
  ASSUME NEW grants \in SUBSET Grants, NEW key \in Keys, NEW t \in Targets,
         t.branch # None => CompanyOf[t.branch] = t.company, Consistent(grants),
         RowVisible(ScopeAccess(grants, key, t.tenant), t)
  PROVE  CanAccess(grants, key, t)
<1> DEFINE access == ScopeAccess(grants, key, t.tenant)
<1>1. CASE access.tenantWide
  BY <1>1 DEF ScopeAccess, Of, CanAccess, CoversResource
<1>2. CASE t.company \in access.companies
  BY <1>2 DEF ScopeAccess, Of, CanAccess, CoversResource
<1>3. CASE t.branch \in access.branches
  <2>1. PICK g \in grants : /\ g.key = key /\ g.scope = "branch"
                            /\ g.tenant = t.tenant /\ g.branch = t.branch
    BY <1>3 DEF ScopeAccess, Of
  <2>2. t.branch # None
    BY <2>1, PlacedShape
  <2>3. g.company = t.company
    BY <2>1, <2>2 DEF Consistent
  <2> QED
    BY <2>1, <2>3 DEF CanAccess, CoversResource
<1> QED
  BY <1>1, <1>2, <1>3 DEF RowVisible
=============================================================================
