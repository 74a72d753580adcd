-------------------------- MODULE PermissionScopes --------------------------
(***************************************************************************)
(* Which permission grant reaches which resource.  A resource lies in a    *)
(* tenant, or in one of its companies, or in one of the branches of a      *)
(* company.  A grant lies at one of the same three levels, or at the       *)
(* platform, and the code asks two questions of it: may its holder use the *)
(* resource (covers_resource), and may its holder give the permission away *)
(* there (covers_delegation).  Lists are filtered by a third form, the     *)
(* materialised access of one permission (scope_access).                   *)
(***************************************************************************)
CONSTANTS Keys,       \* permission keys
          Tenants, Companies, Branches,
          CompanyOf,  \* the company of a branch
          None        \* an absent identifier

ASSUME NoneAssumption == None \notin Tenants \cup Companies \cup Branches
ASSUME HierarchyAssumption == CompanyOf \in [Branches -> Companies]

\* AuthorizationTarget: its constructor refuses a branch without a company.
Targets == {t \in [tenant : Tenants, company : Companies \cup {None}, branch : Branches \cup {None}] :
              t.branch # None => t.company # None}

Scope(t) == IF t.branch # None THEN "branch"
            ELSE IF t.company # None THEN "company" ELSE "tenant"

\* PermissionGrant: its constructor ties the identifiers to the scope.
PlatformGrants == [key : Keys, scope : {"platform"}, tenant : {None}, company : {None}, branch : {None}]
PlacedGrants ==
  {g \in [key : Keys, scope : {"tenant", "company", "branch"}, tenant : Tenants,
          company : Companies \cup {None}, branch : Branches \cup {None}] :
     /\ g.scope = "tenant" <=> g.company = None
     /\ g.scope = "branch" <=> g.branch # None}
Grants == PlatformGrants \cup PlacedGrants

\* A grant of a permission at a target, as a role assignment yields it.
GrantAt(key, scope, t) ==
  [key |-> key, scope |-> scope, tenant |-> t.tenant, company |-> t.company, branch |-> t.branch]

\* covers_resource: a resource is used from above, and a parent from below.
CoversResource(g, t) ==
  \/ g.scope = "platform"
  \/ /\ g.tenant = t.tenant
     /\ \/ "tenant" \in {g.scope, Scope(t)}
        \/ /\ g.company = t.company
           /\ "company" \in {g.scope, Scope(t)} \/ g.branch = t.branch

\* covers_delegation: a permission is given away at the grant's own place or below it.
CoversDelegation(g, t) ==
  \/ g.scope = "platform"
  \/ /\ g.tenant = t.tenant
     /\ \/ g.scope = "tenant"
        \/ /\ Scope(t) # "tenant"
           /\ g.company = t.company
           /\ \/ g.scope = "company"
              \/ Scope(t) = "branch" /\ g.branch = t.branch

CanAccess(grants, key, t)   == \E g \in grants : g.key = key /\ CoversResource(g, t)
CanDelegate(grants, key, t) == \E g \in grants : g.key = key /\ CoversDelegation(g, t)

\* scope_access: what the grants of one permission make visible inside a tenant.
Of(grants, key, tenant, scope) ==
  {g \in grants : g.key = key /\ g.scope = scope /\ g.tenant = tenant}
ScopeAccess(grants, key, tenant) ==
  [tenantWide      |-> \/ \E g \in grants : g.key = key /\ g.scope = "platform"
                       \/ Of(grants, key, tenant, "tenant") # {},
   companies       |-> {g.company : g \in Of(grants, key, tenant, "company")},
   branches        |-> {g.branch : g \in Of(grants, key, tenant, "branch")},
   branchCompanies |-> {g.company : g \in Of(grants, key, tenant, "branch")}]

TenantWide(grants, key, tenant) == ScopeAccess(grants, key, tenant).tenantWide

\* The filters of the lists.  A company is also shown to the grants of its
\* branches; a branch, and a row that carries a company or a branch (a source, a
\* batch, an invitation, an assignment, an event, a fact), is not.
CompanyVisible(access, c) == access.tenantWide \/ c \in access.companies \cup access.branchCompanies
BranchVisible(access, b)  == access.tenantWide \/ CompanyOf[b] \in access.companies \/ b \in access.branches
RowVisible(access, t)     == access.tenantWide \/ t.company \in access.companies \/ t.branch \in access.branches

-----------------------------------------------------------------------------
\* The order that the two questions are about: t lies at p or below it.
Within(t, p) ==
  /\ t.tenant = p.tenant
  /\ p.company # None => t.company = p.company
  /\ p.branch # None => t.branch = p.branch

\* Grants whose branch belongs to their company: the foreign key
\* (tenant_id, company_id, branch_id) of role_assignments sees to it.
Consistent(grants) == \A g \in grants : g.scope = "branch" => CompanyOf[g.branch] = g.company
=============================================================================
