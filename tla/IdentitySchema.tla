--------------------------- MODULE IdentitySchema ---------------------------
(***************************************************************************)
(* The tables of revision 0001: accounts, tenants, companies, branches,    *)
(* memberships, roles, sessions, invitations, consents and the audit       *)
(* trail.  Revision 0002 adds an index and moves rows, no table.           *)
(***************************************************************************)
EXTENDS SchemaTypes

users == Global("users", {})
user_profiles == Global("user_profiles", {Ref("users", "cascade")})
email_verification_tokens == Global("email_verification_tokens", {Ref("users", "cascade")})
password_reset_tokens == Global("password_reset_tokens", {Ref("users", "cascade")})
tenants == Global("tenants", {Ref("users", "restrict")})
\* A group that loses its tenant instead of going with it.
economic_groups_orphaned ==
    [name |-> "economic_groups", tenancy |-> "required", refs |-> {MaybeRef("tenants", "set_null")}]
economic_groups == Owned("economic_groups", {})
companies == Owned("companies", {MaybeTenantRef("economic_groups", "restrict")})
branches == Owned("branches", {TenantRef("companies", "cascade")})
memberships == Owned("memberships", {Ref("users", "restrict")})
teams == Owned("teams", {})
\* The same table with keys by identifier alone.
team_memberships_by_id == Owned("team_memberships", {
    Ref("teams", "cascade"), Ref("memberships", "cascade")})
team_memberships == Owned("team_memberships", {
    TenantRef("teams", "cascade"), TenantRef("memberships", "cascade")})
permissions == Global("permissions", {})
roles == Shared("roles", {MaybeRef("tenants", "cascade")})
role_permissions == Global("role_permissions", {
    Ref("roles", "cascade"), Ref("permissions", "cascade")})
role_assignments == Owned("role_assignments", {
    Ref("roles", "restrict"), Ref("users", "restrict"), TenantRef("memberships", "cascade"),
    MaybeTenantRef("companies", "cascade"), MaybeTenantRef("branches", "cascade")})
sessions == Global("sessions", {
    Ref("users", "cascade"), MaybeRef("tenants", "set_null"), MaybeRef("companies", "set_null"),
    MaybeRef("branches", "set_null")})
security_events == Global("security_events", {MaybeRef("users", "set_null")})
authentication_attempts == Global("authentication_attempts", {MaybeRef("users", "set_null")})
invitations == Owned("invitations", {
    Ref("roles", "restrict"), Ref("users", "restrict"), MaybeTenantRef("companies", "cascade"),
    MaybeTenantRef("branches", "cascade")})
terms_versions == Global("terms_versions", {})
consent_records == Shared("consent_records", {
    Ref("users", "restrict"), MaybeRef("tenants", "set_null"),
    Ref("terms_versions", "restrict")})
onboarding_progress == Shared("onboarding_progress", {
    Ref("users", "cascade"), MaybeRef("tenants", "set_null")})
audit_events == Shared("audit_events", {
    MaybeRef("users", "set_null"), MaybeRef("tenants", "set_null"),
    MaybeRef("companies", "set_null"), MaybeRef("branches", "set_null")})

\* The order in which upgrade() creates the tables.
IdentityTables == <<
    users, user_profiles, email_verification_tokens, password_reset_tokens, tenants,
    economic_groups, companies, branches, memberships, teams, team_memberships, permissions,
    roles, role_permissions, role_assignments, sessions, security_events,
    authentication_attempts, invitations, terms_versions, consent_records,
    onboarding_progress, audit_events >>

\* The tables upgrade() puts under row level security.
IdentityPolicies == {
    "tenants", "economic_groups", "companies", "branches", "memberships", "teams",
    "team_memberships", "roles", "role_permissions", "role_assignments", "invitations",
    "consent_records", "onboarding_progress", "audit_events" }

\* The order in which downgrade() drops them.
IdentityDrops == <<
    "audit_events", "onboarding_progress", "consent_records", "terms_versions", "invitations",
    "authentication_attempts", "security_events", "sessions", "role_assignments",
    "role_permissions", "roles", "permissions", "team_memberships", "teams", "memberships",
    "branches", "companies", "economic_groups", "tenants", "password_reset_tokens",
    "email_verification_tokens", "user_profiles", "users" >>

============================================================================
