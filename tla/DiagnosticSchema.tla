-------------------------- MODULE DiagnosticSchema --------------------------
(***************************************************************************)
(* The tables of revision 0005: rules and their versions, configurations,  *)
(* evaluation runs, findings with their evidences, hypotheses and          *)
(* recommendations, suppressions, incidents and the action catalogue.      *)
(***************************************************************************)
EXTENDS SchemaTypes

diagnostic_action_catalog_snapshots == Global("diagnostic_action_catalog_snapshots", {})
diagnostic_action_catalog_entries == Global("diagnostic_action_catalog_entries", {
    Ref("diagnostic_action_catalog_snapshots", "cascade")})
diagnostic_rule_definitions == Shared("diagnostic_rule_definitions", {
    MaybeRef("tenants", "cascade")})
diagnostic_rule_versions == Global("diagnostic_rule_versions", {
    MaybeRef("users", "set_null"), Ref("diagnostic_rule_definitions", "cascade")})
diagnostic_evaluation_runs == Owned("diagnostic_evaluation_runs", {
    MaybeRef("users", "set_null"), MaybeTenantRef("branches", "restrict"),
    MaybeTenantRef("companies", "restrict")})
diagnostic_rule_configurations == Owned("diagnostic_rule_configurations", {
    Ref("diagnostic_rule_definitions", "restrict"),
    MaybeRef("diagnostic_rule_versions", "restrict"),
    MaybeRef("diagnostic_rule_definitions", "restrict"), MaybeTenantRef("branches", "cascade"),
    MaybeTenantRef("companies", "cascade")})
\* Findings that go with the run that made them.
diagnostic_findings_of_run == Owned("diagnostic_findings", {
    Ref("diagnostic_rule_definitions", "restrict"), Ref("diagnostic_rule_versions", "restrict"),
    TenantRef("diagnostic_evaluation_runs", "cascade")})
diagnostic_findings == Owned("diagnostic_findings", {
    Ref("diagnostic_rule_definitions", "restrict"), Ref("diagnostic_rule_versions", "restrict"),
    MaybeRef("diagnostic_rule_definitions", "restrict"), MaybeTenantRef("branches", "restrict"),
    MaybeTenantRef("companies", "restrict"),
    MaybeTenantRef("diagnostic_evaluation_runs", "restrict"),
    TenantRef("diagnostic_evaluation_runs", "restrict")})
diagnostic_suppressions == Owned("diagnostic_suppressions", {
    MaybeRef("audit_events", "set_null"), MaybeRef("users", "set_null"),
    MaybeRef("diagnostic_rule_definitions", "restrict"), MaybeTenantRef("branches", "restrict"),
    MaybeTenantRef("companies", "restrict")})
diagnostic_action_recommendations == Owned("diagnostic_action_recommendations", {
    Ref("diagnostic_action_catalog_entries", "restrict"), MaybeRef("users", "set_null"),
    TenantRef("diagnostic_findings", "restrict")})
diagnostic_evidences == Owned("diagnostic_evidences", {
    TenantRef("diagnostic_findings", "restrict")})
diagnostic_hypotheses == Owned("diagnostic_hypotheses", {
    TenantRef("diagnostic_findings", "restrict")})
diagnostic_incidents == Owned("diagnostic_incidents", {
    MaybeTenantRef("branches", "restrict"), MaybeTenantRef("companies", "restrict"),
    TenantRef("diagnostic_findings", "restrict")})
diagnostic_hypothesis_evidences == Owned("diagnostic_hypothesis_evidences", {
    TenantRef("diagnostic_evidences", "restrict"),
    TenantRef("diagnostic_hypotheses", "restrict")})
diagnostic_incident_memberships == Owned("diagnostic_incident_memberships", {
    TenantRef("diagnostic_findings", "restrict"), TenantRef("diagnostic_incidents", "cascade")})

\* The pointer of a rule to its published version.  The two tables refer to
\* each other, so the constraint is added when both exist and dropped before
\* the versions are.
CurrentVersion == KeyOf("diagnostic_rule_definitions",
                        MaybeRef("diagnostic_rule_versions", "restrict"))

\* The order in which upgrade() creates the tables.
DiagnosticTables == <<
    diagnostic_action_catalog_snapshots, diagnostic_action_catalog_entries,
    diagnostic_rule_definitions, diagnostic_rule_versions, diagnostic_evaluation_runs,
    diagnostic_rule_configurations, diagnostic_findings, diagnostic_suppressions,
    diagnostic_action_recommendations, diagnostic_evidences, diagnostic_hypotheses,
    diagnostic_incidents, diagnostic_hypothesis_evidences, diagnostic_incident_memberships >>

\* The tables upgrade() puts under row level security.
DiagnosticPolicies == {
    "diagnostic_rule_configurations", "diagnostic_evaluation_runs", "diagnostic_findings",
    "diagnostic_evidences", "diagnostic_hypotheses", "diagnostic_hypothesis_evidences",
    "diagnostic_action_recommendations", "diagnostic_suppressions", "diagnostic_incidents",
    "diagnostic_incident_memberships", "diagnostic_rule_definitions",
    "diagnostic_rule_versions", "diagnostic_action_catalog_snapshots",
    "diagnostic_action_catalog_entries" }

\* The order in which downgrade() drops them.
DiagnosticDrops == <<
    "diagnostic_incident_memberships", "diagnostic_hypothesis_evidences",
    "diagnostic_incidents", "diagnostic_suppressions", "diagnostic_action_recommendations",
    "diagnostic_hypotheses", "diagnostic_evidences", "diagnostic_findings",
    "diagnostic_rule_configurations", "diagnostic_evaluation_runs",
    "diagnostic_action_catalog_entries", "diagnostic_rule_versions",
    "diagnostic_rule_definitions", "diagnostic_action_catalog_snapshots" >>

============================================================================
