-------------------------- MODULE AnalyticsSchema --------------------------
(***************************************************************************)
(* The warehouse of revision 0004: dimensions, facts, aggregates, KPI      *)
(* definitions and results, refresh jobs, data versions, lineage, goals.   *)
(***************************************************************************)
EXTENDS SchemaTypes

analytics_dimensions == Owned("analytics_dimensions", {})
analytics_facts == Owned("analytics_facts", {
    MaybeTenantRef("companies", "cascade"), MaybeTenantRef("branches", "cascade"),
    MaybeTenantRef("canonical_products", "restrict"),
    MaybeTenantRef("canonical_categories", "restrict"),
    MaybeTenantRef("canonical_suppliers", "restrict"),
    MaybeTenantRef("canonical_promotions", "restrict"),
    MaybeTenantRef("import_batches", "restrict")})
analytics_daily_aggregates == Owned("analytics_daily_aggregates", {
    MaybeTenantRef("companies", "cascade"), MaybeTenantRef("branches", "cascade"),
    MaybeTenantRef("canonical_products", "restrict"),
    MaybeTenantRef("canonical_categories", "restrict"),
    MaybeTenantRef("canonical_suppliers", "restrict")})
analytics_kpi_definition_versions == Owned("analytics_kpi_definition_versions", {})
analytics_kpi_results == Owned("analytics_kpi_results", {})
analytics_refresh_jobs == Owned("analytics_refresh_jobs", {
    MaybeRef("users", "set_null"), MaybeTenantRef("import_batches", "restrict")})
analytics_data_versions == Owned("analytics_data_versions", {
    MaybeTenantRef("analytics_refresh_jobs", "restrict")})
analytics_lineage == Owned("analytics_lineage", {
    TenantRef("analytics_facts", "cascade"), MaybeTenantRef("import_batches", "restrict"),
    TenantRef("analytics_refresh_jobs", "cascade")})
analytics_goals == Owned("analytics_goals", {
    Ref("users", "restrict"), MaybeTenantRef("companies", "cascade"),
    MaybeTenantRef("branches", "cascade")})
analytics_goal_history == Owned("analytics_goal_history", {
    Ref("users", "restrict"), TenantRef("analytics_goals", "cascade")})

\* The order in which upgrade() creates the tables.
AnalyticsTables == <<
    analytics_dimensions, analytics_facts, analytics_daily_aggregates,
    analytics_kpi_definition_versions, analytics_kpi_results, analytics_refresh_jobs,
    analytics_data_versions, analytics_lineage, analytics_goals, analytics_goal_history >>

\* The tables upgrade() puts under row level security.
AnalyticsPolicies == {
    "analytics_dimensions", "analytics_facts", "analytics_daily_aggregates",
    "analytics_kpi_definition_versions", "analytics_kpi_results", "analytics_refresh_jobs",
    "analytics_data_versions", "analytics_lineage", "analytics_goals",
    "analytics_goal_history" }

\* The order in which downgrade() drops them.
AnalyticsDrops == <<
    "analytics_goal_history", "analytics_goals", "analytics_lineage",
    "analytics_data_versions", "analytics_refresh_jobs", "analytics_kpi_results",
    "analytics_kpi_definition_versions", "analytics_daily_aggregates", "analytics_facts",
    "analytics_dimensions" >>

============================================================================
