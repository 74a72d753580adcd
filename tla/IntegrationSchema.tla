------------------------- MODULE IntegrationSchema -------------------------
(***************************************************************************)
(* The tables of revision 0003 that the import pipeline works on:          *)
(* connectors, sources, mappings, batches, files, staging, executions,     *)
(* errors and their satellites.                                            *)
(***************************************************************************)
EXTENDS SchemaTypes

connector_definitions == Global("connector_definitions", {})
integration_outbox_events == Owned("integration_outbox_events", {})
processing_leases == Owned("processing_leases", {})
processing_state_transitions == Owned("processing_state_transitions", {})
quality_rules == Shared("quality_rules", {MaybeRef("tenants", "cascade")})
credential_references == Owned("credential_references", {
    MaybeTenantRef("branches", "cascade"), MaybeTenantRef("companies", "cascade")})
connector_instances == Owned("connector_instances", {
    Ref("connector_definitions", "restrict"), MaybeTenantRef("branches", "cascade"),
    TenantRef("companies", "cascade"), MaybeTenantRef("credential_references", "restrict")})
data_sources == Owned("data_sources", {
    MaybeTenantRef("branches", "cascade"), TenantRef("companies", "cascade"),
    TenantRef("connector_instances", "cascade")})
integration_inbox_messages == Owned("integration_inbox_messages", {
    TenantRef("data_sources", "cascade")})
mapping_profiles == Owned("mapping_profiles", {TenantRef("data_sources", "cascade")})
sync_cursors == Owned("sync_cursors", {TenantRef("data_sources", "cascade")})
webhook_receipts == Owned("webhook_receipts", {TenantRef("data_sources", "cascade")})
mapping_versions == Owned("mapping_versions", {
    MaybeRef("users", "set_null"), TenantRef("mapping_profiles", "cascade")})
field_mappings == Owned("field_mappings", {TenantRef("mapping_versions", "cascade")})
import_batches == Owned("import_batches", {
    MaybeRef("users", "set_null"), MaybeTenantRef("branches", "cascade"),
    TenantRef("companies", "cascade"), TenantRef("data_sources", "cascade"),
    MaybeTenantRef("mapping_versions", "restrict"),
    MaybeTenantRef("import_batches", "set_null")})
imported_files == Owned("imported_files", {
    TenantRef("import_batches", "cascade"), TenantRef("data_sources", "cascade")})
processing_statistics == Owned("processing_statistics", {
    TenantRef("import_batches", "cascade")})
quality_results == Owned("quality_results", {
    MaybeRef("quality_rules", "set_null"), TenantRef("import_batches", "cascade")})
staging_records == Owned("staging_records", {
    TenantRef("import_batches", "cascade"), TenantRef("data_sources", "cascade")})
sync_executions == Owned("sync_executions", {
    MaybeRef("users", "set_null"), TenantRef("import_batches", "cascade"),
    TenantRef("data_sources", "cascade")})
integration_dead_letters == Owned("integration_dead_letters", {
    MaybeRef("sync_executions", "cascade"), TenantRef("import_batches", "cascade")})
landing_manifests == Owned("landing_manifests", {
    TenantRef("import_batches", "cascade"), TenantRef("imported_files", "cascade")})
lineage_events == Owned("lineage_events", {
    TenantRef("import_batches", "cascade"), MaybeTenantRef("staging_records", "set_null")})
processing_errors == Owned("processing_errors", {
    TenantRef("import_batches", "cascade"), MaybeTenantRef("staging_records", "cascade")})
processing_steps == Owned("processing_steps", {
    MaybeRef("sync_executions", "cascade"), TenantRef("import_batches", "cascade")})
rejected_records == Owned("rejected_records", {
    MaybeRef("users", "set_null"), TenantRef("import_batches", "cascade"),
    TenantRef("staging_records", "cascade")})
sync_attempts == Owned("sync_attempts", {TenantRef("sync_executions", "cascade")})
sync_checkpoints == Owned("sync_checkpoints", {TenantRef("sync_executions", "cascade")})


============================================================================
