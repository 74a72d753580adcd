-------------------------- MODULE CanonicalSchema --------------------------
(***************************************************************************)
(* The canonical tables of revision 0003 (products, suppliers, sales,      *)
(* purchases, stock and prices), and the order in which the whole revision *)
(* creates and drops its tables.                                           *)
(***************************************************************************)
EXTENDS IntegrationSchema

canonical_brands == Owned("canonical_brands", {})
canonical_categories == Owned("canonical_categories", {
    MaybeTenantRef("canonical_categories", "restrict")})
canonical_manufacturers == Owned("canonical_manufacturers", {})
canonical_promotions == Owned("canonical_promotions", {
    TenantRef("import_batches", "restrict"), MaybeTenantRef("branches", "cascade"),
    TenantRef("companies", "cascade"), TenantRef("data_sources", "restrict")})
canonical_products == Owned("canonical_products", {
    TenantRef("import_batches", "restrict"), MaybeTenantRef("canonical_brands", "restrict"),
    MaybeTenantRef("canonical_categories", "restrict"), MaybeTenantRef("branches", "cascade"),
    TenantRef("companies", "cascade"), TenantRef("data_sources", "restrict"),
    MaybeTenantRef("canonical_manufacturers", "restrict"),
    TenantRef("staging_records", "restrict")})
\* Sales that go with the batch that loaded them.
canonical_sales_of_batch == Owned("canonical_sales", {
    TenantRef("import_batches", "cascade"), TenantRef("branches", "cascade"),
    TenantRef("data_sources", "cascade"), TenantRef("staging_records", "cascade")})
canonical_sales == Owned("canonical_sales", {
    TenantRef("import_batches", "restrict"), TenantRef("branches", "cascade"),
    TenantRef("data_sources", "restrict"), TenantRef("staging_records", "restrict")})
canonical_suppliers == Owned("canonical_suppliers", {
    TenantRef("import_batches", "restrict"), TenantRef("companies", "cascade"),
    TenantRef("data_sources", "restrict"), TenantRef("staging_records", "restrict")})
canonical_inventory_lots == Owned("canonical_inventory_lots", {
    TenantRef("branches", "cascade"), TenantRef("canonical_products", "cascade")})
canonical_product_identifiers == Owned("canonical_product_identifiers", {
    MaybeTenantRef("data_sources", "cascade"), TenantRef("canonical_products", "cascade")})
canonical_product_presentations == Owned("canonical_product_presentations", {
    TenantRef("canonical_products", "cascade")})
canonical_product_prices == Owned("canonical_product_prices", {
    TenantRef("import_batches", "restrict"), TenantRef("branches", "cascade"),
    TenantRef("data_sources", "restrict"), TenantRef("canonical_products", "cascade"),
    TenantRef("staging_records", "restrict")})
canonical_promotion_products == Owned("canonical_promotion_products", {
    TenantRef("canonical_products", "cascade"), TenantRef("canonical_promotions", "cascade")})
canonical_purchase_orders == Owned("canonical_purchase_orders", {
    TenantRef("import_batches", "restrict"), TenantRef("branches", "cascade"),
    TenantRef("data_sources", "restrict"), TenantRef("staging_records", "restrict"),
    TenantRef("canonical_suppliers", "restrict")})
canonical_sale_adjustments == Owned("canonical_sale_adjustments", {
    TenantRef("canonical_sales", "cascade")})
\* Lines that go with their sale, without a key of their own to the tenant.
canonical_sale_items_of_sale == [
    name |-> "canonical_sale_items", tenancy |-> "required",
    refs |-> {TenantRef("canonical_products", "restrict"), TenantRef("canonical_sales", "cascade")}]
canonical_sale_items == Owned("canonical_sale_items", {
    TenantRef("canonical_products", "restrict"), TenantRef("canonical_sales", "cascade")})
canonical_sale_payments == Owned("canonical_sale_payments", {
    TenantRef("canonical_sales", "cascade")})
canonical_stock_balances == Owned("canonical_stock_balances", {
    TenantRef("import_batches", "restrict"), TenantRef("branches", "cascade"),
    TenantRef("data_sources", "restrict"), TenantRef("canonical_products", "cascade"),
    TenantRef("staging_records", "restrict")})
canonical_stock_snapshots == Owned("canonical_stock_snapshots", {
    TenantRef("import_batches", "restrict"), TenantRef("branches", "cascade"),
    TenantRef("canonical_products", "cascade")})
canonical_supplier_identifiers == Owned("canonical_supplier_identifiers", {
    TenantRef("canonical_suppliers", "cascade")})
canonical_supplier_products == Owned("canonical_supplier_products", {
    TenantRef("canonical_products", "cascade"), TenantRef("canonical_suppliers", "cascade")})
canonical_inventory_movements == Owned("canonical_inventory_movements", {
    TenantRef("import_batches", "restrict"), TenantRef("branches", "cascade"),
    TenantRef("data_sources", "restrict"),
    MaybeTenantRef("canonical_inventory_lots", "set_null"),
    TenantRef("canonical_products", "cascade"), TenantRef("staging_records", "restrict")})
canonical_purchase_items == Owned("canonical_purchase_items", {
    TenantRef("canonical_products", "restrict"),
    TenantRef("canonical_purchase_orders", "cascade")})
canonical_purchase_receipts == Owned("canonical_purchase_receipts", {
    TenantRef("canonical_purchase_orders", "cascade")})
canonical_supplier_costs == Owned("canonical_supplier_costs", {
    TenantRef("import_batches", "restrict"),
    TenantRef("canonical_supplier_products", "cascade")})

\* The order in which upgrade() creates the tables of the revision.
CanonicalTables == <<
    connector_definitions, canonical_brands, canonical_categories, canonical_manufacturers,
    integration_outbox_events, processing_leases, processing_state_transitions, quality_rules,
    credential_references, connector_instances, data_sources, integration_inbox_messages,
    mapping_profiles, sync_cursors, webhook_receipts, mapping_versions, field_mappings,
    import_batches, canonical_promotions, imported_files, processing_statistics,
    quality_results, staging_records, sync_executions, canonical_products, canonical_sales,
    canonical_suppliers, integration_dead_letters, landing_manifests, lineage_events,
    processing_errors, processing_steps, rejected_records, sync_attempts, sync_checkpoints,
    canonical_inventory_lots, canonical_product_identifiers, canonical_product_presentations,
    canonical_product_prices, canonical_promotion_products, canonical_purchase_orders,
    canonical_sale_adjustments, canonical_sale_items, canonical_sale_payments,
    canonical_stock_balances, canonical_stock_snapshots, canonical_supplier_identifiers,
    canonical_supplier_products, canonical_inventory_movements, canonical_purchase_items,
    canonical_purchase_receipts, canonical_supplier_costs >>

\* The tables upgrade() puts under row level security.
CanonicalPolicies == {
    "canonical_brands", "canonical_categories", "canonical_inventory_lots",
    "canonical_inventory_movements", "canonical_manufacturers",
    "canonical_product_identifiers", "canonical_product_presentations",
    "canonical_product_prices", "canonical_products", "canonical_promotion_products",
    "canonical_promotions", "canonical_purchase_items", "canonical_purchase_orders",
    "canonical_purchase_receipts", "canonical_sale_adjustments", "canonical_sale_items",
    "canonical_sale_payments", "canonical_sales", "canonical_stock_balances",
    "canonical_stock_snapshots", "canonical_supplier_costs", "canonical_supplier_identifiers",
    "canonical_supplier_products", "canonical_suppliers", "connector_instances",
    "credential_references", "data_sources", "field_mappings", "import_batches",
    "imported_files", "integration_dead_letters", "integration_inbox_messages",
    "integration_outbox_events", "landing_manifests", "lineage_events", "mapping_profiles",
    "mapping_versions", "processing_errors", "processing_leases",
    "processing_state_transitions", "processing_statistics", "processing_steps",
    "quality_results", "rejected_records", "staging_records", "sync_attempts",
    "sync_checkpoints", "sync_cursors", "sync_executions", "webhook_receipts", "quality_rules" }

\* The order in which downgrade() drops them.
CanonicalDrops == <<
    "canonical_supplier_costs", "canonical_purchase_receipts", "canonical_purchase_items",
    "canonical_inventory_movements", "canonical_supplier_products",
    "canonical_supplier_identifiers", "canonical_stock_snapshots", "canonical_stock_balances",
    "canonical_sale_payments", "canonical_sale_items", "canonical_sale_adjustments",
    "canonical_purchase_orders", "canonical_promotion_products", "canonical_product_prices",
    "canonical_product_presentations", "canonical_product_identifiers",
    "canonical_inventory_lots", "sync_checkpoints", "sync_attempts", "rejected_records",
    "processing_steps", "processing_errors", "lineage_events", "landing_manifests",
    "integration_dead_letters", "canonical_suppliers", "canonical_sales",
    "canonical_products", "sync_executions", "staging_records", "quality_results",
    "processing_statistics", "imported_files", "canonical_promotions", "import_batches",
    "field_mappings", "mapping_versions", "webhook_receipts", "sync_cursors",
    "mapping_profiles", "integration_inbox_messages", "data_sources", "connector_instances",
    "credential_references", "quality_rules", "processing_state_transitions",
    "processing_leases", "integration_outbox_events", "canonical_manufacturers",
    "canonical_categories", "canonical_brands", "connector_definitions" >>

============================================================================
