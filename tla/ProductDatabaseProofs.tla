------------------------ MODULE ProductDatabaseProofs ------------------------
(***************************************************************************)
(* What the rows of the diagnostics tables refer to, what a DELETE leaves  *)
(* behind, and what the migrations make of the database, for every set of  *)
(* tenants, companies, branches and identifiers, for every population and  *)
(* for every path of upgrades and downgrades.                              *)
(***************************************************************************)
EXTENDS ProductDatabase, FiniteSetTheorems, TLAPS

----------------------------------------------------------------------------
(* Steps.                                                                  *)

\* A statement changes one of the two halves of the state.
LEMMA NextCases ==
    ASSUME [Next]_vars
    PROVE  \/ SchemaNext /\ EmptyStore /\ UNCHANGED store
           \/ SystemRule /\ UNCHANGED database
           \/ (\E t \in Tenants, i \in Ids : Insert(t, i)) /\ UNCHANGED database
           \/ UNCHANGED vars
BY DEF Next, Administer, Use, StoreNext

----------------------------------------------------------------------------
(* Findings.                                                               *)

\* The identifiers of the runs are given out in order, so that one names one
\* run, and a run and a finding have the scope that their CHECKs ask for.
RunsInv ==
    /\ IsFiniteSet(runs)
    /\ \A r \in runs : /\ r.id \in Nat /\ r.id <= Cardinality(runs)
                       /\ r.scope \in Scopes /\ ScopeCoherent(r.scope)
    /\ \A r, q \in runs : r.id = q.id => r = q

\* Two coherent scopes of one type whose set columns agree are one.
LEMMA CoherentScopes ==
    ASSUME NEW s \in Scopes, NEW q \in Scopes, ScopeCoherent(s), ScopeCoherent(q),
           s.type = q.type,
           s.company = NULL \/ s.company = q.company,
           s.branch = NULL \/ s.branch = q.branch
    PROVE  s = q
<1>1. s.company = q.company /\ s.branch = q.branch
  BY DEF ScopeCoherent, IsNull
<1> QED
  BY <1>1 DEF Scopes

\* The keys of a finding name the scope of the one run they refer to.
LEMMA RunKeysGiveScope ==
    ASSUME RunsInv, NEW t, NEW run, NEW s \in Scopes, ScopeCoherent(s), RunKeys(t, run, s)
    PROVE  \E r \in runs : r.id = run /\ r.tenant = t /\ r.scope = s
<1> DEFINE own == {r \in runs : r.tenant = t /\ r.id = run}
<1>1. PICK r \in own : r.scope.type = s.type
  BY DEF RunKeys
<1>2. \A q \in own : q = r
  BY DEF RunsInv
<1>3. s.company = NULL \/ s.company = r.scope.company
  <2>1. \/ NULL \in {<<s.company>>[i] : i \in DOMAIN <<s.company>>}
        \/ <<s.company>> \in {<<q.scope.company>> : q \in own}
    BY DEF RunKeys, References
  <2> QED
    BY <1>2, <2>1
<1>4. s.branch = NULL \/ s.branch = r.scope.branch
  <2>1. \/ NULL \in {<<s.branch>>[i] : i \in DOMAIN <<s.branch>>}
        \/ <<s.branch>> \in {<<q.scope.branch>> : q \in own}
    BY DEF RunKeys, References
  <2> QED
    BY <1>2, <2>1
<1>5. r \in runs /\ r.tenant = t /\ r.id = run /\ r.scope \in Scopes /\ ScopeCoherent(r.scope)
  BY DEF RunsInv
<1>6. r.scope = s
  BY <1>1, <1>3, <1>4, <1>5, CoherentScopes
<1> QED
  BY <1>5, <1>6

LEMMA RunsInvariant == Spec => []RunsInv
<1>1. Init => RunsInv
  BY FS_EmptySet DEF Init, StoreInit, RunsInv
<1>2. RunsInv /\ [Next]_vars => RunsInv'
  <2> SUFFICES ASSUME RunsInv, [Next]_vars
               PROVE  RunsInv'
    OBVIOUS
  <2>1. ASSUME UNCHANGED runs
        PROVE  RunsInv'
    BY <2>1 DEF RunsInv
  <2>2. ASSUME NEW t \in Tenants, NEW i \in Ids, DiagnosticEvaluationRun(t, i)
        PROVE  RunsInv'
    <3>1. PICK s \in ScopesOf(t) : runs' = runs \cup {[id |-> i, tenant |-> t, scope |-> s]}
      BY <2>2 DEF DiagnosticEvaluationRun
    <3>2. i = Cardinality(runs) + 1
      BY <2>2 DEF DiagnosticEvaluationRun, New
    <3>3. PICK n : n = Cardinality(runs)
      OBVIOUS
    <3>4. n \in Nat
      BY <3>3, FS_CardinalityType DEF RunsInv
    <3>5. PICK r : r = [id |-> i, tenant |-> t, scope |-> s]
      OBVIOUS
    <3>6. r \notin runs
      BY <3>2, <3>3, <3>4, <3>5 DEF RunsInv
    <3>7. IsFiniteSet(runs') /\ Cardinality(runs') = n + 1
      BY <3>1, <3>3, <3>5, <3>6, FS_AddElement DEF RunsInv
    <3>8. \A q \in runs : q.id \in Nat /\ q.id <= n /\ q.scope \in Scopes /\ ScopeCoherent(q.scope)
      BY <3>3 DEF RunsInv
    <3>9. r.id = n + 1 /\ r.scope \in Scopes /\ ScopeCoherent(r.scope)
      BY <3>2, <3>3, <3>5 DEF ScopesOf
    <3>10. \A q, p \in runs' : q.id = p.id => q = p
      BY <3>1, <3>4, <3>5, <3>8, <3>9 DEF RunsInv
    <3>11. \A q \in runs' : /\ q.id \in Nat /\ q.id <= Cardinality(runs')
                            /\ q.scope \in Scopes /\ ScopeCoherent(q.scope)
      BY <3>1, <3>4, <3>5, <3>7, <3>8, <3>9
    <3> QED
      BY <3>7, <3>10, <3>11 DEF RunsInv, ScopeCoherent, IsNull, Scopes
  <2>3. ASSUME NEW t \in Tenants, NEW i \in Ids, Insert(t, i), ~DiagnosticEvaluationRun(t, i)
        PROVE  UNCHANGED runs
    BY <2>3 DEF Insert, DiagnosticRuleDefinition, DiagnosticRuleVersion,
       DiagnosticRuleConfiguration, DiagnosticFinding, DiagnosticEvidence, DiagnosticHypothesis,
       DiagnosticHypothesisEvidence, DiagnosticActionRecommendation, DiagnosticSuppression,
       DiagnosticIncident, DiagnosticIncidentMembership
  <2> QED
    BY <2>1, <2>2, <2>3, NextCases DEF SystemRule, store, vars
<1> QED
  BY <1>1, <1>2, PTL DEF Spec

\* A finding is about the tenant, the company and the branch its run evaluated
\* (diagnostic_findings, 0005), although the keys by company and by branch are
\* not checked for NULLs: the CHECKs of both tables close the gap.
THEOREM FindingsAreInTheirRunsScope == Spec => []FindingInRunScope
<1>1. Init => FindingInRunScope
  BY DEF Init, StoreInit, FindingInRunScope
<1>2. RunsInv /\ FindingInRunScope /\ [Next]_vars => FindingInRunScope'
  <2> SUFFICES ASSUME RunsInv, FindingInRunScope, [Next]_vars
               PROVE  FindingInRunScope'
    OBVIOUS
  <2>1. ASSUME UNCHANGED findings, runs \subseteq runs'
        PROVE  FindingInRunScope'
    BY <2>1 DEF FindingInRunScope
  <2>2. ASSUME NEW t \in Tenants, NEW i \in Ids, DiagnosticFinding(t, i)
        PROVE  FindingInRunScope'
    <3>1. PICK s \in ScopesOf(t), ref \in RuleRefsOf(t), run \in Ids :
             /\ RunKeys(t, run, s)
             /\ findings' = findings \cup
                  {[id |-> i, tenant |-> t, scope |-> s, run |-> run, ref |-> ref]}
      BY <2>2 DEF DiagnosticFinding
    <3>2. s \in Scopes /\ ScopeCoherent(s)
      BY DEF ScopesOf
    <3>3. \E r \in runs : r.id = run /\ r.tenant = t /\ r.scope = s
      BY <3>1, <3>2, RunKeysGiveScope
    <3>4. UNCHANGED runs
      BY <2>2 DEF DiagnosticFinding
    <3> QED
      BY <3>1, <3>3, <3>4 DEF FindingInRunScope
  <2>3. ASSUME NEW t \in Tenants, NEW i \in Ids, Insert(t, i), ~DiagnosticFinding(t, i)
        PROVE  UNCHANGED findings /\ runs \subseteq runs'
    BY <2>3 DEF Insert, DiagnosticRuleDefinition, DiagnosticRuleVersion, DiagnosticEvaluationRun,
       DiagnosticRuleConfiguration, DiagnosticEvidence, DiagnosticHypothesis, history,
       DiagnosticHypothesisEvidence, DiagnosticActionRecommendation, DiagnosticSuppression,
       DiagnosticIncident, DiagnosticIncidentMembership
  <2> QED
    BY <2>1, <2>2, <2>3, NextCases DEF SystemRule, store, history, vars
<1> QED
  BY <1>1, <1>2, RunsInvariant, PTL DEF Spec

\* What explains a finding is about that finding, and an incident groups the
\* findings of its tenant: the keys of the link and of the membership repeat
\* the finding and the tenant of the rows they join, and no row is updated.
THEOREM ExplanationsStayInTheirFinding == Spec => []ExplanationStaysInFinding
<1> DEFINE Explained == \A l \in links :
                 /\ \E e \in evidences : e.id = l.evidence /\ e.finding = l.finding /\ e.tenant = l.tenant
                 /\ \E h \in hypotheses : h.id = l.hypothesis /\ h.finding = l.finding
                 /\ <<l.tenant, l.finding>> \in FindingKey
           Grouped == \A m \in members :
                 /\ \E x \in incidents : x.id = m.incident /\ x.tenant = m.tenant
                 /\ <<m.tenant, m.finding>> \in FindingKey
           EvidencesOfFindings == \A e \in evidences : <<e.tenant, e.finding>> \in FindingKey
           I == Explained /\ Grouped /\ EvidencesOfFindings
<1>1. Init => I
  BY DEF Init, StoreInit
<1>2. I /\ [Next]_vars => I'
  <2> SUFFICES ASSUME I, [Next]_vars
               PROVE  I'
    OBVIOUS
  <2>1. ASSUME UNCHANGED <<links, members, evidences>>, findings \subseteq findings',
               hypotheses \subseteq hypotheses', incidents \subseteq incidents'
        PROVE  I'
    <3>1. FindingKey \subseteq FindingKey'
      BY <2>1 DEF FindingKey
    <3> QED
      BY <2>1, <3>1
  <2>2. ASSUME NEW t \in Tenants, NEW i \in Ids, DiagnosticEvidence(t, i)
        PROVE  I'
    <3>1. PICK f \in Ids : /\ <<t, f>> \in FindingKey
                           /\ evidences' = evidences \cup {[id |-> i, tenant |-> t, finding |-> f]}
      BY <2>2 DEF DiagnosticEvidence
    <3>2. UNCHANGED <<findings, links, members, hypotheses, incidents>> /\ FindingKey' = FindingKey
      BY <2>2 DEF DiagnosticEvidence, FindingKey
    <3> QED
      BY <3>1, <3>2
  <2>3. ASSUME NEW t \in Tenants, DiagnosticHypothesisEvidence(t)
        PROVE  I'
    <3>1. PICK f \in Ids, e \in Ids, h \in Ids :
             /\ LinkKeys(t, f, e, h)
             /\ links' = links \cup {[tenant |-> t, finding |-> f, evidence |-> e, hypothesis |-> h]}
      BY <2>3 DEF DiagnosticHypothesisEvidence
    <3>2. UNCHANGED <<findings, evidences, members, hypotheses, incidents>> /\ FindingKey' = FindingKey
      BY <2>3 DEF DiagnosticHypothesisEvidence, FindingKey
    <3>3. /\ [id |-> e, tenant |-> t, finding |-> f] \in evidences
          /\ [id |-> h, tenant |-> t, finding |-> f] \in hypotheses
      BY <3>1 DEF LinkKeys
    <3>4. <<t, f>> \in FindingKey
      BY <3>3
    <3>5. PICK x \in evidences : x.id = e /\ x.tenant = t /\ x.finding = f
      BY <3>3
    <3>6. PICK y \in hypotheses : y.id = h /\ y.finding = f
      BY <3>3
    <3>7. ASSUME NEW l \in links', l \notin links
          PROVE  l.tenant = t /\ l.finding = f /\ l.evidence = e /\ l.hypothesis = h
      BY <3>1, <3>7
    <3>8. ASSUME NEW l \in links'
          PROVE  /\ \E v \in evidences : v.id = l.evidence /\ v.finding = l.finding /\ v.tenant = l.tenant
                 /\ \E v \in hypotheses : v.id = l.hypothesis /\ v.finding = l.finding
                 /\ <<l.tenant, l.finding>> \in FindingKey
      <4>1. CASE l \in links
        BY <4>1
      <4>2. CASE l \notin links
        BY <3>4, <3>5, <3>6, <3>7, <4>2
      <4> QED
        BY <4>1, <4>2
    <3>9. Explained'
      BY <3>2, <3>8
    <3> QED
      BY <3>2, <3>9
  <2>4. ASSUME NEW t \in Tenants, DiagnosticIncidentMembership(t)
        PROVE  I'
    <3>1. PICK i \in Ids, f \in Ids :
             /\ \E x \in incidents : x.id = i /\ x.tenant = t
             /\ <<t, f>> \in FindingKey
             /\ members' = members \cup {[tenant |-> t, incident |-> i, finding |-> f]}
      BY <2>4 DEF DiagnosticIncidentMembership
    <3>2. UNCHANGED <<findings, evidences, links, hypotheses, incidents>> /\ FindingKey' = FindingKey
      BY <2>4 DEF DiagnosticIncidentMembership, FindingKey
    <3> QED
      BY <3>1, <3>2
  <2>5. ASSUME NEW t \in Tenants, NEW i \in Ids, Insert(t, i), ~DiagnosticEvidence(t, i),
               ~DiagnosticHypothesisEvidence(t), ~DiagnosticIncidentMembership(t)
        PROVE  /\ UNCHANGED <<links, members, evidences>> /\ findings \subseteq findings'
               /\ hypotheses \subseteq hypotheses' /\ incidents \subseteq incidents'
    BY <2>5 DEF Insert, DiagnosticRuleDefinition, DiagnosticRuleVersion, DiagnosticEvaluationRun,
       DiagnosticRuleConfiguration, DiagnosticFinding, DiagnosticHypothesis, history,
       DiagnosticActionRecommendation, DiagnosticSuppression, DiagnosticIncident
  <2>6. SystemRule => UNCHANGED <<links, members, evidences, findings, hypotheses, incidents>>
    BY DEF SystemRule, history
  <2> QED
    BY <2>1, <2>2, <2>3, <2>4, <2>5, <2>6, NextCases DEF store, history, vars, Insert
<1>3. I => ExplanationStaysInFinding
  BY DEF ExplanationStaysInFinding
<1> QED
  BY <1>1, <1>2, <1>3, PTL DEF Spec

----------------------------------------------------------------------------
(* The keys of the tables.                                                 *)

\* The tables that a cascade from a source, a batch or a staging record may
\* reach.
OriginTables == {
    "data_sources", "import_batches", "staging_records", "canonical_product_identifiers",
    "integration_inbox_messages", "mapping_profiles", "sync_cursors", "webhook_receipts",
    "mapping_versions", "field_mappings", "imported_files", "processing_statistics",
    "quality_results", "sync_executions", "integration_dead_letters", "landing_manifests",
    "lineage_events", "processing_errors", "processing_steps", "rejected_records",
    "sync_attempts", "sync_checkpoints" }

\* A table of a tenant goes with its tenant.
Follows(table) == table.tenancy = "required" => Ref("tenants", "cascade") \in table.refs

\* A cascade from one of the tables above leads to one of them.
Stays(table) ==
    \A ref \in table.refs :
        ref.ondelete = "cascade" /\ ref.to \in OriginTables => table.name \in OriginTables

\* No cascade but the one from its tenant reaches a row of the operational
\* history, and none reaches a tenant.
Guards(table) ==
    \A ref \in table.refs :
        ref.ondelete = "cascade" =>
            /\ table.name \in OperationalHistory => ref.to = "tenants"
            /\ table.name # "tenants"

\* The tables with rows that no cascade from a tenant reaches: the ones of the
\* platform and of the users.
Outside == {
    "users", "user_profiles", "email_verification_tokens", "password_reset_tokens",
    "permissions", "sessions", "security_events", "authentication_attempts",
    "terms_versions", "consent_records", "onboarding_progress", "audit_events",
    "connector_definitions", "diagnostic_action_catalog_snapshots",
    "diagnostic_action_catalog_entries" }

\* What a table asks of the deletion of a tenant: its key to the tenant does not
\* restrict, it restricts the deletion of rows outside only unless it goes with
\* the tenant itself, and neither a cascade nor a scoped SET NULL reaches it from
\* a row that goes with the tenant unless it goes with the tenant too.
Yields(table) ==
    /\ \A ref \in table.refs :
         /\ ref.to = "tenants" => ref.ondelete # "restrict" /\ ~ref.scoped
         /\ ref.ondelete = "restrict" => table.tenancy = "required" \/ ref.to \in Outside
         /\ ref.ondelete = "cascade" => table.name \notin Outside \/ ref.to \in Outside
         /\ ref.ondelete = "set_null" => table.tenancy = "required" \/ ~ref.scoped
         /\ table.name = "audit_events" => ref.ondelete = "set_null" /\ ref.optional
         /\ table.name = "roles" => ref.optional
         /\ table.name = "role_permissions" => ref.to \in {"roles", "permissions"}
    /\ table.name = "audit_events" => MaybeRef("tenants", "set_null") \in table.refs
    /\ table.name = "imported_files" => table.tenancy = "required"
    /\ table.name = "diagnostic_rule_definitions" => MaybeRef("tenants", "cascade") \in table.refs

Holds(table) == Follows(table) /\ Stays(table) /\ Guards(table) /\ Yields(table)

LEMMA IdentityTablesHold == \A i \in DOMAIN IdentityTables : Holds(IdentityTables[i])
<1>1. /\ Holds(users) /\ Holds(user_profiles) /\ Holds(email_verification_tokens)
      /\ Holds(password_reset_tokens) /\ Holds(tenants)
  BY SMTT(30) DEF Holds, Follows, Stays, OriginTables, Guards, OperationalHistory, Yields,
         Outside, users, user_profiles, email_verification_tokens, password_reset_tokens,
         tenants, Owned, Shared, Global, Ref, MaybeRef, TenantRef, MaybeTenantRef,
         ForeignKey
<1>2. /\ Holds(economic_groups) /\ Holds(companies) /\ Holds(branches)
      /\ Holds(memberships) /\ Holds(teams)
  BY SMTT(30) DEF Holds, Follows, Stays, OriginTables, Guards, OperationalHistory, Yields,
         Outside, economic_groups, companies, branches, memberships, teams, Owned, Shared,
         Global, Ref, MaybeRef, TenantRef, MaybeTenantRef, ForeignKey
<1>3. /\ Holds(team_memberships) /\ Holds(permissions) /\ Holds(roles)
      /\ Holds(role_permissions) /\ Holds(role_assignments)
  BY SMTT(30) DEF Holds, Follows, Stays, OriginTables, Guards, OperationalHistory, Yields,
         Outside, team_memberships, permissions, roles, role_permissions, role_assignments,
         Owned, Shared, Global, Ref, MaybeRef, TenantRef, MaybeTenantRef, ForeignKey
<1>4. /\ Holds(sessions) /\ Holds(security_events) /\ Holds(authentication_attempts)
      /\ Holds(invitations) /\ Holds(terms_versions)
  BY SMTT(30) DEF Holds, Follows, Stays, OriginTables, Guards, OperationalHistory, Yields,
         Outside, sessions, security_events, authentication_attempts, invitations,
         terms_versions, Owned, Shared, Global, Ref, MaybeRef, TenantRef, MaybeTenantRef,
         ForeignKey
<1>5. /\ Holds(consent_records) /\ Holds(onboarding_progress) /\ Holds(audit_events)
  BY SMTT(30) DEF Holds, Follows, Stays, OriginTables, Guards, OperationalHistory, Yields,
         Outside, consent_records, onboarding_progress, audit_events, Owned, Shared, Global,
         Ref, MaybeRef, TenantRef, MaybeTenantRef, ForeignKey
<1> QED
  BY <1>1, <1>2, <1>3, <1>4, <1>5 DEF IdentityTables

LEMMA CanonicalTablesHold == \A i \in DOMAIN CanonicalTables : Holds(CanonicalTables[i])
<1>1. /\ Holds(connector_definitions) /\ Holds(canonical_brands)
      /\ Holds(canonical_categories) /\ Holds(canonical_manufacturers)
      /\ Holds(integration_outbox_events)
  BY SMTT(30) DEF Holds, Follows, Stays, OriginTables, Guards, OperationalHistory, Yields,
         Outside, connector_definitions, canonical_brands, canonical_categories,
         canonical_manufacturers, integration_outbox_events, Owned, Shared, Global, Ref,
         MaybeRef, TenantRef, MaybeTenantRef, ForeignKey
<1>2. /\ Holds(processing_leases) /\ Holds(processing_state_transitions)
      /\ Holds(quality_rules) /\ Holds(credential_references)
      /\ Holds(connector_instances)
  BY SMTT(30) DEF Holds, Follows, Stays, OriginTables, Guards, OperationalHistory, Yields,
         Outside, processing_leases, processing_state_transitions, quality_rules,
         credential_references, connector_instances, Owned, Shared, Global, Ref, MaybeRef,
         TenantRef, MaybeTenantRef, ForeignKey
<1>3. /\ Holds(data_sources) /\ Holds(integration_inbox_messages)
      /\ Holds(mapping_profiles) /\ Holds(sync_cursors) /\ Holds(webhook_receipts)
  BY SMTT(30) DEF Holds, Follows, Stays, OriginTables, Guards, OperationalHistory, Yields,
         Outside, data_sources, integration_inbox_messages, mapping_profiles, sync_cursors,
         webhook_receipts, Owned, Shared, Global, Ref, MaybeRef, TenantRef, MaybeTenantRef,
         ForeignKey
<1>4. /\ Holds(mapping_versions) /\ Holds(field_mappings) /\ Holds(import_batches)
      /\ Holds(canonical_promotions) /\ Holds(imported_files)
  BY SMTT(30) DEF Holds, Follows, Stays, OriginTables, Guards, OperationalHistory, Yields,
         Outside, mapping_versions, field_mappings, import_batches, canonical_promotions,
         imported_files, Owned, Shared, Global, Ref, MaybeRef, TenantRef, MaybeTenantRef,
         ForeignKey
<1>5. /\ Holds(processing_statistics) /\ Holds(quality_results)
      /\ Holds(staging_records) /\ Holds(sync_executions) /\ Holds(canonical_products)
  BY SMTT(30) DEF Holds, Follows, Stays, OriginTables, Guards, OperationalHistory, Yields,
         Outside, processing_statistics, quality_results, staging_records, sync_executions,
         canonical_products, Owned, Shared, Global, Ref, MaybeRef, TenantRef,
         MaybeTenantRef, ForeignKey
<1>6. /\ Holds(canonical_sales) /\ Holds(canonical_suppliers)
      /\ Holds(integration_dead_letters) /\ Holds(landing_manifests)
      /\ Holds(lineage_events)
  BY SMTT(30) DEF Holds, Follows, Stays, OriginTables, Guards, OperationalHistory, Yields,
         Outside, canonical_sales, canonical_suppliers, integration_dead_letters,
         landing_manifests, lineage_events, Owned, Shared, Global, Ref, MaybeRef, TenantRef,
         MaybeTenantRef, ForeignKey
<1>7. /\ Holds(processing_errors) /\ Holds(processing_steps) /\ Holds(rejected_records)
      /\ Holds(sync_attempts) /\ Holds(sync_checkpoints)
  BY SMTT(30) DEF Holds, Follows, Stays, OriginTables, Guards, OperationalHistory, Yields,
         Outside, processing_errors, processing_steps, rejected_records, sync_attempts,
         sync_checkpoints, Owned, Shared, Global, Ref, MaybeRef, TenantRef, MaybeTenantRef,
         ForeignKey
<1>8. /\ Holds(canonical_inventory_lots) /\ Holds(canonical_product_identifiers)
      /\ Holds(canonical_product_presentations) /\ Holds(canonical_product_prices)
      /\ Holds(canonical_promotion_products)
  BY SMTT(30) DEF Holds, Follows, Stays, OriginTables, Guards, OperationalHistory, Yields,
         Outside, canonical_inventory_lots, canonical_product_identifiers,
         canonical_product_presentations, canonical_product_prices,
         canonical_promotion_products, Owned, Shared, Global, Ref, MaybeRef, TenantRef,
         MaybeTenantRef, ForeignKey
<1>9. /\ Holds(canonical_purchase_orders) /\ Holds(canonical_sale_adjustments)
      /\ Holds(canonical_sale_items) /\ Holds(canonical_sale_payments)
      /\ Holds(canonical_stock_balances)
  BY SMTT(30) DEF Holds, Follows, Stays, OriginTables, Guards, OperationalHistory, Yields,
         Outside, canonical_purchase_orders, canonical_sale_adjustments,
         canonical_sale_items, canonical_sale_payments, canonical_stock_balances, Owned,
         Shared, Global, Ref, MaybeRef, TenantRef, MaybeTenantRef, ForeignKey
<1>10. /\ Holds(canonical_stock_snapshots) /\ Holds(canonical_supplier_identifiers)
       /\ Holds(canonical_supplier_products) /\ Holds(canonical_inventory_movements)
       /\ Holds(canonical_purchase_items)
  BY SMTT(30) DEF Holds, Follows, Stays, OriginTables, Guards, OperationalHistory, Yields,
         Outside, canonical_stock_snapshots, canonical_supplier_identifiers,
         canonical_supplier_products, canonical_inventory_movements,
         canonical_purchase_items, Owned, Shared, Global, Ref, MaybeRef, TenantRef,
         MaybeTenantRef, ForeignKey
<1>11. /\ Holds(canonical_purchase_receipts) /\ Holds(canonical_supplier_costs)
  BY SMTT(30) DEF Holds, Follows, Stays, OriginTables, Guards, OperationalHistory, Yields,
         Outside, canonical_purchase_receipts, canonical_supplier_costs, Owned, Shared,
         Global, Ref, MaybeRef, TenantRef, MaybeTenantRef, ForeignKey
<1> QED
  BY <1>1, <1>2, <1>3, <1>4, <1>5, <1>6, <1>7, <1>8, <1>9, <1>10, <1>11 DEF CanonicalTables

LEMMA AnalyticsTablesHold == \A i \in DOMAIN AnalyticsTables : Holds(AnalyticsTables[i])
<1>1. /\ Holds(analytics_dimensions) /\ Holds(analytics_facts)
      /\ Holds(analytics_daily_aggregates) /\ Holds(analytics_kpi_definition_versions)
      /\ Holds(analytics_kpi_results)
  BY SMTT(30) DEF Holds, Follows, Stays, OriginTables, Guards, OperationalHistory, Yields,
         Outside, analytics_dimensions, analytics_facts, analytics_daily_aggregates,
         analytics_kpi_definition_versions, analytics_kpi_results, Owned, Shared, Global,
         Ref, MaybeRef, TenantRef, MaybeTenantRef, ForeignKey
<1>2. /\ Holds(analytics_refresh_jobs) /\ Holds(analytics_data_versions)
      /\ Holds(analytics_lineage) /\ Holds(analytics_goals)
      /\ Holds(analytics_goal_history)
  BY SMTT(30) DEF Holds, Follows, Stays, OriginTables, Guards, OperationalHistory, Yields,
         Outside, analytics_refresh_jobs, analytics_data_versions, analytics_lineage,
         analytics_goals, analytics_goal_history, Owned, Shared, Global, Ref, MaybeRef,
         TenantRef, MaybeTenantRef, ForeignKey
<1> QED
  BY <1>1, <1>2 DEF AnalyticsTables

LEMMA DiagnosticTablesHold == \A i \in DOMAIN DiagnosticTables : Holds(DiagnosticTables[i])
<1>1. /\ Holds(diagnostic_action_catalog_snapshots)
      /\ Holds(diagnostic_action_catalog_entries) /\ Holds(diagnostic_rule_definitions)
      /\ Holds(diagnostic_rule_versions) /\ Holds(diagnostic_evaluation_runs)
  BY SMTT(30) DEF Holds, Follows, Stays, OriginTables, Guards, OperationalHistory, Yields,
         Outside, diagnostic_action_catalog_snapshots, diagnostic_action_catalog_entries,
         diagnostic_rule_definitions, diagnostic_rule_versions, diagnostic_evaluation_runs,
         Owned, Shared, Global, Ref, MaybeRef, TenantRef, MaybeTenantRef, ForeignKey
<1>2. /\ Holds(diagnostic_rule_configurations) /\ Holds(diagnostic_findings)
      /\ Holds(diagnostic_suppressions) /\ Holds(diagnostic_action_recommendations)
      /\ Holds(diagnostic_evidences)
  BY SMTT(30) DEF Holds, Follows, Stays, OriginTables, Guards, OperationalHistory, Yields,
         Outside, diagnostic_rule_configurations, diagnostic_findings,
         diagnostic_suppressions, diagnostic_action_recommendations, diagnostic_evidences,
         Owned, Shared, Global, Ref, MaybeRef, TenantRef, MaybeTenantRef, ForeignKey
<1>3. /\ Holds(diagnostic_hypotheses) /\ Holds(diagnostic_incidents)
      /\ Holds(diagnostic_hypothesis_evidences) /\ Holds(diagnostic_incident_memberships)
  BY SMTT(30) DEF Holds, Follows, Stays, OriginTables, Guards, OperationalHistory, Yields,
         Outside, diagnostic_hypotheses, diagnostic_incidents,
         diagnostic_hypothesis_evidences, diagnostic_incident_memberships, Owned, Shared,
         Global, Ref, MaybeRef, TenantRef, MaybeTenantRef, ForeignKey
<1> QED
  BY <1>1, <1>2, <1>3 DEF DiagnosticTables

\* Each table is one of the lists, so that what holds of each of them holds of
\* the one that a name stands for.
LEMMA CreationHolds == \A i \in DOMAIN CreationOrder : Holds(CreationOrder[i])
<1> DEFINE S == {x \in UNION {{IdentityTables[i] : i \in DOMAIN IdentityTables},
                              {CanonicalTables[i] : i \in DOMAIN CanonicalTables},
                              {AnalyticsTables[i] : i \in DOMAIN AnalyticsTables},
                              {DiagnosticTables[i] : i \in DOMAIN DiagnosticTables}} : Holds(x)}
<1>1. IdentityTables \in Seq(S)
  <2>1. \A i \in DOMAIN IdentityTables : IdentityTables[i] \in S
    BY IdentityTablesHold
  <2> HIDE DEF S
  <2> QED
    BY <2>1 DEF IdentityTables
<1>2. CanonicalTables \in Seq(S)
  <2>1. \A i \in DOMAIN CanonicalTables : CanonicalTables[i] \in S
    BY CanonicalTablesHold
  <2> HIDE DEF S
  <2> QED
    BY <2>1 DEF CanonicalTables
<1>3. AnalyticsTables \in Seq(S)
  <2>1. \A i \in DOMAIN AnalyticsTables : AnalyticsTables[i] \in S
    BY AnalyticsTablesHold
  <2> HIDE DEF S
  <2> QED
    BY <2>1 DEF AnalyticsTables
<1>4. DiagnosticTables \in Seq(S)
  <2>1. \A i \in DOMAIN DiagnosticTables : DiagnosticTables[i] \in S
    BY DiagnosticTablesHold
  <2> HIDE DEF S
  <2> QED
    BY <2>1 DEF DiagnosticTables
<1>5. \A x \in S : Holds(x)
  OBVIOUS
<1> HIDE DEF S
<1>6. CreationOrder \in Seq(S)
  BY <1>1, <1>2, <1>3, <1>4 DEF CreationOrder
<1> QED
  BY <1>5, <1>6

LEMMA RowOfName ==
    ASSUME NEW t \in TableNames
    PROVE  Row(t).name = t /\ Holds(Row(t))
<1>1. Position[t] \in DOMAIN CreationOrder /\ CreationOrder[Position[t]].name = t
  BY DEF TableNames, Position
<1> QED
  BY <1>1, CreationHolds DEF Row

\* A concatenation holds what both lists hold.
Join(a, b) == a \o b

LEMMA ConcatHolds ==
    ASSUME NEW S, NEW a \in Seq(S), NEW b \in Seq(S), NEW c, c = Join(a, b)
    PROVE  /\ c \in Seq(S)
           /\ \A i \in DOMAIN a : \E j \in DOMAIN c : c[j] = a[i]
           /\ \A i \in DOMAIN b : \E j \in DOMAIN c : c[j] = b[i]
<1>1. c \in Seq(S) /\ DOMAIN c = 1 .. Len(a) + Len(b)
  BY DEF Join
<1>2. ASSUME NEW i \in DOMAIN a
      PROVE  i \in DOMAIN c /\ c[i] = a[i]
  BY DEF Join
<1>3. ASSUME NEW i \in DOMAIN b
      PROVE  Len(a) + i \in DOMAIN c /\ c[Len(a) + i] = b[i]
  BY DEF Join
<1> QED
  BY <1>1, <1>2, <1>3

LEMMA ConcatIndexes ==
    ASSUME NEW S, NEW a \in Seq(S), NEW b \in Seq(S), NEW c, c = Join(a, b)
    PROVE  /\ DOMAIN c = 1 .. Len(a) + Len(b)
           /\ \A i \in 1 .. Len(a) : c[i] = a[i]
           /\ \A i \in 1 .. Len(b) : c[Len(a) + i] = b[i]
BY DEF Join

LEMMA NamedTables ==
    {"tenants", "data_sources", "import_batches", "staging_records"} \subseteq TableNames
<1> DEFINE S == (UNION {{IdentityTables[i] : i \in DOMAIN IdentityTables},
                        {CanonicalTables[i] : i \in DOMAIN CanonicalTables}})
                \cup (UNION {{AnalyticsTables[i] : i \in DOMAIN AnalyticsTables},
                             {DiagnosticTables[i] : i \in DOMAIN DiagnosticTables}})
<1>1. 5 \in DOMAIN IdentityTables /\ IdentityTables[5] = tenants
  BY DEF IdentityTables
<1>2. /\ {11, 18, 23} \subseteq DOMAIN CanonicalTables
      /\ CanonicalTables[11] = data_sources /\ CanonicalTables[18] = import_batches
      /\ CanonicalTables[23] = staging_records
  BY DEF CanonicalTables
<1>3. IdentityTables \in Seq(S)
  BY DEF IdentityTables
<1>4. CanonicalTables \in Seq(S)
  BY DEF CanonicalTables
<1>5. AnalyticsTables \in Seq(S) /\ DiagnosticTables \in Seq(S)
  BY DEF AnalyticsTables, DiagnosticTables
<1> HIDE DEF S
<1>6. PICK first : first = Join(IdentityTables, CanonicalTables)
  OBVIOUS
<1>14. /\ first \in Seq(S)
       /\ \A i \in DOMAIN IdentityTables : \E j \in DOMAIN first : first[j] = IdentityTables[i]
       /\ \A i \in DOMAIN CanonicalTables : \E j \in DOMAIN first : first[j] = CanonicalTables[i]
  BY <1>3, <1>4, <1>6, ConcatHolds
<1>7. \A x \in {tenants, data_sources, import_batches, staging_records} :
         \E j \in DOMAIN first : first[j] = x
  BY <1>1, <1>2, <1>14
<1>8. PICK next : next = Join(first, AnalyticsTables)
  OBVIOUS
<1>9. /\ next \in Seq(S)
      /\ \A i \in DOMAIN first : \E j \in DOMAIN next : next[j] = first[i]
  BY <1>5, <1>14, <1>8, ConcatHolds
<1>10. CreationOrder = Join(next, DiagnosticTables)
  BY <1>6, <1>8 DEF CreationOrder, Join
<1>11. \A i \in DOMAIN next : \E j \in DOMAIN CreationOrder : CreationOrder[j] = next[i]
  BY <1>5, <1>9, <1>10, ConcatHolds
<1>12. \A x \in {tenants, data_sources, import_batches, staging_records} :
          \E j \in DOMAIN CreationOrder : CreationOrder[j] = x
  BY <1>7, <1>9, <1>11
<1>13. /\ tenants.name = "tenants" /\ data_sources.name = "data_sources"
       /\ import_batches.name = "import_batches" /\ staging_records.name = "staging_records"
  BY DEF tenants, data_sources, import_batches, staging_records, Global, Owned
<1> QED
  BY <1>12, <1>13 DEF TableNames

\* A key is the pointer of 0005 or a reference of its table.
LEMMA KeyIsOfItsTable ==
    ASSUME NEW h \in TableNames, NEW k \in KeysTo[h]
    PROVE  \/ k = CurrentVersion
           \/ /\ k.from \in TableNames
              /\ \E ref \in Row(k.from).refs : k = KeyOf(k.from, ref) /\ ref.to = h
<1>1. k \in Keys /\ k.to = h
  BY DEF KeysTo
<1>2. CASE k = CurrentVersion
  BY <1>2
<1>3. CASE k # CurrentVersion
  <2>1. PICK t \in TableNames : k \in KeysOf(Row(t))
    BY <1>1, <1>3 DEF Keys
  <2>2. PICK ref \in Row(t).refs : k = KeyOf(Row(t).name, ref)
    BY <2>1 DEF KeysOf
  <2>3. k.from = Row(t).name /\ k.to = ref.to
    BY <2>2 DEF KeyOf
  <2>4. Row(t).name = t
    BY RowOfName
  <2> QED
    BY <1>1, <2>2, <2>3, <2>4
<1> QED
  BY <1>2, <1>3

\* A reference of a table to a table makes a key.
LEMMA ReferenceMakesKey ==
    ASSUME NEW t \in TableNames, NEW ref \in Row(t).refs, ref.to \in TableNames
    PROVE  KeyOf(t, ref) \in KeysTo[ref.to]
<1>1. Row(t).name = t
  BY RowOfName
<1>2. KeyOf(t, ref) \in KeysOf(Row(t))
  BY <1>1 DEF KeysOf
<1>3. KeyOf(t, ref) \in Keys
  BY <1>2 DEF Keys
<1>4. KeyOf(t, ref).to = ref.to
  BY DEF KeyOf
<1> QED
  BY <1>3, <1>4 DEF KeysTo

\* The key of a table of a tenant to its tenant.
LEMMA TenantKey ==
    ASSUME NEW t \in TableNames, Row(t).tenancy = "required"
    PROVE  KeyOf(t, Ref("tenants", "cascade")) \in KeysTo["tenants"]
<1>1. PICK ref : ref = Ref("tenants", "cascade")
  OBVIOUS
<1>2. ref \in Row(t).refs
  BY <1>1, RowOfName DEF Holds, Follows
<1>3. ref.to = "tenants"
  BY <1>1 DEF Ref, ForeignKey
<1> QED
  BY <1>1, <1>2, <1>3, NamedTables, ReferenceMakesKey

----------------------------------------------------------------------------
(* Rows and DELETE.                                                        *)

\* The rows of a population are rows of tables of the product.
RowsInv == rows \subseteq TableNames /\ before \subseteq TableNames

LEMMA RowsInvariant == Spec => []RowsInv
<1>1. Init => RowsInv
  BY DEF Init, SchemaInit, RowsInv
<1>2. RowsInv /\ [Next]_vars => RowsInv'
  <2> SUFFICES ASSUME RowsInv, [Next]_vars
               PROVE  RowsInv'
    OBVIOUS
  <2>1. ASSUME UNCHANGED <<rows, before>>
        PROVE  RowsInv'
    BY <2>1 DEF RowsInv
  <2>2. ASSUME NEW leaves, NEW optional, NEW kept, Load(leaves, optional, kept)
        PROVE  RowsInv'
    BY <2>2 DEF Load, Complete, RowsInv
  <2>3. ASSUME NEW t \in rows, Delete(t)
        PROVE  RowsInv'
    BY <2>3 DEF Delete, RowsInv
  <2>4. ASSUME RunKey
        PROVE  RowsInv'
    BY <2>4 DEF RunKey, Refuse, RowsInv
  <2>5. ASSUME Discard
        PROVE  RowsInv'
    BY <2>5 DEF Discard, RowsInv
  <2> QED
    BY <2>1, <2>2, <2>3, <2>4, <2>5, NextCases
       DEF SchemaNext, Upgrade, Downgrade, Migrate, Return, deleteVars, database, vars
<1> QED
  BY <1>1, <1>2, PTL DEF Spec

\* A DELETE is about a row of a table of the product.
RootInv == outcome \in {"running", "done"} => root \in TableNames

LEMMA RootInvariant == Spec => []RootInv
<1>1. Init => RootInv
  BY DEF Init, SchemaInit, RootInv
<1>2. RootInv /\ RowsInv /\ [Next]_vars => RootInv'
  BY NextCases DEF RootInv, RowsInv, SchemaNext, Upgrade, Downgrade, Migrate, Load, Idle, Delete,
     RunKey, Refuse, Return, Discard, deleteVars, database, vars
<1> QED
  BY <1>1, <1>2, RowsInvariant, PTL DEF Spec

\* Whatever a DELETE does, fewer rows are left that refer to a row.
LEMMA ReferringShrinks ==
    ASSUME rows' \subseteq rows, cleared \subseteq cleared', UNCHANGED linked, NEW t
    PROVE  (Referring(t))' \subseteq Referring(t)
BY DEF Referring

\* A DELETE of one of roots has deleted, besides its root, rows of gone only,
\* and the rows whose keys are still to run are among waiting.
Within(roots, waiting, gone) ==
    root \in roots /\ outcome \in {"running", "done"} =>
        /\ before \ rows \subseteq gone \cup {root}
        /\ outcome = "running" => queue \in Seq(waiting)

\* A cascade from waiting leads to rows of gone, and stays in waiting.
Closed(roots, waiting, gone) ==
    /\ roots \subseteq waiting
    /\ \A h \in waiting : \A k \in KeysTo[h] :
          k.ondelete = "cascade" => k.from \in gone /\ k.from \in waiting

LEMMA CascadeStaysWithin ==
    ASSUME NEW roots, NEW waiting, NEW gone, Closed(roots, waiting, gone),
           Within(roots, waiting, gone), [Next]_vars
    PROVE  Within(roots, waiting, gone)'
<1>1. ASSUME UNCHANGED deleteVars
      PROVE  Within(roots, waiting, gone)'
  BY <1>1 DEF deleteVars, Within
<1>2. ASSUME outcome' \notin {"running", "done"}
      PROVE  Within(roots, waiting, gone)'
  BY <1>2 DEF Within
<1>3. ASSUME NEW t \in rows, Delete(t)
      PROVE  Within(roots, waiting, gone)'
  <2>1. t \in rows /\ root' = t /\ before' = rows
    BY <1>3 DEF Delete
  <2>2. CASE DeletionRefused(t)
    BY <1>2, <1>3, <2>2 DEF Delete
  <2>3. CASE ~DeletionRefused(t)
    <3>1. rows' = rows \ {t} /\ queue' = <<t>>
      BY <1>3, <2>3 DEF Delete
    <3>2. t \in roots => queue' \in Seq(waiting)
      BY <3>1 DEF Closed
    <3> QED
      BY <2>1, <3>1, <3>2 DEF Within
  <2> QED
    BY <2>2, <2>3
<1>4. ASSUME RunKey
      PROVE  Within(roots, waiting, gone)'
  <2>1. outcome = "running" /\ queue # <<>> /\ UNCHANGED <<before, root>>
    BY <1>4 DEF RunKey
  <2>2. PICK key \in FirstOf(Referring(Head(queue))) :
           \/ \E reason \in {"restrict", "trigger", "set_null"} : Refuse(reason)
           \/ /\ key.ondelete = "cascade"
              /\ rows' = rows \ {key.from} /\ queue' = Append(queue, key.from)
           \/ UNCHANGED <<rows, queue>>
    BY <1>4 DEF RunKey
  <2>3. CASE \E reason \in {"restrict", "trigger", "set_null"} : Refuse(reason)
    BY <1>2, <2>3 DEF Refuse
  <2>4. CASE /\ key.ondelete = "cascade"
             /\ rows' = rows \ {key.from} /\ queue' = Append(queue, key.from)
    <3> SUFFICES ASSUME root \in roots
                 PROVE  before \ rows' \subseteq gone \cup {root} /\ queue' \in Seq(waiting)
      BY <2>1 DEF Within
    <3>1. before \ rows \subseteq gone \cup {root} /\ queue \in Seq(waiting)
      BY <2>1 DEF Within
    <3>2. Head(queue) \in waiting
      BY <2>1, <3>1
    <3>3. key \in KeysTo[Head(queue)]
      BY DEF FirstOf, Referring
    <3>4. key.from \in gone /\ key.from \in waiting
      BY <2>4, <3>2, <3>3 DEF Closed
    <3> QED
      BY <2>4, <3>1, <3>4
  <2>5. CASE UNCHANGED <<rows, queue>>
    BY <2>1, <2>5 DEF Within
  <2> QED
    BY <2>2, <2>3, <2>4, <2>5
<1>5. ASSUME Return
      PROVE  Within(roots, waiting, gone)'
  <2>1. /\ outcome = "running" /\ queue # <<>> /\ queue' = Tail(queue)
        /\ UNCHANGED <<rows, before, root>>
    BY <1>5 DEF Return
  <2>2. queue \in Seq(waiting) => queue' \in Seq(waiting)
    BY <2>1
  <2> QED
    BY <2>1, <2>2 DEF Within
<1>6. ASSUME NEW leaves, NEW optional, NEW kept, Load(leaves, optional, kept)
      PROVE  Within(roots, waiting, gone)'
  BY <1>2, <1>6 DEF Load, Idle
<1>7. ASSUME Discard
      PROVE  Within(roots, waiting, gone)'
  BY <1>2, <1>7 DEF Discard
<1> QED
  BY <1>1, <1>3, <1>4, <1>5, <1>6, <1>7, NextCases
     DEF SchemaNext, Upgrade, Downgrade, Migrate, database, vars

\* What was loaded can be traced to what it was loaded from: a deletion of a
\* source, of a batch or of a staging record reaches none of the canonical
\* tables nor the facts, however deep the cascade goes, because their keys to
\* each of the tables it does reach restrict.
THEOREM CanonicalOriginIsKept == Spec => []CanonicalKeepsItsOrigin
<1> DEFINE Roots == {"data_sources", "import_batches", "staging_records"}
           Reached == OriginTables \cap TableNames
<1>1. Closed(Roots, Reached, Reached)
  <2>1. Roots \subseteq Reached
    BY NamedTables DEF OriginTables
  <2>2. ASSUME NEW h \in Reached, NEW k \in KeysTo[h], k.ondelete = "cascade"
        PROVE  k.from \in Reached
    <3>1. k # CurrentVersion
      BY <2>2 DEF CurrentVersion, KeyOf, MaybeRef, ForeignKey
    <3>2. PICK ref \in Row(k.from).refs : k = KeyOf(k.from, ref) /\ ref.to = h
      BY <3>1, KeyIsOfItsTable
    <3>3. k.from \in TableNames
      BY <3>1, KeyIsOfItsTable
    <3>4. ref.ondelete = "cascade"
      BY <2>2, <3>2 DEF KeyOf
    <3> QED
      BY <3>2, <3>3, <3>4, RowOfName DEF Holds, Stays
  <2> QED
    BY <2>1, <2>2 DEF Closed
<1>2. Reached \cap {"canonical_products", "canonical_sales", "canonical_suppliers",
                    "canonical_purchase_orders", "canonical_stock_balances",
                    "analytics_facts"} = {}
  BY DEF OriginTables
<1>3. Init => Within(Roots, Reached, Reached)
  BY DEF Init, SchemaInit, Within
<1>4. Within(Roots, Reached, Reached) /\ [Next]_vars => Within(Roots, Reached, Reached)'
  <2> HIDE DEF Roots, Reached
  <2> QED
    BY <1>1, CascadeStaysWithin
<1>5. Within(Roots, Reached, Reached) => CanonicalKeepsItsOrigin
  <2>1. Roots \subseteq Reached
    BY <1>1 DEF Closed
  <2> QED
    BY <1>2, <2>1 DEF Within, CanonicalKeepsItsOrigin
<1> QED
  BY <1>3, <1>4, <1>5, PTL DEF Spec

\* What an evaluation found outlives every parent it has but its tenant (0005
\* and its tests of the operational history): whatever the population, a DELETE
\* of another row that goes through takes no other row of the history with it,
\* directly or by a cascade of any depth, and none leads to a tenant.
THEOREM HistoryOutlivesItsParents == Spec => []HistorySurvivesItsParents
<1> DEFINE Waiting == TableNames \ {"tenants"}
           Gone == TableNames \ OperationalHistory
<1>1. Closed(Waiting, Waiting, Gone)
  <2>1. ASSUME NEW h \in Waiting, NEW k \in KeysTo[h], k.ondelete = "cascade"
        PROVE  k.from \in Gone /\ k.from \in Waiting
    <3>1. k # CurrentVersion
      BY <2>1 DEF CurrentVersion, KeyOf, MaybeRef, ForeignKey
    <3>2. PICK ref \in Row(k.from).refs : k = KeyOf(k.from, ref) /\ ref.to = h
      BY <3>1, KeyIsOfItsTable
    <3>3. k.from \in TableNames
      BY <3>1, KeyIsOfItsTable
    <3>4. ref.ondelete = "cascade"
      BY <2>1, <3>2 DEF KeyOf
    <3>5. Row(k.from).name = k.from /\ Guards(Row(k.from))
      BY <3>3, RowOfName DEF Holds
    <3> QED
      BY <3>2, <3>3, <3>4, <3>5 DEF Guards
  <2> QED
    BY <2>1 DEF Closed
<1>2. Init => Within(Waiting, Waiting, Gone)
  BY DEF Init, SchemaInit, Within
<1>3. Within(Waiting, Waiting, Gone) /\ [Next]_vars => Within(Waiting, Waiting, Gone)'
  <2> HIDE DEF Waiting, Gone
  <2> QED
    BY <1>1, CascadeStaysWithin
<1>4. RootInv /\ Within(Waiting, Waiting, Gone) => HistorySurvivesItsParents
  BY DEF Within, HistorySurvivesItsParents, RootInv
<1> QED
  BY <1>2, <1>3, <1>4, RootInvariant, PTL DEF Spec

----------------------------------------------------------------------------
(* The erasure of a tenant.                                                *)

\* The rows that the deletion of a tenant leaves: a system role, which is no
\* tenant's, and its permissions among them.
Spared == Outside \cup (IF linked THEN {} ELSE {"roles", "role_permissions"})

\* A DELETE clears only keys that are SET NULL and may be NULL.
ClearedInv == \A k \in cleared : k.ondelete = "set_null" /\ ~ClearingRefused(k)

LEMMA ClearedInvariant == Spec => []ClearedInv
<1>1. Init => ClearedInv
  BY DEF Init, SchemaInit, ClearedInv
<1>2. ClearedInv /\ [Next]_vars => ClearedInv'
  <2> SUFFICES ASSUME ClearedInv, [Next]_vars
               PROVE  ClearedInv'
    OBVIOUS
  <2>1. ASSUME UNCHANGED cleared
        PROVE  ClearedInv'
    BY <2>1 DEF ClearedInv
  <2>2. ASSUME RunKey
        PROVE  ClearedInv'
    <3>1. \/ cleared' \in {cleared, {}}
          \/ \E key : key.ondelete = "set_null" /\ ~ClearingRefused(key) /\ cleared' = cleared \cup {key}
      BY <2>2 DEF RunKey, Refuse
    <3> QED
      BY <3>1 DEF ClearedInv
  <2>3. ASSUME Discard
        PROVE  ClearedInv'
    BY <2>3 DEF Discard, ClearedInv
  <2> QED
    BY <2>1, <2>2, <2>3, NextCases
       DEF SchemaNext, Upgrade, Downgrade, Migrate, Load, Delete, Return, deleteVars, database, vars
<1> QED
  BY <1>1, <1>2, PTL DEF Spec

\* A file under retention is there until its tenant is gone.  The DELETE of a
\* tenant runs the keys to the tenant first; from then on no row of the tenant
\* is left, so that no RESTRICT between two of them is ever met.
FileIsKept == retained => "imported_files" \in rows
TenantsKeysFirst == Head(queue) = "tenants" \/ Referring("tenants") = {}
Erasing == /\ rows \subseteq before /\ (before \ rows) \cap Spared = {} /\ FileIsKept
ErasureInv ==
    /\ outcome = "none" => FileIsKept
    /\ root = "tenants" =>
         /\ outcome = "running" => /\ Erasing /\ TenantsKeysFirst
                                   /\ queue \in Seq(TableNames \ Spared) /\ queue # <<>>
         /\ outcome = "done" => Erasing /\ Referring("tenants") = {}
         /\ outcome \notin {"none", "running", "done"} => Protected

\* Once the keys to the tenant have run no row is left whose tenant_id is set.
LEMMA RowsOfTenantAreGone ==
    ASSUME ClearedInv, RowsInv, Referring("tenants") = {}, NEW t \in rows
    PROVE  /\ Row(t).tenancy # "required"
           /\ linked => t \notin {"audit_events", "diagnostic_rule_definitions"}
<1>1. t \in TableNames
  BY DEF RowsInv
<1>2. ASSUME Row(t).tenancy = "required"
      PROVE  FALSE
  <2>1. PICK k : k = KeyOf(t, Ref("tenants", "cascade"))
    OBVIOUS
  <2>2. k.from = t /\ k.ondelete = "cascade" /\ k.optional = FALSE
    BY <2>1 DEF KeyOf, Ref, ForeignKey
  <2>3. k \in KeysTo["tenants"] /\ k \notin cleared
    BY <1>1, <1>2, <2>1, <2>2, TenantKey DEF ClearedInv
  <2> QED
    BY <2>2, <2>3 DEF Referring
<1>3. ASSUME linked, NEW ref \in Row(t).refs, ref.to = "tenants",
             ref.ondelete = "cascade" \/ t = "audit_events"
      PROVE  FALSE
  <2>1. PICK k : k = KeyOf(t, ref)
    OBVIOUS
  <2>2. k.from = t /\ k.ondelete = ref.ondelete
    BY <2>1 DEF KeyOf
  <2>3. k \notin cleared
    BY <1>3, <2>2 DEF ClearedInv, ClearingRefused
  <2>4. k \in KeysTo["tenants"]
    BY <1>1, <1>3, <2>1, NamedTables, ReferenceMakesKey
  <2> QED
    BY <1>3, <2>2, <2>3, <2>4 DEF Referring
<1>4. ASSUME linked, t \in {"audit_events", "diagnostic_rule_definitions"}
      PROVE  FALSE
  <2>1. Row(t).name = t /\ Yields(Row(t))
    BY <1>1, RowOfName DEF Holds
  <2>2. PICK ref \in Row(t).refs : /\ ref.to = "tenants"
                                   /\ ref.ondelete = "cascade" \/ t = "audit_events"
    <3>1. /\ MaybeRef("tenants", "set_null").to = "tenants"
          /\ MaybeRef("tenants", "cascade").to = "tenants"
          /\ MaybeRef("tenants", "cascade").ondelete = "cascade"
      BY DEF MaybeRef, ForeignKey
    <3> QED
      BY <1>4, <2>1, <3>1 DEF Yields
  <2> QED
    BY <1>3, <1>4, <2>2
<1> QED
  BY <1>2, <1>4

\* What the trigger of a key does in the DELETE of a tenant: it restricts
\* nothing, it takes no spared row along, and only what is protected refuses.
LEMMA ErasureMeetsNoRestriction ==
    ASSUME ClearedInv, RowsInv, rows \subseteq before, TenantsKeysFirst,
           queue \in Seq(TableNames \ Spared), queue # <<>>,
           NEW k \in Referring(Head(queue))
    PROVE  /\ k.ondelete # "restrict"
           /\ k.ondelete = "cascade" =>
                /\ k.from \in TableNames \ Spared
                /\ DeletionRefused(k.from) => retained
           /\ k.ondelete = "set_null" /\ ClearingRefused(k) => Protected
<1>1. PICK h \in TableNames : h = Head(queue) /\ h \notin Spared
  OBVIOUS
<1>2. k \in KeysTo[h] /\ k.from \in rows /\ (k.optional => linked)
  BY <1>1 DEF Referring
<1>3. h = "tenants" \/ Referring("tenants") = {}
  BY <1>1 DEF TenantsKeysFirst
<1>4. CASE k = CurrentVersion
  <2>1. /\ k.from = "diagnostic_rule_definitions" /\ k.to = "diagnostic_rule_versions"
        /\ k.optional = TRUE
    BY <1>4 DEF CurrentVersion, KeyOf, MaybeRef, ForeignKey
  <2>2. h # "tenants"
    BY <1>2, <2>1 DEF KeysTo
  <2> QED
    BY <1>2, <1>3, <2>1, <2>2, RowsOfTenantAreGone
<1>5. CASE k # CurrentVersion
  <2>1. PICK t \in TableNames : t = k.from
    BY <1>2, <1>5, KeyIsOfItsTable
  <2>2. PICK ref \in Row(t).refs : k = KeyOf(t, ref) /\ ref.to = h
    BY <1>2, <1>5, <2>1, KeyIsOfItsTable
  <2>3. k.ondelete = ref.ondelete /\ k.scoped = ref.scoped /\ k.optional = ref.optional
    BY <2>2 DEF KeyOf
  <2>4. Row(t).name = t /\ Yields(Row(t))
    BY RowOfName DEF Holds
  <2>5. h \notin Outside /\ (~linked => h \notin {"roles", "role_permissions"})
    BY <1>1 DEF Spared
  <2>6. h # "tenants" => Row(t).tenancy # "required"
    BY <1>2, <1>3, <2>1, RowsOfTenantAreGone
  <2>7. ASSUME k.ondelete = "restrict"
        PROVE  FALSE
    BY <2>2, <2>3, <2>4, <2>5, <2>6, <2>7 DEF Yields
  <2>8. ASSUME k.ondelete = "cascade"
        PROVE  t \notin Spared /\ (DeletionRefused(t) => retained)
    <3>1. t \notin Outside /\ t # "audit_events"
      BY <2>2, <2>3, <2>4, <2>5, <2>8 DEF Yields
    <3>2. t \in {"roles", "role_permissions"} => linked
      <4>1. t = "roles" => linked
        BY <1>2, <2>2, <2>3, <2>4 DEF Yields
      <4>2. t = "role_permissions" => linked
        BY <2>2, <2>4, <2>5 DEF Yields, Outside
      <4> QED
        BY <4>1, <4>2
    <3>3. t \notin Spared
      BY <3>1, <3>2 DEF Spared
    <3> QED
      BY <3>1, <3>2, <3>3 DEF DeletionRefused
  <2>9. ASSUME k.ondelete = "set_null", ClearingRefused(k)
        PROVE  Protected
    <3>1. CASE t = "audit_events"
      <4>1. linked /\ "audit_events" \in before
        BY <1>2, <2>1, <2>2, <2>3, <2>4, <3>1 DEF Yields
      <4> QED
        BY <4>1 DEF Protected
    <3>2. CASE t # "audit_events"
      <4>1. ref.scoped
        BY <2>1, <2>3, <2>9, <3>2 DEF ClearingRefused
      <4> QED
        BY <2>2, <2>3, <2>4, <2>6, <2>9, <4>1 DEF Yields
    <3> QED
      BY <3>1, <3>2
  <2> QED
    BY <2>1, <2>7, <2>8, <2>9
<1> QED
  BY <1>4, <1>5

LEMMA ErasureInvariant == Spec => []ErasureInv
<1>1. Init => ErasureInv
  BY DEF Init, SchemaInit, ErasureInv, FileIsKept, NoTable
<1>2. ErasureInv /\ ClearedInv /\ RowsInv /\ [Next]_vars => ErasureInv'
  <2> SUFFICES ASSUME ErasureInv, ClearedInv, RowsInv, [Next]_vars
               PROVE  ErasureInv'
    OBVIOUS
  <2>1. ASSUME UNCHANGED deleteVars
        PROVE  ErasureInv'
    BY <2>1 DEF deleteVars, ErasureInv, FileIsKept, Erasing, Spared, TenantsKeysFirst, Referring,
       Protected
  <2>2. ASSUME NEW leaves, NEW optional, NEW kept, Load(leaves, optional, kept)
        PROVE  ErasureInv'
    BY <2>2 DEF Load, Idle, ErasureInv, FileIsKept
  <2>3. ASSUME NEW t \in rows, Delete(t)
        PROVE  ErasureInv'
    <3>1. /\ outcome = "none" /\ root' = t /\ before' = rows /\ UNCHANGED <<linked, retained>>
          /\ FileIsKept /\ outcome' \in {"trigger", "running"}
      BY <2>3 DEF Delete, Idle, ErasureInv
    <3>2. CASE t # "tenants"
      BY <3>1, <3>2 DEF ErasureInv
    <3>3. CASE t = "tenants"
      <4>1. ~DeletionRefused(t)
        BY <3>3 DEF DeletionRefused
      <4>2. outcome' = "running" /\ rows' = rows \ {"tenants"} /\ queue' = <<"tenants">>
        BY <2>3, <3>3, <4>1 DEF Delete
      <4>3. "tenants" \notin Spared /\ Spared' = Spared
        BY <3>1 DEF Spared, Outside
      <4>4. Erasing'
        BY <3>1, <4>2, <4>3 DEF Erasing, FileIsKept
      <4>5. TenantsKeysFirst' /\ queue' # <<>>
        BY <4>2 DEF TenantsKeysFirst
      <4>6. queue' \in Seq(TableNames \ Spared')
        BY <4>2, <4>3, NamedTables
      <4> QED
        BY <4>2, <4>4, <4>5, <4>6 DEF ErasureInv
    <3> QED
      BY <3>2, <3>3
  <2>4. ASSUME RunKey
        PROVE  ErasureInv'
    <3>1. /\ outcome = "running" /\ queue # <<>> /\ UNCHANGED <<before, linked, retained, root>>
      BY <2>4 DEF RunKey
    <3>2. CASE root # "tenants"
      <4>1. outcome' # "none"
        BY <2>4, <3>1 DEF RunKey, Refuse
      <4> QED
        BY <3>1, <3>2, <4>1 DEF ErasureInv
    <3>3. CASE root = "tenants"
      <4>1. /\ Erasing /\ TenantsKeysFirst /\ queue \in Seq(TableNames \ Spared)
            /\ rows \subseteq before
        BY <3>1, <3>3 DEF ErasureInv, Erasing
      <4>2. PICK key \in Referring(Head(queue)) :
               \/ key.ondelete = "restrict" /\ Refuse("restrict")
               \/ key.ondelete = "cascade" /\ DeletionRefused(key.from) /\ Refuse("trigger")
               \/ /\ key.ondelete = "cascade" /\ ~DeletionRefused(key.from)
                  /\ rows' = rows \ {key.from} /\ queue' = Append(queue, key.from)
                  /\ UNCHANGED <<cleared, outcome>>
               \/ key.ondelete = "set_null" /\ ClearingRefused(key) /\ Refuse("set_null")
               \/ cleared' = cleared \cup {key} /\ UNCHANGED <<rows, queue, outcome>>
        BY <2>4 DEF RunKey, FirstOf
      <4>3. /\ key.ondelete # "restrict"
            /\ key.ondelete = "cascade" =>
                 /\ key.from \in TableNames \ Spared
                 /\ DeletionRefused(key.from) => retained
            /\ key.ondelete = "set_null" /\ ClearingRefused(key) => Protected
        BY <3>1, <4>1, ErasureMeetsNoRestriction
      <4>4. Spared' = Spared /\ Protected' = Protected
        BY <3>1 DEF Spared, Protected
      <4>5. CASE /\ key.ondelete = "cascade" /\ ~DeletionRefused(key.from)
                 /\ rows' = rows \ {key.from} /\ queue' = Append(queue, key.from)
                 /\ UNCHANGED <<cleared, outcome>>
        <5>1. key.from \in TableNames \ Spared
          BY <4>3, <4>5
        <5>2. (before \ rows') \cap Spared = {} /\ rows' \subseteq before
          BY <4>1, <4>5, <5>1 DEF Erasing
        <5>3. retained => "imported_files" \in rows'
          BY <4>1, <4>5 DEF Erasing, FileIsKept, DeletionRefused
        <5>4. Erasing'
          BY <3>1, <4>4, <5>2, <5>3 DEF Erasing, FileIsKept
        <5>5. Referring("tenants")' \subseteq Referring("tenants")
          BY <3>1, <4>5, ReferringShrinks
        <5>6. /\ queue' \in Seq(TableNames \ Spared) /\ queue' # <<>>
              /\ Head(queue') = Head(queue)
          BY <3>1, <4>1, <4>5, <5>1
        <5>7. TenantsKeysFirst'
          BY <4>1, <5>5, <5>6 DEF TenantsKeysFirst
        <5> QED
          BY <3>1, <4>4, <4>5, <5>4, <5>6, <5>7 DEF ErasureInv
      <4>6. CASE cleared' = cleared \cup {key} /\ UNCHANGED <<rows, queue, outcome>>
        <5>1. Referring("tenants")' \subseteq Referring("tenants")
          BY <3>1, <4>6, ReferringShrinks
        <5>2. TenantsKeysFirst'
          BY <4>1, <4>6, <5>1 DEF TenantsKeysFirst
        <5>3. Erasing'
          BY <3>1, <4>1, <4>4, <4>6 DEF Erasing, FileIsKept
        <5> QED
          BY <3>1, <4>1, <4>4, <4>6, <5>2, <5>3 DEF ErasureInv
      <4>7. ASSUME outcome' \notin {"none", "running", "done"}, Protected
            PROVE  ErasureInv'
        BY <4>4, <4>7 DEF ErasureInv
      <4>8. retained => Protected
        BY DEF Protected
      <4> QED
        BY <4>2, <4>3, <4>5, <4>6, <4>7, <4>8 DEF Refuse
    <3> QED
      BY <3>2, <3>3
  <2>5. ASSUME Return
        PROVE  ErasureInv'
    <3>1. /\ outcome = "running" /\ queue # <<>> /\ Referring(Head(queue)) = {}
          /\ queue' = Tail(queue) /\ outcome' = IF queue' = <<>> THEN "done" ELSE "running"
          /\ UNCHANGED <<rows, before, linked, retained, root, cleared>>
      BY <2>5 DEF Return
    <3>2. CASE root # "tenants"
      BY <3>1, <3>2 DEF ErasureInv
    <3>3. CASE root = "tenants"
      <4>1. Erasing /\ TenantsKeysFirst /\ queue \in Seq(TableNames \ Spared)
        BY <3>1, <3>3 DEF ErasureInv
      <4>2. Referring("tenants") = {}
        BY <3>1, <4>1 DEF TenantsKeysFirst
      <4>3. Referring("tenants")' = {}
        BY <3>1, <4>2 DEF Referring
      <4>4. Spared' = Spared
        BY <3>1 DEF Spared
      <4>5. Erasing'
        BY <3>1, <4>1, <4>4 DEF Erasing, FileIsKept
      <4>6. queue' \in Seq(TableNames \ Spared)
        BY <3>1, <4>1
      <4> QED
        BY <3>1, <4>3, <4>4, <4>5, <4>6 DEF ErasureInv, TenantsKeysFirst
    <3> QED
      BY <3>2, <3>3
  <2>6. ASSUME Discard
        PROVE  ErasureInv'
    BY <2>6 DEF Discard, ErasureInv, FileIsKept, NoTable
  <2> QED
    BY <2>1, <2>2, <2>3, <2>4, <2>5, <2>6, NextCases
       DEF SchemaNext, Upgrade, Downgrade, Migrate, database, vars
<1> QED
  BY <1>1, <1>2, ClearedInvariant, RowsInvariant, PTL DEF Spec

\* The deletion of a tenant that goes through takes every row with its
\* tenant_id along: each table of a tenant has a key to tenants that is set and
\* cascades, and the triggers run until no row refers to the tenant.
THEOREM TenantErasureIsComplete == Spec => []ErasureIsComplete
<1>1. ErasureInv /\ ClearedInv /\ RowsInv => ErasureIsComplete
  BY RowsOfTenantAreGone DEF ErasureInv, ErasureIsComplete
<1> QED
  BY <1>1, ErasureInvariant, ClearedInvariant, RowsInvariant, PTL

\* The deletion of a tenant goes through exactly when no audit event names the
\* tenant and no file of it is under retention: the RESTRICT keys between its
\* own rows do not stand in its way, and what is protected always does.
THEOREM TenantsAreErasable == Spec => []TenantsCanBeErased
<1>1. ErasureInv /\ ClearedInv /\ RowsInv => TenantsCanBeErased
  <2> SUFFICES ASSUME ErasureInv, ClearedInv, RowsInv, root = "tenants",
                      outcome \notin {"none", "running"}
               PROVE  outcome = "done" <=> ~Protected
    BY DEF TenantsCanBeErased
  <2>1. ASSUME outcome = "done", Protected
        PROVE  FALSE
    <3>1. /\ Referring("tenants") = {} /\ (before \ rows) \cap Spared = {}
          /\ (retained => "imported_files" \in rows)
      BY <2>1 DEF ErasureInv, Erasing, FileIsKept
    <3>2. CASE retained
      <4>1. "imported_files" \in rows /\ "imported_files" \in TableNames
        BY <3>1, <3>2 DEF RowsInv
      <4>2. Row("imported_files").tenancy = "required"
        BY <4>1, RowOfName DEF Holds, Yields
      <4> QED
        BY <3>1, <4>1, <4>2, RowsOfTenantAreGone
    <3>3. CASE linked /\ "audit_events" \in before
      <4>1. "audit_events" \in Spared
        BY DEF Spared, Outside
      <4>2. "audit_events" \in rows
        BY <3>1, <3>3, <4>1
      <4> QED
        BY <3>1, <3>3, <4>2, RowsOfTenantAreGone
    <3> QED
      BY <2>1, <3>2, <3>3 DEF Protected
  <2>2. outcome # "done" => Protected
    BY DEF ErasureInv
  <2> QED
    BY <2>1, <2>2
<1> QED
  BY <1>1, ErasureInvariant, ClearedInvariant, RowsInvariant, PTL

----------------------------------------------------------------------------
(* Migrations: the tables by their number and by their height.             *)

\* The number of a table in the order of creation.
Number == [
    users |-> 1, user_profiles |-> 2, email_verification_tokens |-> 3,
    password_reset_tokens |-> 4, tenants |-> 5, economic_groups |-> 6, companies |-> 7,
    branches |-> 8, memberships |-> 9, teams |-> 10, team_memberships |-> 11,
    permissions |-> 12, roles |-> 13, role_permissions |-> 14, role_assignments |-> 15,
    sessions |-> 16, security_events |-> 17, authentication_attempts |-> 18,
    invitations |-> 19, terms_versions |-> 20, consent_records |-> 21,
    onboarding_progress |-> 22, audit_events |-> 23, connector_definitions |-> 24,
    canonical_brands |-> 25, canonical_categories |-> 26, canonical_manufacturers |-> 27,
    integration_outbox_events |-> 28, processing_leases |-> 29,
    processing_state_transitions |-> 30, quality_rules |-> 31, credential_references |-> 32,
    connector_instances |-> 33, data_sources |-> 34, integration_inbox_messages |-> 35,
    mapping_profiles |-> 36, sync_cursors |-> 37, webhook_receipts |-> 38,
    mapping_versions |-> 39, field_mappings |-> 40, import_batches |-> 41,
    canonical_promotions |-> 42, imported_files |-> 43, processing_statistics |-> 44,
    quality_results |-> 45, staging_records |-> 46, sync_executions |-> 47,
    canonical_products |-> 48, canonical_sales |-> 49, canonical_suppliers |-> 50,
    integration_dead_letters |-> 51, landing_manifests |-> 52, lineage_events |-> 53,
    processing_errors |-> 54, processing_steps |-> 55, rejected_records |-> 56,
    sync_attempts |-> 57, sync_checkpoints |-> 58, canonical_inventory_lots |-> 59,
    canonical_product_identifiers |-> 60, canonical_product_presentations |-> 61,
    canonical_product_prices |-> 62, canonical_promotion_products |-> 63,
    canonical_purchase_orders |-> 64, canonical_sale_adjustments |-> 65,
    canonical_sale_items |-> 66, canonical_sale_payments |-> 67,
    canonical_stock_balances |-> 68, canonical_stock_snapshots |-> 69,
    canonical_supplier_identifiers |-> 70, canonical_supplier_products |-> 71,
    canonical_inventory_movements |-> 72, canonical_purchase_items |-> 73,
    canonical_purchase_receipts |-> 74, canonical_supplier_costs |-> 75,
    analytics_dimensions |-> 76, analytics_facts |-> 77, analytics_daily_aggregates |-> 78,
    analytics_kpi_definition_versions |-> 79, analytics_kpi_results |-> 80,
    analytics_refresh_jobs |-> 81, analytics_data_versions |-> 82, analytics_lineage |-> 83,
    analytics_goals |-> 84, analytics_goal_history |-> 85,
    diagnostic_action_catalog_snapshots |-> 86, diagnostic_action_catalog_entries |-> 87,
    diagnostic_rule_definitions |-> 88, diagnostic_rule_versions |-> 89,
    diagnostic_evaluation_runs |-> 90, diagnostic_rule_configurations |-> 91,
    diagnostic_findings |-> 92, diagnostic_suppressions |-> 93,
    diagnostic_action_recommendations |-> 94, diagnostic_evidences |-> 95,
    diagnostic_hypotheses |-> 96, diagnostic_incidents |-> 97,
    diagnostic_hypothesis_evidences |-> 98, diagnostic_incident_memberships |-> 99]
Names == DOMAIN Number

\* downgrade() drops a table before the ones of a smaller height: in the reverse
\* order of creation, but for the order of its own that 0005 has.
LastDropped == [
    diagnostic_action_catalog_snapshots |-> 1, diagnostic_rule_definitions |-> 2,
    diagnostic_rule_versions |-> 3, diagnostic_action_catalog_entries |-> 4,
    diagnostic_evaluation_runs |-> 5, diagnostic_rule_configurations |-> 6,
    diagnostic_findings |-> 7, diagnostic_evidences |-> 8, diagnostic_hypotheses |-> 9,
    diagnostic_action_recommendations |-> 10, diagnostic_suppressions |-> 11,
    diagnostic_incidents |-> 12, diagnostic_hypothesis_evidences |-> 13,
    diagnostic_incident_memberships |-> 14]
Height == [t \in Names |->
              IF t \in DOMAIN LastDropped THEN 85 + LastDropped[t] ELSE Number[t]]

\* A table refers to what is created before it, or to itself.
Placed(table) ==
    /\ table.name \in Names
    /\ \A ref \in table.refs :
         ref.to \in Names /\ (ref.to = table.name \/ Number[ref.to] < Number[table.name])

\* A table of 0005 refers to what is dropped after it.
Outlived(table) ==
    \A ref \in table.refs :
        ref.to \in DOMAIN LastDropped /\ ref.to # table.name =>
            LastDropped[ref.to] < LastDropped[table.name]

\* The tables without an owner, or with an optional one, that a key by identifier
\* alone may refer to.
Platform == {
    "users", "tenants", "roles", "audit_events", "connector_definitions", "quality_rules",
    "diagnostic_action_catalog_entries", "diagnostic_rule_definitions",
    "diagnostic_rule_versions"}

\* A key of a row of a tenant by identifier alone leads to the platform.
Separate(table) ==
    /\ table.name \in Platform => table.tenancy # "required"
    /\ table.tenancy = "required" =>
         \A ref \in table.refs :
             ref.scoped \/ ref.to \in Platform \/ <<table.name, ref.to>> \in ById

\* What the lists of the migrations say of a table: its number, that it comes
\* after what it refers to, that a row of a tenant stays with its tenant, and
\* that the policies of its migration cover it.
At(table, i) == Number[table.name] = i /\ Placed(table)
Kept(table, policies) ==
    Separate(table) /\ (table.tenancy # "none" => table.name \in policies)

LEMMA IdentityTablesNumbered ==
    \A i \in DOMAIN IdentityTables : At(IdentityTables[i], i)
<1>1. /\ At(users, 1) /\ At(user_profiles, 2) /\ At(email_verification_tokens, 3)
  BY SMTT(30) DEF At, Placed, Names, Number, users, user_profiles, email_verification_tokens, Owned,
         Shared, Global, Ref, MaybeRef, TenantRef, MaybeTenantRef, ForeignKey
<1>2. /\ At(password_reset_tokens, 4) /\ At(tenants, 5) /\ At(economic_groups, 6)
  BY SMTT(30) DEF At, Placed, Names, Number, password_reset_tokens, tenants, economic_groups, Owned,
         Shared, Global, Ref, MaybeRef, TenantRef, MaybeTenantRef, ForeignKey
<1>3. /\ At(companies, 7) /\ At(branches, 8) /\ At(memberships, 9)
  BY SMTT(30) DEF At, Placed, Names, Number, companies, branches, memberships, Owned, Shared, Global,
         Ref, MaybeRef, TenantRef, MaybeTenantRef, ForeignKey
<1>4. /\ At(teams, 10) /\ At(team_memberships, 11) /\ At(permissions, 12)
  BY SMTT(30) DEF At, Placed, Names, Number, teams, team_memberships, permissions, Owned, Shared,
         Global, Ref, MaybeRef, TenantRef, MaybeTenantRef, ForeignKey
<1>5. /\ At(roles, 13) /\ At(role_permissions, 14) /\ At(role_assignments, 15)
  BY SMTT(30) DEF At, Placed, Names, Number, roles, role_permissions, role_assignments, Owned,
         Shared, Global, Ref, MaybeRef, TenantRef, MaybeTenantRef, ForeignKey
<1>6. /\ At(sessions, 16) /\ At(security_events, 17) /\ At(authentication_attempts, 18)
  BY SMTT(30) DEF At, Placed, Names, Number, sessions, security_events, authentication_attempts,
         Owned, Shared, Global, Ref, MaybeRef, TenantRef, MaybeTenantRef, ForeignKey
<1>7. /\ At(invitations, 19) /\ At(terms_versions, 20) /\ At(consent_records, 21)
  BY SMTT(30) DEF At, Placed, Names, Number, invitations, terms_versions, consent_records, Owned,
         Shared, Global, Ref, MaybeRef, TenantRef, MaybeTenantRef, ForeignKey
<1>8. /\ At(onboarding_progress, 22) /\ At(audit_events, 23)
  BY SMTT(30) DEF At, Placed, Names, Number, onboarding_progress, audit_events, Owned, Shared,
         Global, Ref, MaybeRef, TenantRef, MaybeTenantRef, ForeignKey
<1> QED
  BY <1>1, <1>2, <1>3, <1>4, <1>5, <1>6, <1>7, <1>8 DEF IdentityTables

LEMMA IdentityTablesKept ==
    \A i \in DOMAIN IdentityTables : Kept(IdentityTables[i], IdentityPolicies)
<1>1. /\ Kept(users, IdentityPolicies) /\ Kept(user_profiles, IdentityPolicies)
      /\ Kept(email_verification_tokens, IdentityPolicies)
      /\ Kept(password_reset_tokens, IdentityPolicies) /\ Kept(tenants, IdentityPolicies)
      /\ Kept(economic_groups, IdentityPolicies) /\ Kept(companies, IdentityPolicies)
      /\ Kept(branches, IdentityPolicies) /\ Kept(memberships, IdentityPolicies)
      /\ Kept(teams, IdentityPolicies)
  BY SMTT(30) DEF Kept, Separate, Platform, ById, IdentityPolicies, users, user_profiles,
         email_verification_tokens, password_reset_tokens, tenants, economic_groups,
         companies, branches, memberships, teams, Owned, Shared, Global, Ref, MaybeRef,
         TenantRef, MaybeTenantRef, ForeignKey
<1>2. /\ Kept(team_memberships, IdentityPolicies) /\ Kept(permissions, IdentityPolicies)
      /\ Kept(roles, IdentityPolicies) /\ Kept(role_permissions, IdentityPolicies)
      /\ Kept(role_assignments, IdentityPolicies) /\ Kept(sessions, IdentityPolicies)
      /\ Kept(security_events, IdentityPolicies)
      /\ Kept(authentication_attempts, IdentityPolicies)
      /\ Kept(invitations, IdentityPolicies) /\ Kept(terms_versions, IdentityPolicies)
  BY SMTT(30) DEF Kept, Separate, Platform, ById, IdentityPolicies, team_memberships, permissions,
         roles, role_permissions, role_assignments, sessions, security_events,
         authentication_attempts, invitations, terms_versions, Owned, Shared, Global, Ref,
         MaybeRef, TenantRef, MaybeTenantRef, ForeignKey
<1>3. /\ Kept(consent_records, IdentityPolicies)
      /\ Kept(onboarding_progress, IdentityPolicies) /\ Kept(audit_events, IdentityPolicies)
  BY SMTT(30) DEF Kept, Separate, Platform, ById, IdentityPolicies, consent_records,
         onboarding_progress, audit_events, Owned, Shared, Global, Ref, MaybeRef, TenantRef,
         MaybeTenantRef, ForeignKey
<1> QED
  BY <1>1, <1>2, <1>3 DEF IdentityTables

LEMMA CanonicalTablesNumbered ==
    \A i \in DOMAIN CanonicalTables : At(CanonicalTables[i], 23 + i)
<1>1. /\ At(connector_definitions, 24) /\ At(canonical_brands, 25)
      /\ At(canonical_categories, 26)
  BY SMTT(30) DEF At, Placed, Names, Number, connector_definitions, canonical_brands,
         canonical_categories, Owned, Shared, Global, Ref, MaybeRef, TenantRef,
         MaybeTenantRef, ForeignKey
<1>2. /\ At(canonical_manufacturers, 27) /\ At(integration_outbox_events, 28)
      /\ At(processing_leases, 29)
  BY SMTT(30) DEF At, Placed, Names, Number, canonical_manufacturers, integration_outbox_events,
         processing_leases, Owned, Shared, Global, Ref, MaybeRef, TenantRef, MaybeTenantRef,
         ForeignKey
<1>3. /\ At(processing_state_transitions, 30) /\ At(quality_rules, 31)
      /\ At(credential_references, 32)
  BY SMTT(30) DEF At, Placed, Names, Number, processing_state_transitions, quality_rules,
         credential_references, Owned, Shared, Global, Ref, MaybeRef, TenantRef,
         MaybeTenantRef, ForeignKey
<1>4. /\ At(connector_instances, 33) /\ At(data_sources, 34)
      /\ At(integration_inbox_messages, 35)
  BY SMTT(30) DEF At, Placed, Names, Number, connector_instances, data_sources,
         integration_inbox_messages, Owned, Shared, Global, Ref, MaybeRef, TenantRef,
         MaybeTenantRef, ForeignKey
<1>5. /\ At(mapping_profiles, 36) /\ At(sync_cursors, 37) /\ At(webhook_receipts, 38)
  BY SMTT(30) DEF At, Placed, Names, Number, mapping_profiles, sync_cursors, webhook_receipts, Owned,
         Shared, Global, Ref, MaybeRef, TenantRef, MaybeTenantRef, ForeignKey
<1>6. /\ At(mapping_versions, 39) /\ At(field_mappings, 40) /\ At(import_batches, 41)
  BY SMTT(30) DEF At, Placed, Names, Number, mapping_versions, field_mappings, import_batches, Owned,
         Shared, Global, Ref, MaybeRef, TenantRef, MaybeTenantRef, ForeignKey
<1>7. /\ At(canonical_promotions, 42) /\ At(imported_files, 43)
      /\ At(processing_statistics, 44)
  BY SMTT(30) DEF At, Placed, Names, Number, canonical_promotions, imported_files,
         processing_statistics, Owned, Shared, Global, Ref, MaybeRef, TenantRef,
         MaybeTenantRef, ForeignKey
<1>8. /\ At(quality_results, 45) /\ At(staging_records, 46) /\ At(sync_executions, 47)
  BY SMTT(30) DEF At, Placed, Names, Number, quality_results, staging_records, sync_executions,
         Owned, Shared, Global, Ref, MaybeRef, TenantRef, MaybeTenantRef, ForeignKey
<1>9. /\ At(canonical_products, 48) /\ At(canonical_sales, 49)
      /\ At(canonical_suppliers, 50)
  BY SMTT(30) DEF At, Placed, Names, Number, canonical_products, canonical_sales,
         canonical_suppliers, Owned, Shared, Global, Ref, MaybeRef, TenantRef,
         MaybeTenantRef, ForeignKey
<1>10. /\ At(integration_dead_letters, 51) /\ At(landing_manifests, 52)
      /\ At(lineage_events, 53)
  BY SMTT(30) DEF At, Placed, Names, Number, integration_dead_letters, landing_manifests,
         lineage_events, Owned, Shared, Global, Ref, MaybeRef, TenantRef, MaybeTenantRef,
         ForeignKey
<1>11. /\ At(processing_errors, 54) /\ At(processing_steps, 55) /\ At(rejected_records, 56)
  BY SMTT(30) DEF At, Placed, Names, Number, processing_errors, processing_steps, rejected_records,
         Owned, Shared, Global, Ref, MaybeRef, TenantRef, MaybeTenantRef, ForeignKey
<1>12. /\ At(sync_attempts, 57) /\ At(sync_checkpoints, 58)
      /\ At(canonical_inventory_lots, 59)
  BY SMTT(30) DEF At, Placed, Names, Number, sync_attempts, sync_checkpoints,
         canonical_inventory_lots, Owned, Shared, Global, Ref, MaybeRef, TenantRef,
         MaybeTenantRef, ForeignKey
<1>13. /\ At(canonical_product_identifiers, 60) /\ At(canonical_product_presentations, 61)
      /\ At(canonical_product_prices, 62)
  BY SMTT(30) DEF At, Placed, Names, Number, canonical_product_identifiers,
         canonical_product_presentations, canonical_product_prices, Owned, Shared, Global,
         Ref, MaybeRef, TenantRef, MaybeTenantRef, ForeignKey
<1>14. /\ At(canonical_promotion_products, 63) /\ At(canonical_purchase_orders, 64)
      /\ At(canonical_sale_adjustments, 65)
  BY SMTT(30) DEF At, Placed, Names, Number, canonical_promotion_products, canonical_purchase_orders,
         canonical_sale_adjustments, Owned, Shared, Global, Ref, MaybeRef, TenantRef,
         MaybeTenantRef, ForeignKey
<1>15. /\ At(canonical_sale_items, 66) /\ At(canonical_sale_payments, 67)
      /\ At(canonical_stock_balances, 68)
  BY SMTT(30) DEF At, Placed, Names, Number, canonical_sale_items, canonical_sale_payments,
         canonical_stock_balances, Owned, Shared, Global, Ref, MaybeRef, TenantRef,
         MaybeTenantRef, ForeignKey
<1>16. /\ At(canonical_stock_snapshots, 69) /\ At(canonical_supplier_identifiers, 70)
      /\ At(canonical_supplier_products, 71)
  BY SMTT(30) DEF At, Placed, Names, Number, canonical_stock_snapshots,
         canonical_supplier_identifiers, canonical_supplier_products, Owned, Shared, Global,
         Ref, MaybeRef, TenantRef, MaybeTenantRef, ForeignKey
<1>17. /\ At(canonical_inventory_movements, 72) /\ At(canonical_purchase_items, 73)
      /\ At(canonical_purchase_receipts, 74)
  BY SMTT(30) DEF At, Placed, Names, Number, canonical_inventory_movements, canonical_purchase_items,
         canonical_purchase_receipts, Owned, Shared, Global, Ref, MaybeRef, TenantRef,
         MaybeTenantRef, ForeignKey
<1>18. /\ At(canonical_supplier_costs, 75)
  BY SMTT(30) DEF At, Placed, Names, Number, canonical_supplier_costs, Owned, Shared, Global, Ref,
         MaybeRef, TenantRef, MaybeTenantRef, ForeignKey
<1> QED
  BY <1>1, <1>2, <1>3, <1>4, <1>5, <1>6, <1>7, <1>8, <1>9, <1>10, <1>11, <1>12, <1>13, <1>14, <1>15, <1>16, <1>17, <1>18 DEF CanonicalTables

LEMMA CanonicalTablesKept ==
    \A i \in DOMAIN CanonicalTables : Kept(CanonicalTables[i], CanonicalPolicies)
<1>1. /\ Kept(connector_definitions, CanonicalPolicies)
      /\ Kept(canonical_brands, CanonicalPolicies)
      /\ Kept(canonical_categories, CanonicalPolicies)
      /\ Kept(canonical_manufacturers, CanonicalPolicies)
      /\ Kept(integration_outbox_events, CanonicalPolicies)
      /\ Kept(processing_leases, CanonicalPolicies)
      /\ Kept(processing_state_transitions, CanonicalPolicies)
      /\ Kept(quality_rules, CanonicalPolicies)
      /\ Kept(credential_references, CanonicalPolicies)
      /\ Kept(connector_instances, CanonicalPolicies)
  BY SMTT(30) DEF Kept, Separate, Platform, ById, CanonicalPolicies, connector_definitions,
         canonical_brands, canonical_categories, canonical_manufacturers,
         integration_outbox_events, processing_leases, processing_state_transitions,
         quality_rules, credential_references, connector_instances, Owned, Shared, Global,
         Ref, MaybeRef, TenantRef, MaybeTenantRef, ForeignKey
<1>2. /\ Kept(data_sources, CanonicalPolicies)
      /\ Kept(integration_inbox_messages, CanonicalPolicies)
      /\ Kept(mapping_profiles, CanonicalPolicies) /\ Kept(sync_cursors, CanonicalPolicies)
      /\ Kept(webhook_receipts, CanonicalPolicies)
      /\ Kept(mapping_versions, CanonicalPolicies)
      /\ Kept(field_mappings, CanonicalPolicies) /\ Kept(import_batches, CanonicalPolicies)
      /\ Kept(canonical_promotions, CanonicalPolicies)
      /\ Kept(imported_files, CanonicalPolicies)
  BY SMTT(30) DEF Kept, Separate, Platform, ById, CanonicalPolicies, data_sources,
         integration_inbox_messages, mapping_profiles, sync_cursors, webhook_receipts,
         mapping_versions, field_mappings, import_batches, canonical_promotions,
         imported_files, Owned, Shared, Global, Ref, MaybeRef, TenantRef, MaybeTenantRef,
         ForeignKey
<1>3. /\ Kept(processing_statistics, CanonicalPolicies)
      /\ Kept(quality_results, CanonicalPolicies)
      /\ Kept(staging_records, CanonicalPolicies)
      /\ Kept(sync_executions, CanonicalPolicies)
      /\ Kept(canonical_products, CanonicalPolicies)
      /\ Kept(canonical_sales, CanonicalPolicies)
      /\ Kept(canonical_suppliers, CanonicalPolicies)
      /\ Kept(integration_dead_letters, CanonicalPolicies)
      /\ Kept(landing_manifests, CanonicalPolicies)
      /\ Kept(lineage_events, CanonicalPolicies)
  BY SMTT(30) DEF Kept, Separate, Platform, ById, CanonicalPolicies, processing_statistics,
         quality_results, staging_records, sync_executions, canonical_products,
         canonical_sales, canonical_suppliers, integration_dead_letters, landing_manifests,
         lineage_events, Owned, Shared, Global, Ref, MaybeRef, TenantRef, MaybeTenantRef,
         ForeignKey
<1>4. /\ Kept(processing_errors, CanonicalPolicies)
      /\ Kept(processing_steps, CanonicalPolicies)
      /\ Kept(rejected_records, CanonicalPolicies) /\ Kept(sync_attempts, CanonicalPolicies)
      /\ Kept(sync_checkpoints, CanonicalPolicies)
      /\ Kept(canonical_inventory_lots, CanonicalPolicies)
      /\ Kept(canonical_product_identifiers, CanonicalPolicies)
      /\ Kept(canonical_product_presentations, CanonicalPolicies)
      /\ Kept(canonical_product_prices, CanonicalPolicies)
      /\ Kept(canonical_promotion_products, CanonicalPolicies)
  BY SMTT(30) DEF Kept, Separate, Platform, ById, CanonicalPolicies, processing_errors,
         processing_steps, rejected_records, sync_attempts, sync_checkpoints,
         canonical_inventory_lots, canonical_product_identifiers,
         canonical_product_presentations, canonical_product_prices,
         canonical_promotion_products, Owned, Shared, Global, Ref, MaybeRef, TenantRef,
         MaybeTenantRef, ForeignKey
<1>5. /\ Kept(canonical_purchase_orders, CanonicalPolicies)
      /\ Kept(canonical_sale_adjustments, CanonicalPolicies)
      /\ Kept(canonical_sale_items, CanonicalPolicies)
      /\ Kept(canonical_sale_payments, CanonicalPolicies)
      /\ Kept(canonical_stock_balances, CanonicalPolicies)
      /\ Kept(canonical_stock_snapshots, CanonicalPolicies)
      /\ Kept(canonical_supplier_identifiers, CanonicalPolicies)
      /\ Kept(canonical_supplier_products, CanonicalPolicies)
      /\ Kept(canonical_inventory_movements, CanonicalPolicies)
      /\ Kept(canonical_purchase_items, CanonicalPolicies)
  BY SMTT(30) DEF Kept, Separate, Platform, ById, CanonicalPolicies, canonical_purchase_orders,
         canonical_sale_adjustments, canonical_sale_items, canonical_sale_payments,
         canonical_stock_balances, canonical_stock_snapshots,
         canonical_supplier_identifiers, canonical_supplier_products,
         canonical_inventory_movements, canonical_purchase_items, Owned, Shared, Global,
         Ref, MaybeRef, TenantRef, MaybeTenantRef, ForeignKey
<1>6. /\ Kept(canonical_purchase_receipts, CanonicalPolicies)
      /\ Kept(canonical_supplier_costs, CanonicalPolicies)
  BY SMTT(30) DEF Kept, Separate, Platform, ById, CanonicalPolicies, canonical_purchase_receipts,
         canonical_supplier_costs, Owned, Shared, Global, Ref, MaybeRef, TenantRef,
         MaybeTenantRef, ForeignKey
<1> QED
  BY <1>1, <1>2, <1>3, <1>4, <1>5, <1>6 DEF CanonicalTables

LEMMA AnalyticsTablesNumbered ==
    \A i \in DOMAIN AnalyticsTables : At(AnalyticsTables[i], 75 + i)
<1>1. /\ At(analytics_dimensions, 76) /\ At(analytics_facts, 77)
      /\ At(analytics_daily_aggregates, 78)
  BY SMTT(30) DEF At, Placed, Names, Number, analytics_dimensions, analytics_facts,
         analytics_daily_aggregates, Owned, Shared, Global, Ref, MaybeRef, TenantRef,
         MaybeTenantRef, ForeignKey
<1>2. /\ At(analytics_kpi_definition_versions, 79) /\ At(analytics_kpi_results, 80)
      /\ At(analytics_refresh_jobs, 81)
  BY SMTT(30) DEF At, Placed, Names, Number, analytics_kpi_definition_versions,
         analytics_kpi_results, analytics_refresh_jobs, Owned, Shared, Global, Ref,
         MaybeRef, TenantRef, MaybeTenantRef, ForeignKey
<1>3. /\ At(analytics_data_versions, 82) /\ At(analytics_lineage, 83)
      /\ At(analytics_goals, 84)
  BY SMTT(30) DEF At, Placed, Names, Number, analytics_data_versions, analytics_lineage,
         analytics_goals, Owned, Shared, Global, Ref, MaybeRef, TenantRef, MaybeTenantRef,
         ForeignKey
<1>4. /\ At(analytics_goal_history, 85)
  BY SMTT(30) DEF At, Placed, Names, Number, analytics_goal_history, Owned, Shared, Global, Ref,
         MaybeRef, TenantRef, MaybeTenantRef, ForeignKey
<1> QED
  BY <1>1, <1>2, <1>3, <1>4 DEF AnalyticsTables

LEMMA AnalyticsTablesKept ==
    \A i \in DOMAIN AnalyticsTables : Kept(AnalyticsTables[i], AnalyticsPolicies)
<1>1. /\ Kept(analytics_dimensions, AnalyticsPolicies)
      /\ Kept(analytics_facts, AnalyticsPolicies)
      /\ Kept(analytics_daily_aggregates, AnalyticsPolicies)
      /\ Kept(analytics_kpi_definition_versions, AnalyticsPolicies)
      /\ Kept(analytics_kpi_results, AnalyticsPolicies)
      /\ Kept(analytics_refresh_jobs, AnalyticsPolicies)
      /\ Kept(analytics_data_versions, AnalyticsPolicies)
      /\ Kept(analytics_lineage, AnalyticsPolicies)
      /\ Kept(analytics_goals, AnalyticsPolicies)
      /\ Kept(analytics_goal_history, AnalyticsPolicies)
  BY SMTT(30) DEF Kept, Separate, Platform, ById, AnalyticsPolicies, analytics_dimensions,
         analytics_facts, analytics_daily_aggregates, analytics_kpi_definition_versions,
         analytics_kpi_results, analytics_refresh_jobs, analytics_data_versions,
         analytics_lineage, analytics_goals, analytics_goal_history, Owned, Shared, Global,
         Ref, MaybeRef, TenantRef, MaybeTenantRef, ForeignKey
<1> QED
  BY <1>1 DEF AnalyticsTables

LEMMA DiagnosticTablesNumbered ==
    \A i \in DOMAIN DiagnosticTables : At(DiagnosticTables[i], 85 + i)
<1>1. /\ At(diagnostic_action_catalog_snapshots, 86)
      /\ At(diagnostic_action_catalog_entries, 87) /\ At(diagnostic_rule_definitions, 88)
  BY SMTT(30) DEF At, Placed, Names, Number, diagnostic_action_catalog_snapshots,
         diagnostic_action_catalog_entries, diagnostic_rule_definitions, Owned, Shared,
         Global, Ref, MaybeRef, TenantRef, MaybeTenantRef, ForeignKey
<1>2. /\ At(diagnostic_rule_versions, 89) /\ At(diagnostic_evaluation_runs, 90)
      /\ At(diagnostic_rule_configurations, 91)
  BY SMTT(30) DEF At, Placed, Names, Number, diagnostic_rule_versions, diagnostic_evaluation_runs,
         diagnostic_rule_configurations, Owned, Shared, Global, Ref, MaybeRef, TenantRef,
         MaybeTenantRef, ForeignKey
<1>3. /\ At(diagnostic_findings, 92) /\ At(diagnostic_suppressions, 93)
      /\ At(diagnostic_action_recommendations, 94)
  BY SMTT(30) DEF At, Placed, Names, Number, diagnostic_findings, diagnostic_suppressions,
         diagnostic_action_recommendations, Owned, Shared, Global, Ref, MaybeRef, TenantRef,
         MaybeTenantRef, ForeignKey
<1>4. /\ At(diagnostic_evidences, 95) /\ At(diagnostic_hypotheses, 96)
      /\ At(diagnostic_incidents, 97)
  BY SMTT(30) DEF At, Placed, Names, Number, diagnostic_evidences, diagnostic_hypotheses,
         diagnostic_incidents, Owned, Shared, Global, Ref, MaybeRef, TenantRef,
         MaybeTenantRef, ForeignKey
<1>5. /\ At(diagnostic_hypothesis_evidences, 98) /\ At(diagnostic_incident_memberships, 99)
  BY SMTT(30) DEF At, Placed, Names, Number, diagnostic_hypothesis_evidences,
         diagnostic_incident_memberships, Owned, Shared, Global, Ref, MaybeRef, TenantRef,
         MaybeTenantRef, ForeignKey
<1> QED
  BY <1>1, <1>2, <1>3, <1>4, <1>5 DEF DiagnosticTables

LEMMA DiagnosticTablesKept ==
    \A i \in DOMAIN DiagnosticTables : Kept(DiagnosticTables[i], DiagnosticPolicies)
<1>1. /\ Kept(diagnostic_action_catalog_snapshots, DiagnosticPolicies)
      /\ Kept(diagnostic_action_catalog_entries, DiagnosticPolicies)
      /\ Kept(diagnostic_rule_definitions, DiagnosticPolicies)
      /\ Kept(diagnostic_rule_versions, DiagnosticPolicies)
      /\ Kept(diagnostic_evaluation_runs, DiagnosticPolicies)
      /\ Kept(diagnostic_rule_configurations, DiagnosticPolicies)
      /\ Kept(diagnostic_findings, DiagnosticPolicies)
      /\ Kept(diagnostic_suppressions, DiagnosticPolicies)
      /\ Kept(diagnostic_action_recommendations, DiagnosticPolicies)
      /\ Kept(diagnostic_evidences, DiagnosticPolicies)
  BY SMTT(30) DEF Kept, Separate, Platform, ById, DiagnosticPolicies,
         diagnostic_action_catalog_snapshots, diagnostic_action_catalog_entries,
         diagnostic_rule_definitions, diagnostic_rule_versions, diagnostic_evaluation_runs,
         diagnostic_rule_configurations, diagnostic_findings, diagnostic_suppressions,
         diagnostic_action_recommendations, diagnostic_evidences, Owned, Shared, Global,
         Ref, MaybeRef, TenantRef, MaybeTenantRef, ForeignKey
<1>2. /\ Kept(diagnostic_hypotheses, DiagnosticPolicies)
      /\ Kept(diagnostic_incidents, DiagnosticPolicies)
      /\ Kept(diagnostic_hypothesis_evidences, DiagnosticPolicies)
      /\ Kept(diagnostic_incident_memberships, DiagnosticPolicies)
  BY SMTT(30) DEF Kept, Separate, Platform, ById, DiagnosticPolicies, diagnostic_hypotheses,
         diagnostic_incidents, diagnostic_hypothesis_evidences,
         diagnostic_incident_memberships, Owned, Shared, Global, Ref, MaybeRef, TenantRef,
         MaybeTenantRef, ForeignKey
<1> QED
  BY <1>1, <1>2 DEF DiagnosticTables

LEMMA DiagnosticTablesOutlived == \A i \in DOMAIN DiagnosticTables : Outlived(DiagnosticTables[i])
<1>1. /\ Outlived(diagnostic_action_catalog_snapshots)
      /\ Outlived(diagnostic_action_catalog_entries)
      /\ Outlived(diagnostic_rule_definitions) /\ Outlived(diagnostic_rule_versions)
      /\ Outlived(diagnostic_evaluation_runs) /\ Outlived(diagnostic_rule_configurations)
      /\ Outlived(diagnostic_findings)
  BY SMTT(30) DEF Outlived, LastDropped, diagnostic_action_catalog_snapshots,
         diagnostic_action_catalog_entries, diagnostic_rule_definitions,
         diagnostic_rule_versions, diagnostic_evaluation_runs,
         diagnostic_rule_configurations, diagnostic_findings, Owned, Shared, Global, Ref,
         MaybeRef, TenantRef, MaybeTenantRef, ForeignKey
<1>2. /\ Outlived(diagnostic_suppressions) /\ Outlived(diagnostic_action_recommendations)
      /\ Outlived(diagnostic_evidences) /\ Outlived(diagnostic_hypotheses)
      /\ Outlived(diagnostic_incidents) /\ Outlived(diagnostic_hypothesis_evidences)
      /\ Outlived(diagnostic_incident_memberships)
  BY SMTT(30) DEF Outlived, LastDropped, diagnostic_suppressions, diagnostic_action_recommendations,
         diagnostic_evidences, diagnostic_hypotheses, diagnostic_incidents,
         diagnostic_hypothesis_evidences, diagnostic_incident_memberships, Owned, Shared,
         Global, Ref, MaybeRef, TenantRef, MaybeTenantRef, ForeignKey
<1> QED
  BY <1>1, <1>2 DEF DiagnosticTables

----------------------------------------------------------------------------
(* Migrations: the lists of the five files.                                *)

\* downgrade() drops the tables in the reverse of the order in which they were
\* created.
LEMMA IdentityDropsReverse ==
    \A i \in DOMAIN IdentityTables : IdentityDrops[24 - i] = IdentityTables[i].name
<1>1. /\ users.name = "users" /\ user_profiles.name = "user_profiles"
      /\ email_verification_tokens.name = "email_verification_tokens"
      /\ password_reset_tokens.name = "password_reset_tokens" /\ tenants.name = "tenants"
      /\ economic_groups.name = "economic_groups" /\ companies.name = "companies"
      /\ branches.name = "branches" /\ memberships.name = "memberships"
      /\ teams.name = "teams" /\ team_memberships.name = "team_memberships"
      /\ permissions.name = "permissions" /\ roles.name = "roles"
      /\ role_permissions.name = "role_permissions"
      /\ role_assignments.name = "role_assignments" /\ sessions.name = "sessions"
      /\ security_events.name = "security_events"
      /\ authentication_attempts.name = "authentication_attempts"
      /\ invitations.name = "invitations" /\ terms_versions.name = "terms_versions"
  BY DEF users, user_profiles, email_verification_tokens, password_reset_tokens, tenants,
         economic_groups, companies, branches, memberships, teams, team_memberships,
         permissions, roles, role_permissions, role_assignments, sessions, security_events,
         authentication_attempts, invitations, terms_versions, Owned, Shared, Global
<1>2. /\ consent_records.name = "consent_records"
      /\ onboarding_progress.name = "onboarding_progress"
      /\ audit_events.name = "audit_events"
  BY DEF consent_records, onboarding_progress, audit_events, Owned, Shared, Global
<1> QED
  BY <1>1, <1>2 DEF IdentityTables, IdentityDrops

LEMMA CanonicalDropsReverse ==
    \A i \in DOMAIN CanonicalTables : CanonicalDrops[53 - i] = CanonicalTables[i].name
<1>1. /\ connector_definitions.name = "connector_definitions"
      /\ canonical_brands.name = "canonical_brands"
      /\ canonical_categories.name = "canonical_categories"
      /\ canonical_manufacturers.name = "canonical_manufacturers"
      /\ integration_outbox_events.name = "integration_outbox_events"
      /\ processing_leases.name = "processing_leases"
      /\ processing_state_transitions.name = "processing_state_transitions"
      /\ quality_rules.name = "quality_rules"
      /\ credential_references.name = "credential_references"
      /\ connector_instances.name = "connector_instances"
      /\ data_sources.name = "data_sources"
      /\ integration_inbox_messages.name = "integration_inbox_messages"
      /\ mapping_profiles.name = "mapping_profiles" /\ sync_cursors.name = "sync_cursors"
      /\ webhook_receipts.name = "webhook_receipts"
      /\ mapping_versions.name = "mapping_versions"
      /\ field_mappings.name = "field_mappings" /\ import_batches.name = "import_batches"
      /\ canonical_promotions.name = "canonical_promotions"
      /\ imported_files.name = "imported_files"
  BY DEF connector_definitions, canonical_brands, canonical_categories,
         canonical_manufacturers, integration_outbox_events, processing_leases,
         processing_state_transitions, quality_rules, credential_references,
         connector_instances, data_sources, integration_inbox_messages, mapping_profiles,
         sync_cursors, webhook_receipts, mapping_versions, field_mappings, import_batches,
         canonical_promotions, imported_files, Owned, Shared, Global
<1>2. /\ processing_statistics.name = "processing_statistics"
      /\ quality_results.name = "quality_results"
      /\ staging_records.name = "staging_records"
      /\ sync_executions.name = "sync_executions"
      /\ canonical_products.name = "canonical_products"
      /\ canonical_sales.name = "canonical_sales"
      /\ canonical_suppliers.name = "canonical_suppliers"
      /\ integration_dead_letters.name = "integration_dead_letters"
      /\ landing_manifests.name = "landing_manifests"
      /\ lineage_events.name = "lineage_events"
      /\ processing_errors.name = "processing_errors"
      /\ processing_steps.name = "processing_steps"
      /\ rejected_records.name = "rejected_records" /\ sync_attempts.name = "sync_attempts"
      /\ sync_checkpoints.name = "sync_checkpoints"
      /\ canonical_inventory_lots.name = "canonical_inventory_lots"
      /\ canonical_product_identifiers.name = "canonical_product_identifiers"
      /\ canonical_product_presentations.name = "canonical_product_presentations"
      /\ canonical_product_prices.name = "canonical_product_prices"
      /\ canonical_promotion_products.name = "canonical_promotion_products"
  BY DEF processing_statistics, quality_results, staging_records, sync_executions,
         canonical_products, canonical_sales, canonical_suppliers, integration_dead_letters,
         landing_manifests, lineage_events, processing_errors, processing_steps,
         rejected_records, sync_attempts, sync_checkpoints, canonical_inventory_lots,
         canonical_product_identifiers, canonical_product_presentations,
         canonical_product_prices, canonical_promotion_products, Owned, Shared, Global
<1>3. /\ canonical_purchase_orders.name = "canonical_purchase_orders"
      /\ canonical_sale_adjustments.name = "canonical_sale_adjustments"
      /\ canonical_sale_items.name = "canonical_sale_items"
      /\ canonical_sale_payments.name = "canonical_sale_payments"
      /\ canonical_stock_balances.name = "canonical_stock_balances"
      /\ canonical_stock_snapshots.name = "canonical_stock_snapshots"
      /\ canonical_supplier_identifiers.name = "canonical_supplier_identifiers"
      /\ canonical_supplier_products.name = "canonical_supplier_products"
      /\ canonical_inventory_movements.name = "canonical_inventory_movements"
      /\ canonical_purchase_items.name = "canonical_purchase_items"
      /\ canonical_purchase_receipts.name = "canonical_purchase_receipts"
      /\ canonical_supplier_costs.name = "canonical_supplier_costs"
  BY DEF canonical_purchase_orders, canonical_sale_adjustments, canonical_sale_items,
         canonical_sale_payments, canonical_stock_balances, canonical_stock_snapshots,
         canonical_supplier_identifiers, canonical_supplier_products,
         canonical_inventory_movements, canonical_purchase_items,
         canonical_purchase_receipts, canonical_supplier_costs, Owned, Shared, Global
<1> QED
  BY <1>1, <1>2, <1>3 DEF CanonicalTables, CanonicalDrops

LEMMA AnalyticsDropsReverse ==
    \A i \in DOMAIN AnalyticsTables : AnalyticsDrops[11 - i] = AnalyticsTables[i].name
<1>1. /\ analytics_dimensions.name = "analytics_dimensions"
      /\ analytics_facts.name = "analytics_facts"
      /\ analytics_daily_aggregates.name = "analytics_daily_aggregates"
      /\ analytics_kpi_definition_versions.name = "analytics_kpi_definition_versions"
      /\ analytics_kpi_results.name = "analytics_kpi_results"
      /\ analytics_refresh_jobs.name = "analytics_refresh_jobs"
      /\ analytics_data_versions.name = "analytics_data_versions"
      /\ analytics_lineage.name = "analytics_lineage"
      /\ analytics_goals.name = "analytics_goals"
      /\ analytics_goal_history.name = "analytics_goal_history"
  BY DEF analytics_dimensions, analytics_facts, analytics_daily_aggregates,
         analytics_kpi_definition_versions, analytics_kpi_results, analytics_refresh_jobs,
         analytics_data_versions, analytics_lineage, analytics_goals,
         analytics_goal_history, Owned, Shared, Global
<1> QED
  BY <1>1 DEF AnalyticsTables, AnalyticsDrops

\* 0005 has an order of its own.
LEMMA DiagnosticNames ==
    /\ \A i \in 1 .. 14 : /\ DiagnosticTables[i].name \in DOMAIN LastDropped
                          /\ DiagnosticDrops[i] \in DOMAIN LastDropped
                          /\ LastDropped[DiagnosticDrops[i]] = 15 - i
    /\ \A t \in DOMAIN LastDropped : /\ LastDropped[t] \in 1 .. 14
                                     /\ DiagnosticDrops[15 - LastDropped[t]] = t
    /\ \A t \in DOMAIN LastDropped : \E i \in 1 .. 14 : DiagnosticTables[i].name = t
<1>1. /\ diagnostic_action_catalog_snapshots.name = "diagnostic_action_catalog_snapshots"
      /\ diagnostic_action_catalog_entries.name = "diagnostic_action_catalog_entries"
      /\ diagnostic_rule_definitions.name = "diagnostic_rule_definitions"
      /\ diagnostic_rule_versions.name = "diagnostic_rule_versions"
      /\ diagnostic_evaluation_runs.name = "diagnostic_evaluation_runs"
      /\ diagnostic_rule_configurations.name = "diagnostic_rule_configurations"
      /\ diagnostic_findings.name = "diagnostic_findings"
      /\ diagnostic_suppressions.name = "diagnostic_suppressions"
      /\ diagnostic_action_recommendations.name = "diagnostic_action_recommendations"
      /\ diagnostic_evidences.name = "diagnostic_evidences"
      /\ diagnostic_hypotheses.name = "diagnostic_hypotheses"
      /\ diagnostic_incidents.name = "diagnostic_incidents"
      /\ diagnostic_hypothesis_evidences.name = "diagnostic_hypothesis_evidences"
      /\ diagnostic_incident_memberships.name = "diagnostic_incident_memberships"
  BY DEF diagnostic_action_catalog_snapshots, diagnostic_action_catalog_entries,
         diagnostic_rule_definitions, diagnostic_rule_versions, diagnostic_evaluation_runs,
         diagnostic_rule_configurations, diagnostic_findings, diagnostic_suppressions,
         diagnostic_action_recommendations, diagnostic_evidences, diagnostic_hypotheses,
         diagnostic_incidents, diagnostic_hypothesis_evidences,
         diagnostic_incident_memberships, Owned, Shared, Global
<1>2. \A i \in 1 .. 14 : /\ DiagnosticDrops[i] \in DOMAIN LastDropped
                         /\ LastDropped[DiagnosticDrops[i]] = 15 - i
  BY DEF DiagnosticDrops, LastDropped
<1>3. \A t \in DOMAIN LastDropped : /\ LastDropped[t] \in 1 .. 14
                                    /\ DiagnosticDrops[15 - LastDropped[t]] = t
  BY DEF DiagnosticDrops, LastDropped
<1>4. \A i \in 1 .. 14 : DiagnosticTables[i].name \in DOMAIN LastDropped
  BY <1>1 DEF DiagnosticTables, LastDropped
<1>5. \A t \in DOMAIN LastDropped : \E i \in 1 .. 14 : DiagnosticTables[i].name = t
  BY <1>1 DEF DiagnosticTables, LastDropped
<1> QED
  BY <1>2, <1>3, <1>4, <1>5

\* The four lists of drops name every table.
LEMMA NamesAreListed ==
    Names = (UNION {{IdentityDrops[i] : i \in 1 .. 23}, {CanonicalDrops[i] : i \in 1 .. 52}})
            \cup (UNION {{AnalyticsDrops[i] : i \in 1 .. 10}, DOMAIN LastDropped})
BY SMTT(60) DEF Names, Number, IdentityDrops, CanonicalDrops, AnalyticsDrops, LastDropped

LEMMA ConcatLength ==
    ASSUME NEW S, NEW a \in Seq(S), NEW b \in Seq(S), NEW c, c = Join(a, b)
    PROVE  c \in Seq(S) /\ Len(c) = Len(a) + Len(b)
BY DEF Join

\* The four lists make up the order of creation.
LEMMA CreationIndexes ==
    /\ DOMAIN CreationOrder = 1 .. 99
    /\ DOMAIN IdentityTables = 1 .. 23 /\ DOMAIN CanonicalTables = 1 .. 52
    /\ DOMAIN AnalyticsTables = 1 .. 10 /\ DOMAIN DiagnosticTables = 1 .. 14
    /\ \A i \in 1 .. 23 : CreationOrder[i] = IdentityTables[i]
    /\ \A i \in 1 .. 52 : CreationOrder[23 + i] = CanonicalTables[i]
    /\ \A i \in 1 .. 10 : CreationOrder[75 + i] = AnalyticsTables[i]
    /\ \A i \in 1 .. 14 : CreationOrder[85 + i] = DiagnosticTables[i]
<1> DEFINE S == (UNION {{IdentityTables[i] : i \in DOMAIN IdentityTables},
                        {CanonicalTables[i] : i \in DOMAIN CanonicalTables}})
                \cup (UNION {{AnalyticsTables[i] : i \in DOMAIN AnalyticsTables},
                             {DiagnosticTables[i] : i \in DOMAIN DiagnosticTables}})
<1>1. IdentityTables \in Seq(S) /\ CanonicalTables \in Seq(S)
  BY SMTT(30) DEF IdentityTables, CanonicalTables
<1>2. AnalyticsTables \in Seq(S) /\ DiagnosticTables \in Seq(S)
  BY DEF AnalyticsTables, DiagnosticTables
<1>3. Len(IdentityTables) = 23 /\ Len(CanonicalTables) = 52
  BY DEF IdentityTables, CanonicalTables
<1>4. Len(AnalyticsTables) = 10 /\ Len(DiagnosticTables) = 14
  BY DEF AnalyticsTables, DiagnosticTables
<1> HIDE DEF S
<1>5. PICK first : first = Join(IdentityTables, CanonicalTables)
  OBVIOUS
<1>6. /\ \A i \in 1 .. Len(IdentityTables) : first[i] = IdentityTables[i]
      /\ \A i \in 1 .. Len(CanonicalTables) :
           first[Len(IdentityTables) + i] = CanonicalTables[i]
  BY <1>1, <1>5, ConcatIndexes
<1>7. first \in Seq(S)
  BY <1>1, <1>5, ConcatLength
<1>8. Len(first) = 75
  <2>1. Len(first) = Len(IdentityTables) + Len(CanonicalTables)
    BY <1>1, <1>5, ConcatLength
  <2> QED
    BY <1>3, <2>1
<1>9. PICK next : next = Join(first, AnalyticsTables)
  OBVIOUS
<1>10. /\ \A i \in 1 .. Len(first) : next[i] = first[i]
       /\ \A i \in 1 .. Len(AnalyticsTables) : next[Len(first) + i] = AnalyticsTables[i]
  <2>1. first \in Seq(S) /\ AnalyticsTables \in Seq(S)
    BY <1>2, <1>7
  <2> QED
    BY <1>9, <2>1, ConcatIndexes
<1>11. next \in Seq(S)
  BY <1>2, <1>7, <1>9, ConcatLength
<1>12. Len(next) = 85
  <2>1. Len(next) = Len(first) + Len(AnalyticsTables)
    BY <1>2, <1>7, <1>9, ConcatLength
  <2> QED
    BY <1>4, <1>8, <2>1
<1>13. CreationOrder = Join(next, DiagnosticTables)
  BY <1>5, <1>9 DEF CreationOrder, Join
<1>14. /\ DOMAIN CreationOrder = 1 .. Len(next) + Len(DiagnosticTables)
       /\ \A i \in 1 .. Len(next) : CreationOrder[i] = next[i]
       /\ \A i \in 1 .. Len(DiagnosticTables) :
            CreationOrder[Len(next) + i] = DiagnosticTables[i]
  <2>1. next \in Seq(S) /\ DiagnosticTables \in Seq(S)
    BY <1>2, <1>11
  <2> QED
    BY <1>13, <2>1, ConcatIndexes
<1>15. /\ \A i \in 1 .. 23 : first[i] = IdentityTables[i]
       /\ \A i \in 1 .. 52 : first[23 + i] = CanonicalTables[i]
       /\ \A i \in 1 .. 75 : next[i] = first[i]
       /\ \A i \in 1 .. 10 : next[75 + i] = AnalyticsTables[i]
  BY <1>3, <1>4, <1>6, <1>8, <1>10
<1>16. /\ DOMAIN CreationOrder = 1 .. 99
       /\ \A i \in 1 .. 85 : CreationOrder[i] = next[i]
       /\ \A i \in 1 .. 14 : CreationOrder[85 + i] = DiagnosticTables[i]
  BY <1>4, <1>12, <1>14
<1>17. \A i \in 1 .. 75 : CreationOrder[i] = first[i]
  <2> TAKE i \in 1 .. 75
  <2>1. i \in 1 .. 85
    OBVIOUS
  <2> QED
    BY <2>1, <1>15, <1>16
<1>18. \A i \in 1 .. 10 : CreationOrder[75 + i] = AnalyticsTables[i]
  <2> TAKE i \in 1 .. 10
  <2>1. 75 + i \in 1 .. 85
    OBVIOUS
  <2> QED
    BY <2>1, <1>15, <1>16
<1>19. \A i \in 1 .. 23 : CreationOrder[i] = IdentityTables[i]
  <2> TAKE i \in 1 .. 23
  <2>1. i \in 1 .. 75
    OBVIOUS
  <2> QED
    BY <2>1, <1>15, <1>17
<1>20. \A i \in 1 .. 52 : CreationOrder[23 + i] = CanonicalTables[i]
  <2> TAKE i \in 1 .. 52
  <2>1. 23 + i \in 1 .. 75
    OBVIOUS
  <2> QED
    BY <2>1, <1>15, <1>17
<1>21. /\ DOMAIN IdentityTables = 1 .. 23 /\ DOMAIN CanonicalTables = 1 .. 52
       /\ DOMAIN AnalyticsTables = 1 .. 10 /\ DOMAIN DiagnosticTables = 1 .. 14
  BY <1>1, <1>2, <1>3, <1>4
<1> QED
  BY <1>16, <1>18, <1>19, <1>20, <1>21

\* A table of the list is of one of the four.
LEMMA FourLists ==
    ASSUME NEW i \in 1 .. 99
    PROVE  \/ i \in 1 .. 23
           \/ \E j \in 1 .. 52 : i = 23 + j
           \/ \E j \in 1 .. 10 : i = 75 + j
           \/ \E j \in 1 .. 14 : i = 85 + j
<1>1. CASE i <= 23
  BY <1>1
<1>2. CASE 23 < i /\ i <= 75
  <2>1. i - 23 \in 1 .. 52 /\ i = 23 + (i - 23)
    BY <1>2
  <2> QED
    BY <2>1
<1>3. CASE 75 < i /\ i <= 85
  <2>1. i - 75 \in 1 .. 10 /\ i = 75 + (i - 75)
    BY <1>3
  <2> QED
    BY <2>1
<1>4. CASE 85 < i
  <2>1. i - 85 \in 1 .. 14 /\ i = 85 + (i - 85)
    BY <1>4
  <2> QED
    BY <2>1
<1> QED
  BY <1>1, <1>2, <1>3, <1>4

\* A name stands for the table of its number.
LEMMA CreationNumbered ==
    /\ \A i \in 1 .. 99 : At(CreationOrder[i], i) /\ Separate(CreationOrder[i])
    /\ \A t \in Names : Number[t] \in 1 .. 99 /\ CreationOrder[Number[t]].name = t
    /\ TableNames = Names
<1>1. \A i \in 1 .. 99 : At(CreationOrder[i], i) /\ Separate(CreationOrder[i])
  <2> TAKE i \in 1 .. 99
  <2>1. CASE i \in 1 .. 23
    BY <2>1, CreationIndexes, IdentityTablesNumbered, IdentityTablesKept, SMTT(30) DEF Kept
  <2>2. ASSUME NEW j \in 1 .. 52, i = 23 + j
        PROVE  At(CreationOrder[i], i) /\ Separate(CreationOrder[i])
    BY <2>2, CreationIndexes, CanonicalTablesNumbered, CanonicalTablesKept DEF Kept
  <2>3. ASSUME NEW j \in 1 .. 10, i = 75 + j
        PROVE  At(CreationOrder[i], i) /\ Separate(CreationOrder[i])
    BY <2>3, CreationIndexes, AnalyticsTablesNumbered, AnalyticsTablesKept DEF Kept
  <2>4. ASSUME NEW j \in 1 .. 14, i = 85 + j
        PROVE  At(CreationOrder[i], i) /\ Separate(CreationOrder[i])
    BY <2>4, CreationIndexes, DiagnosticTablesNumbered, DiagnosticTablesKept DEF Kept
  <2> QED
    BY <2>1, <2>2, <2>3, <2>4, FourLists
<1>2. \A t \in Names : \E i \in 1 .. 99 : CreationOrder[i].name = t
  <2> TAKE t \in Names
  <2>1. ASSUME NEW i \in 1 .. 23, t = IdentityDrops[i]
        PROVE  \E j \in 1 .. 99 : CreationOrder[j].name = t
    <3>1. 24 - i \in 1 .. 23 /\ 24 - i \in 1 .. 99 /\ 24 - (24 - i) = i
      OBVIOUS
    <3> QED
      BY <2>1, <3>1, IdentityDropsReverse, CreationIndexes
  <2>2. ASSUME NEW i \in 1 .. 52, t = CanonicalDrops[i]
        PROVE  \E j \in 1 .. 99 : CreationOrder[j].name = t
    <3>1. 53 - i \in 1 .. 52 /\ 23 + (53 - i) \in 1 .. 99 /\ 53 - (53 - i) = i
      OBVIOUS
    <3> QED
      BY <2>2, <3>1, CanonicalDropsReverse, CreationIndexes
  <2>3. ASSUME NEW i \in 1 .. 10, t = AnalyticsDrops[i]
        PROVE  \E j \in 1 .. 99 : CreationOrder[j].name = t
    <3>1. 11 - i \in 1 .. 10 /\ 75 + (11 - i) \in 1 .. 99 /\ 11 - (11 - i) = i
      OBVIOUS
    <3> QED
      BY <2>3, <3>1, AnalyticsDropsReverse, CreationIndexes
  <2>4. ASSUME t \in DOMAIN LastDropped
        PROVE  \E j \in 1 .. 99 : CreationOrder[j].name = t
    <3>1. PICK i \in 1 .. 14 : DiagnosticTables[i].name = t
      BY <2>4, DiagnosticNames
    <3>2. 85 + i \in 1 .. 99
      OBVIOUS
    <3> QED
      BY <3>1, <3>2, CreationIndexes
  <2> QED
    BY <2>1, <2>2, <2>3, <2>4, NamesAreListed
<1>3. \A t \in Names : Number[t] \in 1 .. 99 /\ CreationOrder[Number[t]].name = t
  BY <1>1, <1>2, ZenonT(60) DEF At
<1>4. TableNames = Names
  <2>1. TableNames = {CreationOrder[i].name : i \in 1 .. 99}
    BY CreationIndexes DEF TableNames
  <2>2. \A i \in 1 .. 99 : CreationOrder[i].name \in Names
    BY <1>1 DEF At, Placed
  <2> QED
    BY <1>2, <2>1, <2>2
<1> QED
  BY <1>1, <1>3, <1>4

\* Row finds the table of a name.
LEMMA RowIsNumbered ==
    ASSUME NEW t \in TableNames
    PROVE  Row(t) = CreationOrder[Number[t]] /\ Row(t).name = t
           /\ Placed(Row(t)) /\ Separate(Row(t))
<1>1. Position[t] \in 1 .. 99 /\ CreationOrder[Position[t]].name = t
  BY CreationIndexes, ZenonT(60) DEF TableNames, Position
<1>2. Number[t] = Position[t]
  BY <1>1, CreationNumbered DEF At
<1> QED
  BY <1>1, <1>2, CreationNumbered DEF Row, At

\* The number of the last table of a revision.
LastNumber == [r \in 0 .. 5 |-> IF r = 0 THEN 0 ELSE IF r <= 2 THEN 23
                                ELSE IF r = 3 THEN 75 ELSE IF r = 4 THEN 85 ELSE 99]

\* The tables of a revision are those up to a number.
LEMMA TablesByNumber == \A r \in 0 .. 5 : TablesAt[r] = {t \in Names : Number[t] <= LastNumber[r]}
<1>1. TablesOf(IdentityTables) = {t \in Names : Number[t] <= 23}
  <2>1. \A i \in 1 .. 23 : At(IdentityTables[i], i)
    BY IdentityTablesNumbered, CreationIndexes
  <2>2. \A t \in Names : Number[t] <= 23 => Number[t] \in 1 .. 23 /\ IdentityTables[Number[t]].name = t
    BY CreationNumbered, CreationIndexes, SMTT(30)
  <2>4. TablesOf(IdentityTables) = {IdentityTables[i].name : i \in 1 .. 23}
    BY CreationIndexes DEF TablesOf
  <2>5. \A i \in 1 .. 23 : IdentityTables[i].name \in Names /\ Number[IdentityTables[i].name] = i
    BY <2>1 DEF At, Placed
  <2> QED
    BY <2>2, <2>4, <2>5, SMTT(30)
<1>2. TablesOf(CanonicalTables) = {t \in Names : 23 < Number[t] /\ Number[t] <= 75}
  <2>1. \A i \in 1 .. 52 : At(CanonicalTables[i], 23 + i)
    BY CanonicalTablesNumbered, CreationIndexes
  <2>2. ASSUME NEW t \in Names, 23 < Number[t], Number[t] <= 75
        PROVE  \E i \in 1 .. 52 : CanonicalTables[i].name = t
    <3>1. Number[t] \in 1 .. 99 /\ CreationOrder[Number[t]].name = t
      BY CreationNumbered
    <3>2. PICK i : i = Number[t] - 23
      OBVIOUS
    <3>3. i \in 1 .. 52 /\ Number[t] = 23 + i
      BY <2>2, <3>1, <3>2
    <3> QED
      BY <3>1, <3>3, CreationIndexes
  <2>3. \A i \in 1 .. 52 : 23 < 23 + i /\ 23 + i <= 75
    OBVIOUS
  <2>4. TablesOf(CanonicalTables) = {CanonicalTables[i].name : i \in 1 .. 52}
    BY CreationIndexes DEF TablesOf
  <2>5. \A i \in 1 .. 52 : CanonicalTables[i].name \in Names /\ Number[CanonicalTables[i].name] = 23 + i
    BY <2>1 DEF At, Placed
  <2>6. ASSUME NEW i \in 1 .. 52
        PROVE  CanonicalTables[i].name \in {t \in Names : 23 < Number[t] /\ Number[t] <= 75}
    BY <2>3, <2>5
  <2>7. \A t \in TablesOf(CanonicalTables) : \E i \in 1 .. 52 : t = CanonicalTables[i].name
    BY <2>4
  <2>8. TablesOf(CanonicalTables) \subseteq {t \in Names : 23 < Number[t] /\ Number[t] <= 75}
    BY <2>6, <2>7
  <2>9. {t \in Names : 23 < Number[t] /\ Number[t] <= 75} \subseteq TablesOf(CanonicalTables)
    BY <2>2, <2>4
  <2> QED
    BY <2>8, <2>9
<1>3. TablesOf(AnalyticsTables) = {t \in Names : 75 < Number[t] /\ Number[t] <= 85}
  <2>1. \A i \in 1 .. 10 : At(AnalyticsTables[i], 75 + i)
    BY AnalyticsTablesNumbered, CreationIndexes
  <2>2. ASSUME NEW t \in Names, 75 < Number[t], Number[t] <= 85
        PROVE  \E i \in 1 .. 10 : AnalyticsTables[i].name = t
    <3>1. Number[t] \in 1 .. 99 /\ CreationOrder[Number[t]].name = t
      BY CreationNumbered
    <3>2. PICK i : i = Number[t] - 75
      OBVIOUS
    <3>3. i \in 1 .. 10 /\ Number[t] = 75 + i
      BY <2>2, <3>1, <3>2
    <3> QED
      BY <3>1, <3>3, CreationIndexes
  <2>3. \A i \in 1 .. 10 : 75 < 75 + i /\ 75 + i <= 85
    OBVIOUS
  <2>4. TablesOf(AnalyticsTables) = {AnalyticsTables[i].name : i \in 1 .. 10}
    BY CreationIndexes DEF TablesOf
  <2>5. \A i \in 1 .. 10 : AnalyticsTables[i].name \in Names /\ Number[AnalyticsTables[i].name] = 75 + i
    BY <2>1 DEF At, Placed
  <2> QED
    BY <2>2, <2>3, <2>4, <2>5
<1>4. TablesOf(DiagnosticTables) = {t \in Names : 85 < Number[t] /\ Number[t] <= 99}
  <2>1. \A i \in 1 .. 14 : At(DiagnosticTables[i], 85 + i)
    BY DiagnosticTablesNumbered, CreationIndexes
  <2>2. ASSUME NEW t \in Names, 85 < Number[t], Number[t] <= 99
        PROVE  \E i \in 1 .. 14 : DiagnosticTables[i].name = t
    <3>1. Number[t] \in 1 .. 99 /\ CreationOrder[Number[t]].name = t
      BY CreationNumbered
    <3>2. PICK i : i = Number[t] - 85
      OBVIOUS
    <3>3. i \in 1 .. 14 /\ Number[t] = 85 + i
      BY <2>2, <3>1, <3>2
    <3> QED
      BY <3>1, <3>3, CreationIndexes
  <2>3. \A i \in 1 .. 14 : 85 < 85 + i /\ 85 + i <= 99
    OBVIOUS
  <2>4. TablesOf(DiagnosticTables) = {DiagnosticTables[i].name : i \in 1 .. 14}
    BY CreationIndexes DEF TablesOf
  <2>5. \A i \in 1 .. 14 : DiagnosticTables[i].name \in Names /\ Number[DiagnosticTables[i].name] = 85 + i
    BY <2>1 DEF At, Placed
  <2> QED
    BY <2>2, <2>3, <2>4, <2>5
<1>5. \A t \in Names : Number[t] \in 1 .. 99
  BY CreationNumbered
<1>6. Len(Upgrades) = 5
  BY DEF Upgrades
<1>7. /\ RevisionTables[1] = TablesOf(IdentityTables) /\ RevisionTables[2] = {}
      /\ RevisionTables[3] = TablesOf(CanonicalTables)
      /\ RevisionTables[4] = TablesOf(AnalyticsTables)
      /\ RevisionTables[5] = TablesOf(DiagnosticTables)
  BY DEF RevisionTables
<1>8. \A r \in 0 .. 5 : TablesAt[r] = UNION {RevisionTables[i] : i \in 1 .. r}
  BY <1>6 DEF TablesAt
<1>9. TablesAt[0] = {}
  <2>1. 1 .. 0 = {}
    OBVIOUS
  <2> QED
    BY <1>8, <2>1
<1>10. TablesAt[1] = RevisionTables[1]
  <2>1. 1 .. 1 = {1}
    OBVIOUS
  <2> QED
    BY <1>8, <2>1, SMTT(30)
<1>11. \A r \in 0 .. 4 : TablesAt[r + 1] = TablesAt[r] \cup RevisionTables[r + 1]
  <2> TAKE r \in 0 .. 4
  <2>1. 1 .. (r + 1) = 1 .. r \cup {r + 1} /\ r \in 0 .. 5 /\ r + 1 \in 0 .. 5
    OBVIOUS
  <2> QED
    BY <1>8, <2>1
<1>12. TablesAt[0] = {t \in Names : Number[t] <= 0}
  BY <1>5, <1>9
<1>13. TablesAt[1] = {t \in Names : Number[t] <= 23}
  BY <1>1, <1>7, <1>10
<1>14. TablesAt[2] = {t \in Names : Number[t] <= 23}
  <2>1. TablesAt[2] = TablesAt[1] \cup RevisionTables[2]
    BY <1>11
  <2> QED
    BY <1>7, <1>13, <2>1
<1>15. TablesAt[3] = {t \in Names : Number[t] <= 75}
  <2>1. TablesAt[3] = TablesAt[2] \cup RevisionTables[3]
    BY <1>11
  <2> QED
    BY <1>2, <1>5, <1>7, <1>14, <2>1
<1>16. TablesAt[4] = {t \in Names : Number[t] <= 85}
  <2>1. TablesAt[4] = TablesAt[3] \cup RevisionTables[4]
    BY <1>11
  <2> QED
    BY <1>3, <1>5, <1>7, <1>15, <2>1
<1>17. TablesAt[5] = {t \in Names : Number[t] <= 99}
  <2>1. TablesAt[5] = TablesAt[4] \cup RevisionTables[5]
    BY <1>11
  <2> QED
    BY <1>4, <1>5, <1>7, <1>16, <2>1
<1>18. /\ LastNumber[0] = 0 /\ LastNumber[1] = 23 /\ LastNumber[2] = 23
       /\ LastNumber[3] = 75 /\ LastNumber[4] = 85 /\ LastNumber[5] = 99
  BY DEF LastNumber
<1> QED
  BY <1>12, <1>13, <1>14, <1>15, <1>16, <1>17, <1>18

\* The policies of a migration are on its own tables, on all that a tenant has.
LEMMA PoliciesNumbered ==
    /\ \A t \in IdentityPolicies : t \in Names /\ Number[t] <= 23
    /\ \A t \in CanonicalPolicies : t \in Names /\ 23 < Number[t] /\ Number[t] <= 75
    /\ \A t \in AnalyticsPolicies : t \in Names /\ 75 < Number[t] /\ Number[t] <= 85
    /\ \A t \in DiagnosticPolicies : t \in Names /\ 85 < Number[t]
<1>1. \A t \in IdentityPolicies : t \in Names /\ Number[t] <= 23
  BY SMTT(60) DEF IdentityPolicies, Names, Number
<1>2. \A t \in CanonicalPolicies : t \in Names /\ 23 < Number[t] /\ Number[t] <= 75
  BY SMTT(60) DEF CanonicalPolicies, Names, Number
<1>3. \A t \in AnalyticsPolicies : t \in Names /\ 75 < Number[t] /\ Number[t] <= 85
  BY SMTT(60) DEF AnalyticsPolicies, Names, Number
<1>4. \A t \in DiagnosticPolicies : t \in Names /\ 85 < Number[t]
  BY SMTT(60) DEF DiagnosticPolicies, Names, Number
<1> QED
  BY <1>1, <1>2, <1>3, <1>4

\* What a tenant has is under a policy of the migration that creates it.
LEMMA TenantTablesGuarded ==
    ASSUME NEW t \in TenantTables
    PROVE  /\ t \in Names
           /\ Number[t] <= 23 => t \in IdentityPolicies
           /\ 23 < Number[t] /\ Number[t] <= 75 => t \in CanonicalPolicies
           /\ 75 < Number[t] /\ Number[t] <= 85 => t \in AnalyticsPolicies
           /\ 85 < Number[t] => t \in DiagnosticPolicies
<1>1. PICK i \in 1 .. 99 : i = Number[t] /\ t \in Names /\ CreationOrder[i].name = t
  BY CreationNumbered DEF TenantTables
<1>2. CreationOrder[i].tenancy # "none"
  BY <1>1, RowIsNumbered DEF TenantTables
<1>3. CASE i \in 1 .. 23
  BY <1>1, <1>2, <1>3, CreationIndexes, IdentityTablesKept DEF Kept
<1>4. ASSUME NEW j \in 1 .. 52, i = 23 + j
      PROVE  t \in CanonicalPolicies /\ 23 < i /\ i <= 75
  BY <1>1, <1>2, <1>4, CreationIndexes, CanonicalTablesKept, SMTT(30) DEF Kept
<1>5. ASSUME NEW j \in 1 .. 10, i = 75 + j
      PROVE  t \in AnalyticsPolicies /\ 75 < i /\ i <= 85
  BY <1>1, <1>2, <1>5, CreationIndexes, AnalyticsTablesKept DEF Kept
<1>6. ASSUME NEW j \in 1 .. 14, i = 85 + j
      PROVE  t \in DiagnosticPolicies /\ 85 < i
  BY <1>1, <1>2, <1>6, CreationIndexes, DiagnosticTablesKept DEF Kept
<1> QED
  BY <1>1, <1>3, <1>4, <1>5, <1>6, FourLists

\* The heights of the tables of 0001 to 0004 are their numbers.
LEMMA Heights ==
    /\ \A t \in Names : Number[t] <= 85 => Height[t] = Number[t]
    /\ \A t \in Names : 85 < Number[t] =>
         t \in DOMAIN LastDropped /\ Height[t] = 85 + LastDropped[t]
    /\ \A t \in DOMAIN LastDropped : t \in Names /\ 85 < Number[t] /\ LastDropped[t] \in 1 .. 14
<1>1. \A t \in DOMAIN LastDropped : t \in Names /\ 85 < Number[t] /\ LastDropped[t] \in 1 .. 14
  <2> TAKE t \in DOMAIN LastDropped
  <2>1. PICK i \in 1 .. 14 : DiagnosticTables[i].name = t
    BY DiagnosticNames
  <2>2. At(DiagnosticTables[i], 85 + i)
    BY DiagnosticTablesNumbered, CreationIndexes
  <2> QED
    BY <2>1, <2>2, DiagnosticNames DEF At, Placed
<1>2. ASSUME NEW t \in Names, 85 < Number[t]
      PROVE  t \in DOMAIN LastDropped
  <2>1. Number[t] \in 1 .. 99 /\ CreationOrder[Number[t]].name = t
    BY CreationNumbered
  <2>2. PICK i : i = Number[t] - 85
    OBVIOUS
  <2>3. i \in 1 .. 14 /\ Number[t] = 85 + i
    BY <1>2, <2>1, <2>2
  <2> QED
    BY <2>1, <2>3, CreationIndexes, DiagnosticNames
<1>3. ASSUME NEW t \in Names, Number[t] <= 85
      PROVE  t \notin DOMAIN LastDropped
  <2>1. Number[t] \in 1 .. 99
    BY CreationNumbered
  <2> QED
    BY <1>1, <1>3, <2>1
<1> QED
  BY <1>1, <1>2, <1>3 DEF Height

\* A key leads to a table that is created before and dropped after, or back.
LEMMA KeysNumbered ==
    ASSUME NEW k \in Keys, k # CurrentVersion
    PROVE  /\ k.from \in Names /\ k.to \in Names /\ Height[k.from] \in Nat /\ Height[k.to] \in Nat
           /\ k.to = k.from \/ Height[k.to] < Height[k.from]
<1>1. PICK t \in TableNames : k \in KeysOf(Row(t))
  BY DEF Keys
<1>2. PICK ref \in Row(t).refs : k = KeyOf(Row(t).name, ref)
  BY <1>1 DEF KeysOf
<1>3. k.from = t /\ k.to = ref.to
  BY <1>2, RowIsNumbered DEF KeyOf
<1>4. t \in Names /\ ref.to \in Names /\ (ref.to = t \/ Number[ref.to] < Number[t])
  BY RowIsNumbered, CreationNumbered DEF Placed
<1>5. PICK m \in 1 .. 99 : m = Number[t]
  BY <1>4, CreationNumbered
<1>6. PICK n \in 1 .. 99 : n = Number[ref.to]
  BY <1>4, CreationNumbered
<1>7. m <= 85 => Height[t] = m
  BY <1>4, <1>5, Heights
<1>8. n <= 85 => Height[ref.to] = n
  BY <1>4, <1>6, Heights
<1>9. 85 < m => \E p \in 1 .. 14 : t \in DOMAIN LastDropped /\ p = LastDropped[t] /\ Height[t] = 85 + p
  BY <1>4, <1>5, Heights
<1>10. 85 < n => \E p \in 1 .. 14 : /\ ref.to \in DOMAIN LastDropped /\ p = LastDropped[ref.to]
                                    /\ Height[ref.to] = 85 + p
  BY <1>4, <1>6, Heights
<1>11. Height[t] \in Nat /\ Height[ref.to] \in Nat
  BY <1>7, <1>8, <1>9, <1>10
<1>12. ASSUME n < m, ref.to # t
       PROVE  Height[ref.to] < Height[t]
  <2>1. CASE m <= 85
    BY <1>7, <1>8, <1>12, <2>1
  <2>2. CASE 85 < m /\ n <= 85
    BY <1>8, <1>9, <2>2
  <2>3. CASE 85 < m /\ 85 < n
    <3>1. t \in DOMAIN LastDropped /\ ref.to \in DOMAIN LastDropped
      BY <1>9, <1>10, <2>3
    <3>2. PICK i : i = m - 85
      OBVIOUS
    <3>3. i \in 1 .. 14 /\ m = 85 + i
      BY <2>3, <3>2
    <3>4. Row(t) = CreationOrder[m] /\ Row(t).name = t
      BY <1>5, RowIsNumbered
    <3>5. Row(t) = DiagnosticTables[i]
      BY <3>3, <3>4, CreationIndexes
    <3>6. Outlived(Row(t))
      BY <3>3, <3>5, DiagnosticTablesOutlived, CreationIndexes
    <3>7. LastDropped[ref.to] < LastDropped[t]
      BY <1>12, <3>1, <3>4, <3>6 DEF Outlived
    <3> QED
      BY <1>9, <1>10, <2>3, <3>7
  <2> QED
    BY <2>1, <2>2, <2>3
<1> QED
  BY <1>3, <1>4, <1>5, <1>6, <1>11, <1>12

\* downgrade() drops the tables of its revision by height, the highest first.
LEMMA DropsByHeight ==
    /\ \A i \in 1 .. 23 : IdentityDrops[i] \in Names /\ Height[IdentityDrops[i]] = 24 - i
    /\ \A i \in 1 .. 52 : CanonicalDrops[i] \in Names /\ Height[CanonicalDrops[i]] = 76 - i
    /\ \A i \in 1 .. 10 : AnalyticsDrops[i] \in Names /\ Height[AnalyticsDrops[i]] = 86 - i
    /\ \A i \in 1 .. 14 : DiagnosticDrops[i] \in Names /\ Height[DiagnosticDrops[i]] = 100 - i
<1>1. ASSUME NEW i \in 1 .. 23
      PROVE  IdentityDrops[i] \in Names /\ Height[IdentityDrops[i]] = 24 - i
  <2>1. PICK j : j = 24 - i
    OBVIOUS
  <2>2. j \in 1 .. 23 /\ i = 24 - j
    BY <2>1
  <2>3. IdentityDrops[i] = IdentityTables[j].name
    BY <2>2, IdentityDropsReverse, CreationIndexes
  <2>4. At(IdentityTables[j], j)
    BY <2>2, IdentityTablesNumbered, CreationIndexes
  <2>5. IdentityDrops[i] \in Names /\ Number[IdentityDrops[i]] = j /\ j <= 85
    BY <2>2, <2>3, <2>4 DEF At, Placed
  <2> QED
    BY <2>1, <2>5, Heights
<1>2. ASSUME NEW i \in 1 .. 52
      PROVE  CanonicalDrops[i] \in Names /\ Height[CanonicalDrops[i]] = 76 - i
  <2>1. PICK j : j = 53 - i
    OBVIOUS
  <2>2. j \in 1 .. 52 /\ i = 53 - j /\ 23 + j = 76 - i /\ 23 + j <= 85
    BY <2>1
  <2>3. CanonicalDrops[i] = CanonicalTables[j].name
    BY <2>2, CanonicalDropsReverse, CreationIndexes
  <2>4. At(CanonicalTables[j], 23 + j)
    BY <2>2, CanonicalTablesNumbered, CreationIndexes
  <2>5. CanonicalDrops[i] \in Names /\ Number[CanonicalDrops[i]] = 23 + j
    BY <2>3, <2>4 DEF At, Placed
  <2> QED
    BY <2>2, <2>5, Heights
<1>3. ASSUME NEW i \in 1 .. 10
      PROVE  AnalyticsDrops[i] \in Names /\ Height[AnalyticsDrops[i]] = 86 - i
  <2>1. PICK j : j = 11 - i
    OBVIOUS
  <2>2. j \in 1 .. 10 /\ i = 11 - j /\ 75 + j = 86 - i /\ 75 + j <= 85
    BY <2>1
  <2>3. AnalyticsDrops[i] = AnalyticsTables[j].name
    BY <2>2, AnalyticsDropsReverse, CreationIndexes
  <2>4. At(AnalyticsTables[j], 75 + j)
    BY <2>2, AnalyticsTablesNumbered, CreationIndexes
  <2>5. AnalyticsDrops[i] \in Names /\ Number[AnalyticsDrops[i]] = 75 + j
    BY <2>3, <2>4 DEF At, Placed
  <2> QED
    BY <2>2, <2>5, Heights
<1>4. ASSUME NEW i \in 1 .. 14
      PROVE  DiagnosticDrops[i] \in Names /\ Height[DiagnosticDrops[i]] = 100 - i
  <2>1. DiagnosticDrops[i] \in DOMAIN LastDropped /\ LastDropped[DiagnosticDrops[i]] = 15 - i
    BY DiagnosticNames
  <2>2. DiagnosticDrops[i] \in Names /\ Height[DiagnosticDrops[i]] = 85 + (15 - i)
    BY <2>1, Heights
  <2> QED
    BY <2>2
<1> QED
  BY <1>1, <1>2, <1>3, <1>4

\* A table of a height is dropped when the turn of that height comes.
LEMMA HeightsAreDropped ==
    ASSUME NEW t \in Names
    PROVE  /\ Height[t] \in 1 .. 99
           /\ \A r \in 0 .. 5 : t \in TablesAt[r] <=> Height[t] <= LastNumber[r]
           /\ \A i \in 1 .. 23 : Height[t] = 24 - i => IdentityDrops[i] = t
           /\ \A i \in 1 .. 52 : Height[t] = 76 - i => CanonicalDrops[i] = t
           /\ \A i \in 1 .. 10 : Height[t] = 86 - i => AnalyticsDrops[i] = t
           /\ \A i \in 1 .. 14 : Height[t] = 100 - i => DiagnosticDrops[i] = t
<1>1. PICK m \in 1 .. 99 : m = Number[t]
  BY CreationNumbered
<1>2. m <= 85 => Height[t] = m
  BY <1>1, Heights
<1>3. ASSUME 85 < m
      PROVE  \E p \in 1 .. 14 : t \in DOMAIN LastDropped /\ p = LastDropped[t] /\ Height[t] = 85 + p
  BY <1>1, <1>3, Heights
<1>4. PICK h : h = Height[t]
  OBVIOUS
<1>5. h \in 1 .. 99 /\ (85 < m <=> 85 < h)
  BY <1>2, <1>3, <1>4
<1>6. CreationOrder[m].name = t
  BY <1>1, CreationNumbered
<1>7. ASSUME NEW r \in 0 .. 5
      PROVE  t \in TablesAt[r] <=> h <= LastNumber[r]
  <2>1. t \in TablesAt[r] <=> m <= LastNumber[r]
    BY <1>1, TablesByNumber
  <2>2. LastNumber[r] \in {0, 23, 75, 85, 99}
    BY DEF LastNumber
  <2> QED
    BY <1>2, <1>4, <1>5, <2>1, <2>2
<1>8. ASSUME NEW i \in 1 .. 23, h = 24 - i
      PROVE  IdentityDrops[i] = t
  <2>1. m = 24 - i
    BY <1>2, <1>4, <1>5, <1>8
  <2>2. 24 - i \in 1 .. 23 /\ 24 - (24 - i) = i
    OBVIOUS
  <2> QED
    BY <1>6, <2>1, <2>2, IdentityDropsReverse, CreationIndexes
<1>9. ASSUME NEW i \in 1 .. 52, h = 76 - i
      PROVE  CanonicalDrops[i] = t
  <2>1. m = 76 - i
    BY <1>2, <1>4, <1>5, <1>9
  <2>2. 53 - i \in 1 .. 52 /\ 53 - (53 - i) = i /\ 23 + (53 - i) = 76 - i
    OBVIOUS
  <2> QED
    BY <1>6, <2>1, <2>2, CanonicalDropsReverse, CreationIndexes
<1>10. ASSUME NEW i \in 1 .. 10, h = 86 - i
       PROVE  AnalyticsDrops[i] = t
  <2>1. m = 86 - i
    BY <1>2, <1>4, <1>5, <1>10
  <2>2. 11 - i \in 1 .. 10 /\ 11 - (11 - i) = i /\ 75 + (11 - i) = 86 - i
    OBVIOUS
  <2> QED
    BY <1>6, <2>1, <2>2, AnalyticsDropsReverse, CreationIndexes
<1>11. ASSUME NEW i \in 1 .. 14, h = 100 - i
       PROVE  DiagnosticDrops[i] = t
  <2>1. PICK p \in 1 .. 14 : t \in DOMAIN LastDropped /\ p = LastDropped[t] /\ h = 85 + p
    BY <1>3, <1>4, <1>5, <1>11
  <2>2. 15 - p = i
    BY <1>11, <2>1
  <2> QED
    BY <2>1, <2>2, DiagnosticNames
<1> QED
  BY <1>4, <1>5, <1>7, <1>8, <1>9, <1>10, <1>11

----------------------------------------------------------------------------
(* Migrations: one statement.                                              *)

\* The table exists, or the statements before the i-th one create it.
Ready(i, t) ==
    \/ t \in tables
    \/ \E j \in DOMAIN plan : j < i /\ plan[j].op = "create" /\ plan[j].table.name = t

\* The statements before the i-th one drop the table.
Gone(i, t) == \E j \in DOMAIN plan : j < i /\ plan[j].op = "drop" /\ plan[j].table = t

\* What is left of an upgrade only builds.
Builds == \A i \in DOMAIN plan : plan[i].op \in {"create", "add_key", "secure"}

\* Every table still to create is new, and refers to tables that exist by then.
CreatesInOrder ==
    \A i \in DOMAIN plan : plan[i].op = "create" =>
        /\ plan[i].table.name \in TablesAt[revision] \ tables
        /\ \A ref \in plan[i].table.refs : Ready(i, ref.to) \/ ref.to = plan[i].table.name
        /\ \A j \in DOMAIN plan :
             plan[j].op = "create" /\ plan[j].table.name = plan[i].table.name => i = j

\* The key of 0005 and the policies are about tables that exist by then.
AddsInOrder ==
    /\ \A i \in DOMAIN plan : plan[i].op = "add_key" =>
         Ready(i, plan[i].key.from) /\ Ready(i, plan[i].key.to)
    /\ \A i \in DOMAIN plan : plan[i].op = "secure" => \A t \in plan[i].tables : Ready(i, t)

\* What is left leads to the tables, the key and the policies of the revision.
LeadsUp ==
    /\ tables \subseteq TablesAt[revision]
    /\ \A t \in TablesAt[revision] : Ready(Len(plan) + 1, t)
    /\ revision = 5 <=> pointer \/ \E i \in DOMAIN plan : plan[i].op = "add_key"
    /\ \A t \in TablesAt[revision] \cap TenantTables :
         t \in secured \/ \E i \in DOMAIN plan : plan[i].op = "secure" /\ t \in plan[i].tables

Building == Builds /\ CreatesInOrder /\ AddsInOrder /\ LeadsUp

\* What is left of a downgrade only removes.
Removes == \A i \in DOMAIN plan : plan[i].op \in {"drop", "drop_key"}

\* Every table still to drop exists, and what refers to it is dropped before.
DropsInOrder ==
    \A i \in DOMAIN plan : plan[i].op = "drop" =>
        /\ plan[i].table \in tables \ TablesAt[revision]
        /\ \A k \in KeysTo[plan[i].table] :
             k.from \in tables \ {plan[i].table} =>
                 \/ Gone(i, k.from)
                 \/ /\ k = CurrentVersion
                    /\ ~pointer \/ \E j \in DOMAIN plan : j < i /\ plan[j].op = "drop_key"
        /\ \A j \in DOMAIN plan :
             plan[j].op = "drop" /\ plan[j].table = plan[i].table => i = j

\* The key of 0005 is there to be dropped, once.
KeyInOrder ==
    \A i \in DOMAIN plan : plan[i].op = "drop_key" =>
        pointer /\ \A j \in DOMAIN plan : plan[j].op = "drop_key" => i = j

\* What is left leads to the tables of the revision, without the key.
LeadsDown ==
    /\ TablesAt[revision] \subseteq tables /\ tables \subseteq TableNames
    /\ \A t \in tables : t \in TablesAt[revision] \/ Gone(Len(plan) + 1, t)
    /\ revision # 5
    /\ pointer => \E i \in DOMAIN plan : plan[i].op = "drop_key"
    /\ tables \cap TenantTables \subseteq secured

Dismantling == Removes /\ DropsInOrder /\ KeyInOrder /\ LeadsDown

\* Halfway through a migration what is left of it can be executed.
MigrationInv ==
    /\ plan \in Seq({plan[i] : i \in DOMAIN plan})
    /\ revision \in 0 .. 5
    /\ ~failed /\ pointer \in BOOLEAN
    /\ secured \subseteq tables
    /\ Building \/ Dismantling

\* A sequence is one of its own elements.
LEMMA Elements ==
    ASSUME NEW S, NEW p \in Seq(S)
    PROVE  p \in Seq({p[i] : i \in DOMAIN p})
OBVIOUS

\* What is left when the first statement has been executed.
LEMMA RestOfPlan ==
    ASSUME NEW S, NEW p \in Seq(S), p # <<>>
    PROVE  /\ Len(p) \in Nat /\ Len(p) >= 1 /\ DOMAIN p = 1 .. Len(p)
           /\ Tail(p) \in Seq(S) /\ Len(Tail(p)) = Len(p) - 1
           /\ DOMAIN Tail(p) = 1 .. (Len(p) - 1)
           /\ \A i \in 1 .. (Len(p) - 1) : Tail(p)[i] = p[i + 1]
           /\ Head(p) = p[1]
OBVIOUS

\* The statements that are left, by their number before the first is executed.
Executed ==
    /\ Len(plan) \in Nat /\ Len(plan) >= 1 /\ DOMAIN plan = 1 .. Len(plan)
    /\ Len(plan') = Len(plan) - 1 /\ DOMAIN plan' = 1 .. (Len(plan) - 1)
    /\ \A i \in DOMAIN plan' : i + 1 \in DOMAIN plan /\ plan'[i] = plan[i + 1]
    /\ \A i \in DOMAIN plan : i # 1 => i - 1 \in DOMAIN plan' /\ plan[i] = plan'[i - 1]

\* A step of a migration fails, or takes the first statement off.
LEMMA MigrateExecutes ==
    ASSUME MigrationInv, Migrate
    PROVE  /\ ~Accepted(plan[1]) => failed'
           /\ Accepted(plan[1]) => /\ Executed /\ plan' \in Seq({plan'[i] : i \in DOMAIN plan'})
                                   /\ ~failed'
<1>1. plan \in Seq({plan[i] : i \in DOMAIN plan}) /\ plan # <<>> /\ ~failed
  BY DEF MigrationInv, Migrate
<1>2. Head(plan) = plan[1]
  BY <1>1, RestOfPlan
<1>3. ~Accepted(plan[1]) => failed'
  BY <1>2 DEF Migrate
<1>4. ASSUME Accepted(plan[1])
      PROVE  plan' = Tail(plan) /\ ~failed'
  BY <1>1, <1>2, <1>4 DEF Migrate
<1>5. ASSUME plan' = Tail(plan)
      PROVE  Executed
  BY <1>1, <1>5, RestOfPlan DEF Executed
<1>6. ASSUME plan' = Tail(plan)
      PROVE  plan' \in Seq({plan'[i] : i \in DOMAIN plan'})
  <2>0. PICK S : S = {plan[i] : i \in DOMAIN plan}
    OBVIOUS
  <2>1. Tail(plan) \in Seq(S)
    BY <1>1, <2>0, RestOfPlan
  <2>2. PICK q : q = plan'
    OBVIOUS
  <2>3. q \in Seq({q[i] : i \in DOMAIN q})
    <3>1. q \in Seq(S)
      BY <2>1, <2>2, <1>6
    <3> HIDE <2>2
    <3> QED
      BY <3>1, Elements
  <2> QED
    BY <2>2, <2>3
<1> QED
  BY <1>3, <1>4, <1>5, <1>6

\* PostgreSQL takes the next statement of an upgrade.
LEMMA FirstIsAccepted ==
    ASSUME MigrationInv, Building, plan # <<>>
    PROVE  Accepted(plan[1])
<1>1. 1 \in DOMAIN plan /\ DOMAIN plan = 1 .. Len(plan) /\ Len(plan) \in Nat
  BY RestOfPlan DEF MigrationInv
<1>2. \A t : Ready(1, t) => t \in tables
  BY <1>1 DEF Ready
<1>3. ASSUME plan[1].op = "create"
      PROVE  Accepted(plan[1])
  <2>1. \A ref \in plan[1].table.refs : ref.to \in tables \cup {plan[1].table.name}
    BY <1>1, <1>2, <1>3 DEF Building, CreatesInOrder
  <2>2. \A k \in KeysOf(plan[1].table) : \E ref \in plan[1].table.refs : k.to = ref.to
    BY DEF KeysOf, KeyOf
  <2>3. plan[1].table.name \notin tables
    BY <1>1, <1>3 DEF Building, CreatesInOrder
  <2> QED
    BY <1>3, <2>1, <2>2, <2>3 DEF Accepted
<1>4. ASSUME plan[1].op = "add_key"
      PROVE  Accepted(plan[1])
  BY <1>1, <1>2, <1>4 DEF Building, AddsInOrder, Accepted
<1>5. ASSUME plan[1].op = "secure"
      PROVE  Accepted(plan[1])
  BY <1>1, <1>2, <1>5 DEF Building, AddsInOrder, Accepted
<1> QED
  BY <1>1, <1>3, <1>4, <1>5 DEF Building, Builds

\* And the rest can still be executed.
LEMMA BuildingGoesOn ==
    ASSUME MigrationInv, Building, Migrate
    PROVE  MigrationInv' /\ Building'
<1>1. plan # <<>>
  BY DEF Migrate
<1>2. Accepted(plan[1])
  BY <1>1, FirstIsAccepted
<1>3. Executed /\ plan' \in Seq({plan'[i] : i \in DOMAIN plan'}) /\ ~failed'
  BY <1>2, MigrateExecutes
<1>4. /\ tables' = IF plan[1].op = "create" THEN tables \cup {plan[1].table.name} ELSE tables
      /\ pointer' = (plan[1].op = "add_key" \/ pointer)
      /\ secured' = IF plan[1].op = "secure" THEN secured \cup plan[1].tables ELSE secured
      /\ revision' = revision
  <2>1. Head(plan) = plan[1]
    BY <1>1, RestOfPlan DEF MigrationInv
  <2>2. plan[1].op \in {"create", "add_key", "secure"}
    BY <1>3 DEF Building, Builds, Executed
  <2>3. pointer \in BOOLEAN
    BY DEF MigrationInv
  <2>4. CASE plan[1].op = "create"
    <3>1. tables' = tables \cup {plan[1].table.name} /\ revision' = revision
      BY <1>2, <2>1, <2>4 DEF Migrate
    <3>2. pointer' = pointer
      BY <1>2, <2>1, <2>4 DEF Migrate
    <3>3. secured' = secured
      BY <1>2, <2>1, <2>4 DEF Migrate
    <3> QED
      BY <2>3, <2>4, <3>1, <3>2, <3>3
  <2>5. CASE plan[1].op = "add_key"
    BY <1>2, <2>1, <2>5 DEF Migrate
  <2>6. CASE plan[1].op = "secure"
    <3>1. tables' = tables /\ revision' = revision
      BY <1>2, <2>1, <2>6 DEF Migrate
    <3>2. pointer' = pointer
      BY <1>2, <2>1, <2>6 DEF Migrate
    <3>3. secured' = secured \cup plan[1].tables
      BY <1>2, <2>1, <2>6 DEF Migrate
    <3> QED
      BY <2>3, <2>6, <3>1, <3>2, <3>3
  <2> QED
    BY <2>2, <2>4, <2>5, <2>6
<1>5. ASSUME NEW i \in Nat, NEW t, Ready(i + 1, t)
      PROVE  Ready(i, t)'
  <2>1. CASE t \in tables
    BY <1>4, <2>1 DEF Ready
  <2>2. ASSUME NEW j \in DOMAIN plan, j < i + 1, plan[j].op = "create", plan[j].table.name = t
        PROVE  Ready(i, t)'
    <3>1. CASE j = 1
      BY <1>4, <2>2, <3>1 DEF Ready
    <3>2. CASE j # 1
      <4>1. j - 1 \in DOMAIN plan' /\ plan[j] = plan'[j - 1] /\ j - 1 < i
        BY <1>3, <2>2, <3>2 DEF Executed
      <4> QED
        BY <2>2, <4>1 DEF Ready
    <3> QED
      BY <3>1, <3>2
  <2> QED
    BY <1>5, <2>1, <2>2 DEF Ready
<1>6. ASSUME NEW i \in DOMAIN plan', NEW t, Ready(i + 1, t)
      PROVE  Ready(i, t)'
  BY <1>3, <1>5, <1>6 DEF Executed
<1>7. PICK q : q = plan'
  OBVIOUS
<1>8. /\ \A i \in DOMAIN q : i \in Nat /\ i >= 1
      /\ \A i \in DOMAIN q : i + 1 \in DOMAIN plan /\ q[i] = plan[i + 1]
      /\ \A i \in DOMAIN plan : i # 1 => i - 1 \in DOMAIN q /\ plan[i] = q[i - 1]
  BY <1>3, <1>7 DEF Executed
<1>9. DOMAIN plan \subseteq Nat /\ 1 \in DOMAIN plan
  BY <1>3 DEF Executed
<1>10. \A i \in DOMAIN q : q[i].op \in {"create", "add_key", "secure"}
  BY <1>8 DEF Building, Builds
<1>11. ASSUME NEW i \in DOMAIN q, q[i].op = "create"
       PROVE  /\ q[i].table.name \in TablesAt[revision] \ tables'
              /\ \A ref \in q[i].table.refs : Ready(i, ref.to)' \/ ref.to = q[i].table.name
              /\ \A j \in DOMAIN q :
                   q[j].op = "create" /\ q[j].table.name = q[i].table.name => i = j
  <2>1. i + 1 \in DOMAIN plan /\ q[i] = plan[i + 1] /\ plan[i + 1].op = "create"
    BY <1>8, <1>11
  <2>2. q[i].table.name \in TablesAt[revision] \ tables'
    <3>1. plan[1].op = "create" => q[i].table.name # plan[1].table.name
      <4>1. i + 1 # 1 /\ 1 \in DOMAIN plan
        BY <1>8, <1>9
      <4> QED
        BY <2>1, <4>1 DEF Building, CreatesInOrder
    <3> QED
      BY <1>4, <2>1, <3>1 DEF Building, CreatesInOrder
  <2>3. \A ref \in q[i].table.refs : Ready(i + 1, ref.to) \/ ref.to = q[i].table.name
    BY <2>1 DEF Building, CreatesInOrder
  <2>4. \A j \in DOMAIN q :
           q[j].op = "create" /\ q[j].table.name = q[i].table.name => i + 1 = j + 1
    BY <1>8, <2>1 DEF Building, CreatesInOrder
  <2>5. \A j \in DOMAIN q : i + 1 = j + 1 => i = j
    BY <1>8
  <2> QED
    BY <1>6, <1>7, <2>2, <2>3, <2>4, <2>5
<1>12. ASSUME NEW i \in DOMAIN q, q[i].op = "add_key"
       PROVE  Ready(i, q[i].key.from)' /\ Ready(i, q[i].key.to)'
  <2>1. Ready(i + 1, q[i].key.from) /\ Ready(i + 1, q[i].key.to)
    BY <1>8, <1>12 DEF Building, AddsInOrder
  <2> QED
    BY <1>6, <1>7, <2>1
<1>13. ASSUME NEW i \in DOMAIN q, q[i].op = "secure"
       PROVE  \A t \in q[i].tables : Ready(i, t)'
  <2>1. \A t \in q[i].tables : Ready(i + 1, t)
    BY <1>8, <1>13 DEF Building, AddsInOrder
  <2> QED
    BY <1>6, <1>7, <2>1
<1>14. tables' \subseteq TablesAt[revision]
  BY <1>4, <1>9 DEF Building, CreatesInOrder, LeadsUp
<1>15. \A t \in TablesAt[revision] : Ready(Len(plan) + 1, t)'
  <2>1. PICK n : n = Len(plan)
    OBVIOUS
  <2>2. \A t \in TablesAt[revision] : Ready(n + 1, t)
    BY <2>1 DEF Building, LeadsUp
  <2>3. \A t \in TablesAt[revision] : Ready(n, t)'
    BY <1>3, <1>5, <2>1, <2>2 DEF Executed
  <2>4. Len(plan') + 1 = n
    BY <1>3, <2>1 DEF Executed
  <2> QED
    BY <1>4, <2>3, <2>4
<1>16. revision = 5 <=> pointer' \/ \E i \in DOMAIN q : q[i].op = "add_key"
  <2>1. (\E i \in DOMAIN plan : plan[i].op = "add_key")
           <=> plan[1].op = "add_key" \/ \E i \in DOMAIN q : q[i].op = "add_key"
    BY <1>8, <1>9
  <2> QED
    BY <1>4, <2>1 DEF Building, LeadsUp
<1>17. ASSUME NEW t \in TablesAt[revision] \cap TenantTables
       PROVE  t \in secured' \/ \E i \in DOMAIN q : q[i].op = "secure" /\ t \in q[i].tables
  <2>1. CASE t \in secured
    BY <1>4, <2>1
  <2>2. ASSUME NEW i \in DOMAIN plan, plan[i].op = "secure", t \in plan[i].tables
        PROVE  t \in secured' \/ \E j \in DOMAIN q : q[j].op = "secure" /\ t \in q[j].tables
    BY <1>4, <1>8, <2>2
  <2> QED
    BY <2>1, <2>2 DEF Building, LeadsUp
<1>18. Building'
  <2>1. TenantTables' = TenantTables /\ TablesAt' = TablesAt
    BY DEF TenantTables, TablesAt
  <2> QED
    BY <1>4, <1>7, <1>10, <1>11, <1>12, <1>13, <1>14, <1>15, <1>16, <1>17, <2>1
       DEF Building, Builds, CreatesInOrder, AddsInOrder, LeadsUp
<1>19. secured' \subseteq tables'
  BY <1>2, <1>4 DEF MigrationInv, Accepted
<1> QED
  BY <1>3, <1>4, <1>18, <1>19 DEF MigrationInv

\* PostgreSQL takes the next statement of a downgrade.
LEMMA FirstIsDropped ==
    ASSUME MigrationInv, Dismantling, plan # <<>>
    PROVE  Accepted(plan[1])
<1>1. 1 \in DOMAIN plan /\ DOMAIN plan = 1 .. Len(plan) /\ Len(plan) \in Nat
  BY RestOfPlan DEF MigrationInv
<1>2. \A t : ~Gone(1, t)
  BY <1>1 DEF Gone
<1>3. ASSUME plan[1].op = "drop"
      PROVE  Accepted(plan[1])
  <2>1. plan[1].table \in tables
    BY <1>1, <1>3 DEF Dismantling, DropsInOrder
  <2>2. ASSUME NEW k \in KeysTo[plan[1].table], k.from \in tables \ {plan[1].table}
        PROVE  k = CurrentVersion /\ ~pointer
    BY <1>1, <1>2, <1>3, <2>2 DEF Dismantling, DropsInOrder
  <2> QED
    BY <1>3, <2>1, <2>2 DEF Accepted
<1>4. ASSUME plan[1].op = "drop_key"
      PROVE  Accepted(plan[1])
  BY <1>1, <1>4 DEF Dismantling, KeyInOrder, Accepted
<1> QED
  BY <1>1, <1>3, <1>4 DEF Dismantling, Removes

\* And the rest can still be executed.
LEMMA DismantlingGoesOn ==
    ASSUME MigrationInv, Dismantling, Migrate
    PROVE  MigrationInv' /\ Dismantling'
<1>1. plan # <<>>
  BY DEF Migrate
<1>2. Accepted(plan[1])
  BY <1>1, FirstIsDropped
<1>3. Executed /\ plan' \in Seq({plan'[i] : i \in DOMAIN plan'}) /\ ~failed'
  BY <1>2, MigrateExecutes
<1>4. /\ tables' = IF plan[1].op = "drop" THEN tables \ {plan[1].table} ELSE tables
      /\ pointer' = (plan[1].op # "drop_key" /\ pointer)
      /\ secured' = IF plan[1].op = "drop" THEN secured \ {plan[1].table} ELSE secured
      /\ revision' = revision
  <2>1. Head(plan) = plan[1]
    BY <1>1, RestOfPlan DEF MigrationInv
  <2>2. plan[1].op \in {"drop", "drop_key"}
    BY <1>3 DEF Dismantling, Removes, Executed
  <2>3. pointer \in BOOLEAN
    BY DEF MigrationInv
  <2>4. CASE plan[1].op = "drop"
    <3>1. tables' = tables \ {plan[1].table} /\ revision' = revision
      BY <1>2, <2>1, <2>4 DEF Migrate
    <3>2. pointer' = pointer
      BY <1>2, <2>1, <2>4 DEF Migrate
    <3>3. secured' = secured \ {plan[1].table}
      BY <1>2, <2>1, <2>4 DEF Migrate
    <3> QED
      BY <2>3, <2>4, <3>1, <3>2, <3>3
  <2>5. CASE plan[1].op = "drop_key"
    <3>1. tables' = tables /\ revision' = revision
      BY <1>2, <2>1, <2>5 DEF Migrate
    <3>2. pointer' = FALSE
      BY <1>2, <2>1, <2>5 DEF Migrate
    <3>3. secured' = secured
      BY <1>2, <2>1, <2>5 DEF Migrate
    <3> QED
      BY <2>3, <2>5, <3>1, <3>2, <3>3
  <2> QED
    BY <2>2, <2>4, <2>5
<1>5. ASSUME NEW i \in Nat, NEW t, Gone(i + 1, t)
      PROVE  Gone(i, t)' \/ (plan[1].op = "drop" /\ plan[1].table = t)
  <2>1. PICK j \in DOMAIN plan : j < i + 1 /\ plan[j].op = "drop" /\ plan[j].table = t
    BY <1>5 DEF Gone
  <2>2. CASE j = 1
    BY <2>1, <2>2
  <2>3. CASE j # 1
    <3>1. j - 1 \in DOMAIN plan' /\ plan[j] = plan'[j - 1] /\ j - 1 < i
      BY <1>3, <2>1, <2>3 DEF Executed
    <3> QED
      BY <2>1, <3>1 DEF Gone
  <2> QED
    BY <2>2, <2>3
<1>6. PICK q : q = plan'
  OBVIOUS
<1>7. /\ \A i \in DOMAIN q : i \in Nat /\ i >= 1
      /\ \A i \in DOMAIN q : i + 1 \in DOMAIN plan /\ q[i] = plan[i + 1]
      /\ \A i \in DOMAIN plan : i # 1 => i - 1 \in DOMAIN q /\ plan[i] = q[i - 1]
  BY <1>3, <1>6 DEF Executed
<1>8. DOMAIN plan \subseteq Nat /\ 1 \in DOMAIN plan
  BY <1>3 DEF Executed
<1>9. \A i \in DOMAIN q : q[i].op \in {"drop", "drop_key"}
  BY <1>7 DEF Dismantling, Removes
<1>10. ASSUME NEW i \in DOMAIN q, q[i].op = "drop"
       PROVE  /\ q[i].table \in tables' \ TablesAt[revision]
              /\ \A k \in KeysTo[q[i].table] :
                   k.from \in tables' \ {q[i].table} =>
                       \/ Gone(i, k.from)'
                       \/ /\ k = CurrentVersion
                          /\ ~pointer' \/ \E j \in DOMAIN q : j < i /\ q[j].op = "drop_key"
              /\ \A j \in DOMAIN q : q[j].op = "drop" /\ q[j].table = q[i].table => i = j
  <2>1. i + 1 \in DOMAIN plan /\ q[i] = plan[i + 1] /\ plan[i + 1].op = "drop"
        /\ i \in Nat /\ i + 1 # 1
    BY <1>7, <1>10
  <2>2. q[i].table \in tables' \ TablesAt[revision]
    <3>1. plan[1].op = "drop" => q[i].table # plan[1].table
      BY <1>8, <2>1 DEF Dismantling, DropsInOrder
    <3> QED
      BY <1>4, <2>1, <3>1 DEF Dismantling, DropsInOrder
  <2>3. ASSUME NEW k \in KeysTo[q[i].table], k.from \in tables' \ {q[i].table}
        PROVE  \/ Gone(i, k.from)'
               \/ /\ k = CurrentVersion
                  /\ ~pointer' \/ \E j \in DOMAIN q : j < i /\ q[j].op = "drop_key"
    <3>1. k.from \in tables \ {plan[i + 1].table} /\ k \in KeysTo[plan[i + 1].table]
      BY <1>4, <2>1, <2>3
    <3>2. CASE Gone(i + 1, k.from)
      <4>1. ~(plan[1].op = "drop" /\ plan[1].table = k.from)
        BY <1>4, <2>3
      <4>2. PICK t : t = k.from
        OBVIOUS
      <4> QED
        BY <1>5, <2>1, <3>2, <4>1, <4>2
    <3>3. ASSUME k = CurrentVersion,
                 ~pointer \/ \E j \in DOMAIN plan : j < i + 1 /\ plan[j].op = "drop_key"
          PROVE  ~pointer' \/ \E j \in DOMAIN q : j < i /\ q[j].op = "drop_key"
      <4>1. CASE ~pointer
        BY <1>4, <4>1
      <4>2. ASSUME NEW j \in DOMAIN plan, j < i + 1, plan[j].op = "drop_key"
            PROVE  ~pointer' \/ \E l \in DOMAIN q : l < i /\ q[l].op = "drop_key"
        <5>1. CASE j = 1
          BY <1>4, <4>2, <5>1
        <5>2. CASE j # 1
          <6>1. j - 1 \in DOMAIN q /\ plan[j] = q[j - 1] /\ j - 1 < i
            BY <1>7, <1>8, <2>1, <4>2, <5>2
          <6> QED
            BY <4>2, <6>1
        <5> QED
          BY <5>1, <5>2
      <4> QED
        BY <3>3, <4>1, <4>2
    <3> QED
      BY <2>1, <3>1, <3>2, <3>3 DEF Dismantling, DropsInOrder
  <2>4. \A j \in DOMAIN q : q[j].op = "drop" /\ q[j].table = q[i].table => i + 1 = j + 1
    BY <1>7, <2>1 DEF Dismantling, DropsInOrder
  <2>5. \A j \in DOMAIN q : i + 1 = j + 1 => i = j
    BY <1>7
  <2> QED
    BY <2>2, <2>3, <2>4, <2>5
<1>11. ASSUME NEW i \in DOMAIN q, q[i].op = "drop_key"
       PROVE  pointer' /\ \A j \in DOMAIN q : q[j].op = "drop_key" => i = j
  <2>1. i + 1 \in DOMAIN plan /\ q[i] = plan[i + 1] /\ plan[i + 1].op = "drop_key"
        /\ i + 1 # 1
    BY <1>7, <1>11
  <2>2. pointer /\ plan[1].op # "drop_key"
    BY <1>8, <2>1 DEF Dismantling, KeyInOrder
  <2>3. \A j \in DOMAIN q : q[j].op = "drop_key" => i + 1 = j + 1
    BY <1>7, <2>1 DEF Dismantling, KeyInOrder
  <2>4. \A j \in DOMAIN q : i + 1 = j + 1 => i = j
    BY <1>7
  <2> QED
    BY <1>4, <2>2, <2>3, <2>4
<1>12. TablesAt[revision] \subseteq tables' /\ tables' \subseteq TableNames
  BY <1>4, <1>8 DEF Dismantling, DropsInOrder, LeadsDown
<1>13. \A t \in tables' : t \in TablesAt[revision] \/ Gone(Len(plan) + 1, t)'
  <2>1. PICK n : n = Len(plan)
    OBVIOUS
  <2>2. \A t \in tables : t \in TablesAt[revision] \/ Gone(n + 1, t)
    BY <2>1 DEF Dismantling, LeadsDown
  <2>3. \A t \in tables' : t \in TablesAt[revision] \/ Gone(n, t)'
    BY <1>3, <1>4, <1>5, <2>1, <2>2 DEF Executed
  <2>4. Len(plan') + 1 = n
    BY <1>3, <2>1 DEF Executed
  <2> QED
    BY <2>3, <2>4
<1>14. pointer' => \E i \in DOMAIN q : q[i].op = "drop_key"
  BY <1>4, <1>7, <1>8 DEF Dismantling, LeadsDown
<1>15. tables' \cap TenantTables \subseteq secured' /\ revision # 5
  BY <1>4 DEF Dismantling, LeadsDown
<1>16. Dismantling'
  <2>1. TenantTables' = TenantTables /\ TablesAt' = TablesAt /\ KeysTo' = KeysTo
        /\ TableNames' = TableNames /\ CurrentVersion' = CurrentVersion
    BY DEF TenantTables, TablesAt, KeysTo, TableNames, CurrentVersion
  <2> QED
    BY <1>4, <1>6, <1>9, <1>10, <1>11, <1>12, <1>13, <1>14, <1>15, <2>1
       DEF Dismantling, Removes, DropsInOrder, KeyInOrder, LeadsDown
<1>17. secured' \subseteq tables'
  BY <1>4 DEF MigrationInv
<1> QED
  BY <1>3, <1>4, <1>16, <1>17 DEF MigrationInv

----------------------------------------------------------------------------
(* Migrations: an upgrade begins.                                          *)

\* Between migrations the tables, the key and the policies are the revision's.
LEMMA AtRest ==
    ASSUME MigrationInv, plan = <<>>
    PROVE  /\ tables = TablesAt[revision] /\ tables \subseteq Names
           /\ pointer = (revision = 5)
           /\ secured \subseteq tables /\ tables \cap TenantTables \subseteq secured
<1>1. DOMAIN plan = {} /\ Len(plan) = 0
  OBVIOUS
<1>2. \A k, t : (Ready(k, t) <=> t \in tables) /\ ~Gone(k, t)
  BY <1>1 DEF Ready, Gone
<1>3. TablesAt[revision] \subseteq Names
  BY TablesByNumber DEF MigrationInv
<1>4. CASE Building
  <2>1. tables = TablesAt[revision]
    BY <1>2, <1>4 DEF Building, LeadsUp
  <2>2. pointer = (revision = 5)
    BY <1>1, <1>4 DEF Building, LeadsUp, MigrationInv
  <2>3. tables \cap TenantTables \subseteq secured
    BY <1>1, <1>4, <2>1 DEF Building, LeadsUp
  <2> QED
    BY <1>3, <2>1, <2>2, <2>3 DEF MigrationInv
<1>5. CASE Dismantling
  <2>1. tables = TablesAt[revision]
    BY <1>2, <1>5 DEF Dismantling, LeadsDown
  <2>2. pointer = (revision = 5)
    BY <1>1, <1>5 DEF Dismantling, LeadsDown, MigrationInv
  <2> QED
    BY <1>3, <1>5, <2>1, <2>2 DEF Dismantling, LeadsDown, MigrationInv
<1> QED
  BY <1>4, <1>5 DEF MigrationInv

\* A number is one table's.
LEMMA NumbersDiffer ==
    ASSUME NEW s \in Names, NEW t \in Names, Number[s] = Number[t]
    PROVE  s = t
BY CreationNumbered

\* A plan that creates the tables of a revision in their order, and then puts
\* the policies on them.
Creating(q, list, n, at, policies) ==
    /\ Len(q) \in Nat /\ DOMAIN q = 1 .. Len(q) /\ Len(q) >= 1
    /\ \A i \in 1 .. n : /\ at[i] \in DOMAIN q /\ at[i] < Len(q)
                         /\ q[at[i]].op = "create" /\ q[at[i]].table = list[i]
    /\ \A i, j \in 1 .. n : i < j => at[i] < at[j]
    /\ \A k \in DOMAIN q : q[k].op = "create" => \E i \in 1 .. n : k = at[i]
    /\ \A k \in DOMAIN q : q[k].op = "secure" <=> k = Len(q)
    /\ q[Len(q)].tables = policies

\* The upgrade to a revision begins.  The tables up to it are those of the ones
\* before and the n of the list, and the policies are on all that a tenant has.
Upgrading(r, b, n, list, policies) ==
    /\ TablesAt[r - 1] = {t \in Names : Number[t] <= b}
    /\ TablesAt[r] = {t \in Names : Number[t] <= b + n}
    /\ \A i \in 1 .. n : At(list[i], b + i)
    /\ policies \subseteq TablesAt[r]
    /\ (TablesAt[r] \ TablesAt[r - 1]) \cap TenantTables \subseteq policies
    /\ tables = TablesAt[r - 1] /\ tables \cap TenantTables \subseteq secured
    /\ tables' = tables /\ secured' = secured /\ revision' = r

\* In the order of the numbers a table refers to what is there or comes before it.
LEMMA UpgradeInOrder ==
    ASSUME NEW r \in 1 .. 5, NEW b \in Nat, NEW n \in Nat, NEW list, NEW at, NEW policies,
           Upgrading(r, b, n, list, policies), Creating(plan', list, n, at, policies)
    PROVE  /\ CreatesInOrder'
           /\ \A i \in 1 .. n : \A k \in Nat : at[i] < k => Ready(k, list[i].name)'
           /\ \A i \in DOMAIN plan' : plan'[i].op = "secure" =>
                \A t \in plan'[i].tables : Ready(i, t)'
           /\ tables' \subseteq TablesAt[r]
           /\ \A t \in TablesAt[r] : Ready(Len(plan) + 1, t)'
           /\ \A t \in TablesAt[r] \cap TenantTables :
                t \in secured' \/ \E i \in DOMAIN plan' : plan'[i].op = "secure" /\ t \in plan'[i].tables
<1>1. PICK q : q = plan'
  OBVIOUS
<1> USE DEF Upgrading
<1>2. Creating(q, list, n, at, policies)
  BY <1>1
<1>3. \A i \in 1 .. n : /\ list[i].name \in Names /\ Number[list[i].name] = b + i
                        /\ \A ref \in list[i].refs : ref.to \in Names
                        /\ \A ref \in list[i].refs :
                             ref.to = list[i].name \/ Number[ref.to] < b + i
  BY DEF At, Placed
<1>4. \A t \in Names : Number[t] \in 1 .. 99
  BY CreationNumbered
<1>5. ASSUME NEW t \in Names, b < Number[t], Number[t] <= b + n
      PROVE  \E i \in 1 .. n : i = Number[t] - b /\ list[i].name = t
  <2>1. PICK i : i = Number[t] - b
    OBVIOUS
  <2>2. i \in 1 .. n /\ Number[t] = b + i
    BY <1>4, <1>5, <2>1
  <2>3. list[i].name = t
    BY <1>3, <2>2, NumbersDiffer
  <2> QED
    BY <2>1, <2>2, <2>3
<1>6. ASSUME NEW i \in 1 .. n, NEW k \in Nat, at[i] < k
      PROVE  Ready(k, list[i].name)'
  <2>1. at[i] \in DOMAIN q /\ q[at[i]].op = "create" /\ q[at[i]].table = list[i]
    BY <1>2 DEF Creating
  <2> QED
    BY <1>1, <1>6, <2>1 DEF Ready
<1>7. ASSUME NEW t \in tables, NEW k
      PROVE  Ready(k, t)'
  BY <1>7 DEF Ready
<1>8. ASSUME NEW i \in 1 .. n
      PROVE  /\ list[i].name \in TablesAt[r] \ tables
             /\ \A ref \in list[i].refs : Ready(at[i], ref.to)' \/ ref.to = list[i].name
             /\ \A j \in 1 .. n : list[j].name = list[i].name => i = j
  <2>1. list[i].name \in TablesAt[r] \ tables
    <3>1. Number[list[i].name] = b + i /\ list[i].name \in Names
      BY <1>3
    <3>2. b + i <= b + n /\ ~(b + i <= b)
      OBVIOUS
    <3> QED
      BY <3>1, <3>2
  <2>2. ASSUME NEW ref \in list[i].refs, ref.to # list[i].name
        PROVE  Ready(at[i], ref.to)'
    <3>1. PICK m \in 1 .. 99 : m = Number[ref.to]
      BY <1>3, <1>4
    <3>2. m < b + i /\ ref.to \in Names
      BY <1>3, <2>2, <3>1
    <3>3. CASE m <= b
      BY <1>7, <3>1, <3>2, <3>3
    <3>4. CASE b < m
      <4>1. m <= b + n
        BY <3>2
      <4>2. PICK j \in 1 .. n : j = m - b /\ list[j].name = ref.to
        BY <1>5, <3>1, <3>2, <3>4, <4>1
      <4>3. j < i
        BY <3>2, <4>2
      <4>4. at[j] < at[i] /\ at[i] \in Nat
        BY <1>2, <4>3 DEF Creating
      <4>5. Ready(at[i], list[j].name)'
        BY <1>6, <4>4
      <4> QED
        BY <4>2, <4>5
    <3> QED
      BY <3>3, <3>4
  <2>3. \A j \in 1 .. n : list[j].name = list[i].name => i = j
    BY <1>3
  <2> QED
    BY <2>1, <2>2, <2>3
<1>9. ASSUME NEW k \in DOMAIN q, q[k].op = "create"
      PROVE  /\ q[k].table.name \in TablesAt[r] \ tables
             /\ \A ref \in q[k].table.refs : Ready(k, ref.to)' \/ ref.to = q[k].table.name
             /\ \A j \in DOMAIN q :
                  q[j].op = "create" /\ q[j].table.name = q[k].table.name => k = j
  <2>1. PICK i \in 1 .. n : k = at[i] /\ q[k].table = list[i]
    BY <1>2, <1>9 DEF Creating
  <2>2. ASSUME NEW j \in DOMAIN q, q[j].op = "create", q[j].table.name = q[k].table.name
        PROVE  k = j
    <3>1. PICK l \in 1 .. n : j = at[l] /\ q[j].table = list[l]
      BY <1>2, <2>2, SMTT(30) DEF Creating
    <3> QED
      BY <1>8, <2>1, <2>2, <3>1
  <2> QED
    BY <1>8, <2>1, <2>2
<1>10. TablesAt' = TablesAt
  BY DEF TablesAt
<1>11. CreatesInOrder'
  BY <1>1, <1>9, <1>10 DEF CreatesInOrder
<1>12. ASSUME NEW t \in TablesAt[r], NEW k \in Nat, Len(q) <= k
       PROVE  Ready(k, t)'
  <2>1. PICK m \in 1 .. 99 : m = Number[t] /\ t \in Names /\ m <= b + n
    BY <1>4
  <2>2. CASE m <= b
    BY <1>7, <2>1, <2>2
  <2>3. CASE b < m
    <3>1. PICK i \in 1 .. n : list[i].name = t
      BY <1>5, <2>1, <2>3
    <3>2. at[i] < k
      BY <1>2, <1>12 DEF Creating
    <3> QED
      BY <1>6, <3>1, <3>2
  <2> QED
    BY <2>1, <2>2, <2>3
<1>13. ASSUME NEW i \in DOMAIN q, q[i].op = "secure"
       PROVE  \A t \in q[i].tables : Ready(i, t)'
  <2>1. i = Len(q) /\ Len(q) \in Nat /\ q[i].tables = policies
    BY <1>2, <1>13 DEF Creating
  <2> QED
    BY <1>12, <2>1
<1>14. ASSUME NEW t \in TablesAt[r]
       PROVE  Ready(Len(plan) + 1, t)'
  <2>1. PICK k \in Nat : k = Len(q) + 1 /\ Len(q) <= k
    BY <1>2 DEF Creating
  <2>2. Ready(k, t)'
    BY <1>12, <2>1
  <2> QED
    BY <1>1, <2>1, <2>2
<1>15. ASSUME NEW t \in TablesAt[r] \cap TenantTables
       PROVE  t \in secured' \/ \E i \in DOMAIN q : q[i].op = "secure" /\ t \in q[i].tables
  <2>1. CASE t \in TablesAt[r - 1]
    BY <2>1
  <2>2. CASE t \notin TablesAt[r - 1]
    <3>1. t \in policies
      BY <2>2
    <3>2. Len(q) \in DOMAIN q /\ q[Len(q)].op = "secure" /\ q[Len(q)].tables = policies
      BY <1>2 DEF Creating
    <3> QED
      BY <3>1, <3>2
  <2> QED
    BY <2>1, <2>2
<1>16. tables' \subseteq TablesAt[r]
  BY <1>4
<1> QED
  BY <1>1, <1>6, <1>11, <1>13, <1>14, <1>15, <1>16

\* The statements of a list.
LEMMA CreationsOf ==
    ASSUME NEW S, NEW list \in Seq(S), NEW T,
           \A x \in S : [op |-> "create", table |-> x] \in T
    PROVE  /\ Creations(list) \in Seq(T) /\ Len(Creations(list)) = Len(list)
           /\ \A i \in 1 .. Len(list) : /\ Creations(list)[i].op = "create"
                                        /\ Creations(list)[i].table = list[i]
<1>1. PICK n \in Nat : n = Len(list) /\ DOMAIN list = 1 .. n /\ \A i \in 1 .. n : list[i] \in S
  OBVIOUS
<1>2. PICK c : c = [i \in 1 .. n |-> [op |-> "create", table |-> list[i]]]
  OBVIOUS
<1>3. c \in Seq(T) /\ Len(c) = n
  BY <1>1, <1>2
<1>4. \A i \in 1 .. n : c[i].op = "create" /\ c[i].table = list[i]
  BY <1>2
<1>5. Creations(list) = c
  BY <1>1, <1>2 DEF Creations
<1> QED
  BY <1>1, <1>3, <1>4, <1>5

LEMMA DropsOf ==
    ASSUME NEW S, NEW list \in Seq(S), NEW T,
           \A x \in S : [op |-> "drop", table |-> x] \in T
    PROVE  /\ Drops(list) \in Seq(T) /\ Len(Drops(list)) = Len(list)
           /\ \A i \in 1 .. Len(list) : /\ Drops(list)[i].op = "drop"
                                        /\ Drops(list)[i].table = list[i]
<1>1. PICK n \in Nat : n = Len(list) /\ DOMAIN list = 1 .. n /\ \A i \in 1 .. n : list[i] \in S
  OBVIOUS
<1>2. PICK c : c = [i \in 1 .. n |-> [op |-> "drop", table |-> list[i]]]
  OBVIOUS
<1>3. c \in Seq(T) /\ Len(c) = n
  BY <1>1, <1>2
<1>4. \A i \in 1 .. n : c[i].op = "drop" /\ c[i].table = list[i]
  BY <1>2
<1>5. Drops(list) = c
  BY <1>1, <1>2 DEF Drops
<1> QED
  BY <1>1, <1>3, <1>4, <1>5

\* 0001, 0003 and 0004 create the tables of a list and put the policies on them.
LEMMA ListPlan ==
    ASSUME NEW S, NEW list \in Seq(S), NEW n \in Nat, DOMAIN list = 1 .. n, NEW policies,
           NEW q, q = Join(Creations(list), Secure(policies))
    PROVE  /\ \E at : Creating(q, list, n, at, policies)
           /\ q \in Seq({q[i] : i \in DOMAIN q})
           /\ \A i \in DOMAIN q : q[i].op \in {"create", "secure"}
<1>1. PICK T : T = {[op |-> "create", table |-> x] : x \in S}
                   \cup {[op |-> "secure", tables |-> policies]}
  OBVIOUS
<1>2. Len(list) = n
  OBVIOUS
<1>3. PICK c : c = Creations(list)
  OBVIOUS
<1>4. c \in Seq(T) /\ Len(c) = Len(list)
      /\ \A i \in 1 .. Len(list) : c[i].op = "create" /\ c[i].table = list[i]
  <2>1. \A x \in S : [op |-> "create", table |-> x] \in T
    BY <1>1
  <2> QED
    BY <1>3, <2>1, CreationsOf
<1>5. PICK s : s = Secure(policies)
  OBVIOUS
<1>6. s \in Seq(T) /\ Len(s) = 1 /\ s[1].op = "secure" /\ s[1].tables = policies
  BY <1>1, <1>5 DEF Secure
<1>7. c \in Seq(T) /\ s \in Seq(T) /\ q = Join(c, s)
  BY <1>3, <1>4, <1>5, <1>6
<1>8. /\ \A i \in 1 .. Len(c) : q[i] = c[i]
      /\ \A i \in 1 .. Len(s) : q[Len(c) + i] = s[i]
      /\ DOMAIN q = 1 .. Len(c) + Len(s)
  BY <1>7, ConcatIndexes
<1>9. q \in Seq(T)
  BY <1>7, ConcatLength
<1>10. Len(q) = Len(c) + Len(s)
  BY <1>7, ConcatLength
<1>11. /\ \A i \in 1 .. n : q[i].op = "create" /\ q[i].table = list[i]
       /\ q[n + 1].op = "secure" /\ q[n + 1].tables = policies
       /\ DOMAIN q = 1 .. n + 1 /\ Len(q) = n + 1
  BY <1>2, <1>4, <1>6, <1>8, <1>10
<1>12. \A i \in DOMAIN q : i \in 1 .. n \/ i = n + 1
  BY <1>11
<1>13. q \in Seq({q[i] : i \in DOMAIN q})
  BY <1>9, Elements
<1>14. PICK at : at = [i \in 1 .. n |-> i]
  OBVIOUS
<1>15. Creating(q, list, n, at, policies)
  BY <1>11, <1>12, <1>14 DEF Creating
<1> QED
  BY <1>11, <1>12, <1>13, <1>15

\* alembic upgrade of 0001, of 0003 or of 0004.
LEMMA ListUpgrade ==
    ASSUME MigrationInv, Upgrade, NEW S, NEW list \in Seq(S), NEW n \in Nat, NEW b \in Nat,
           NEW policies, DOMAIN list = 1 .. n,
           \A i \in 1 .. n : At(list[i], b + i),
           \A t \in policies : t \in Names /\ b < Number[t] /\ Number[t] <= b + n,
           \A t \in TenantTables :
              t \in Names /\ (b < Number[t] /\ Number[t] <= b + n => t \in policies),
           revision + 1 # 5, LastNumber[revision] = b, LastNumber[revision + 1] = b + n,
           Upgrades[revision + 1] = Join(Creations(list), Secure(policies))
    PROVE  MigrationInv'
<1>1. /\ plan = <<>> /\ ~failed /\ revision' = revision + 1 /\ plan' = Upgrades[revision + 1]
      /\ failed' = failed /\ tables' = tables /\ pointer' = pointer /\ secured' = secured
  BY DEF Upgrade, Idle
<1>2. revision \in 0 .. 4
  <2>1. Len(Upgrades) = 5
    BY DEF Upgrades
  <2> QED
    BY <2>1 DEF Upgrade, MigrationInv
<1>3. /\ tables = TablesAt[revision] /\ tables \subseteq Names /\ pointer = FALSE
      /\ secured \subseteq tables /\ tables \cap TenantTables \subseteq secured
  <2>1. pointer = (revision = 5) /\ revision # 5
    BY <1>1, <1>2, AtRest
  <2> QED
    BY <1>1, <2>1, AtRest
<1>4. PICK q : q = plan'
  OBVIOUS
<1>5. PICK r \in 1 .. 4 : r = revision + 1
  BY <1>2
<1>6. q = Join(Creations(list), Secure(policies))
  BY <1>1, <1>4
<1>7. PICK at : /\ Creating(q, list, n, at, policies)
                /\ q \in Seq({q[i] : i \in DOMAIN q})
                /\ \A i \in DOMAIN q : q[i].op \in {"create", "secure"}
  BY <1>6, ListPlan, ZenonT(60)
<1>8. /\ TablesAt[r - 1] = {t \in Names : Number[t] <= b}
      /\ TablesAt[r] = {t \in Names : Number[t] <= b + n}
  BY <1>2, <1>5, TablesByNumber
<1>9. \A t \in Names : Number[t] \in 1 .. 99
  BY CreationNumbered
<1>10. \A t \in policies : t \in TablesAt[r]
  BY <1>8
<1>11. ASSUME NEW t \in TenantTables, t \in TablesAt[r] \ TablesAt[r - 1]
       PROVE  t \in policies
  <2>1. PICK m \in 1 .. 99 : m = Number[t] /\ m <= b + n /\ ~(m <= b)
    BY <1>8, <1>9, <1>11
  <2> QED
    BY <2>1
<1>12. /\ Upgrading(r, b, n, list, policies) /\ Creating(plan', list, n, at, policies)
       /\ r \in 1 .. 5
  <2>1. tables = TablesAt[r - 1] /\ revision' = r
    BY <1>1, <1>2, <1>3, <1>5
  <2> QED
    BY <1>1, <1>3, <1>4, <1>5, <1>7, <1>8, <1>10, <1>11, <2>1 DEF Upgrading
<1>13. /\ CreatesInOrder'
       /\ \A i \in DOMAIN plan' : plan'[i].op = "secure" => \A t \in plan'[i].tables : Ready(i, t)'
       /\ tables' \subseteq TablesAt[r]
       /\ \A t \in TablesAt[r] : Ready(Len(plan) + 1, t)'
       /\ \A t \in TablesAt[r] \cap TenantTables :
            t \in secured' \/ \E i \in DOMAIN plan' : plan'[i].op = "secure" /\ t \in plan'[i].tables
  BY <1>12, UpgradeInOrder
<1>14. TablesAt' = TablesAt /\ TenantTables' = TenantTables
  BY DEF TablesAt, TenantTables
<1>15. Builds' /\ AddsInOrder'
  BY <1>4, <1>7, <1>13 DEF Builds, AddsInOrder
<1>16. LeadsUp'
  <2>1. revision' # 5 /\ pointer' = FALSE /\ \A i \in DOMAIN plan' : plan'[i].op # "add_key"
    BY <1>1, <1>3, <1>4, <1>7
  <2>2. revision' = r
    BY <1>1, <1>5
  <2> QED
    BY <1>13, <1>14, <2>1, <2>2 DEF LeadsUp
<1>17. plan' \in Seq({plan'[i] : i \in DOMAIN plan'})
  BY <1>4, <1>7
<1> QED
  BY <1>1, <1>2, <1>3, <1>13, <1>15, <1>16, <1>17 DEF MigrationInv, Building

\* A slice of a list.
LEMMA PartOf ==
    ASSUME NEW S, NEW s \in Seq(S), NEW m \in Nat, NEW n \in Nat, 1 <= m, m <= n, n <= Len(s),
           NEW c, c = SubSeq(s, m, n)
    PROVE  c \in Seq(S) /\ Len(c) = n - m + 1 /\ \A i \in 1 .. n - m + 1 : c[i] = s[m + i - 1]
OBVIOUS

\* 0005 creates fourteen tables, and adds the key after the fourth.
DiagnosticPlan(q) ==
    /\ q \in Seq({q[i] : i \in DOMAIN q}) /\ Len(q) = 16 /\ DOMAIN q = 1 .. 16
    /\ \A i \in 1 .. 4 : q[i].op = "create" /\ q[i].table = DiagnosticTables[i]
    /\ q[5].op = "add_key" /\ q[5].key = CurrentVersion
    /\ \A i \in 1 .. 10 : q[5 + i].op = "create" /\ q[5 + i].table = DiagnosticTables[4 + i]
    /\ q[16].op = "secure" /\ q[16].tables = DiagnosticPolicies

LEMMA DiagnosticUpgradePlan ==
    ASSUME NEW q, q = DiagnosticUpgrade
    PROVE  DiagnosticPlan(q)
<1> DEFINE S == {DiagnosticTables[i] : i \in DOMAIN DiagnosticTables}
           T == {[op |-> "create", table |-> x] : x \in S}
                \cup {[op |-> "add_key", key |-> CurrentVersion],
                      [op |-> "secure", tables |-> DiagnosticPolicies]}
<1>1. DiagnosticTables \in Seq(S)
  BY DEF DiagnosticTables
<1>2. Len(DiagnosticTables) = 14
  BY DEF DiagnosticTables
<1>3. PICK k : k = AddKey(CurrentVersion)
  OBVIOUS
<1>4. k \in Seq(T) /\ Len(k) = 1 /\ k[1].op = "add_key" /\ k[1].key = CurrentVersion
  BY <1>3 DEF AddKey
<1>5. PICK s : s = Secure(DiagnosticPolicies)
  OBVIOUS
<1>6. s \in Seq(T) /\ Len(s) = 1 /\ s[1].op = "secure" /\ s[1].tables = DiagnosticPolicies
  BY <1>5 DEF Secure
<1>7. \A x \in S : [op |-> "create", table |-> x] \in T
  OBVIOUS
<1> HIDE DEF S, T
<1>8. PICK a : a = SubSeq(DiagnosticTables, 1, 4)
  OBVIOUS
<1>9. PICK b : b = SubSeq(DiagnosticTables, 5, Len(DiagnosticTables))
  OBVIOUS
<1>10. a \in Seq(S) /\ Len(a) = 4 /\ \A i \in 1 .. 4 : a[i] = DiagnosticTables[i]
  <2>1. PICK m \in Nat, n \in Nat : m = 1 /\ n = 4
    OBVIOUS
  <2>2. 1 <= m /\ m <= n /\ n <= Len(DiagnosticTables) /\ a = SubSeq(DiagnosticTables, m, n)
    BY <1>2, <1>8, <2>1
  <2>3. /\ a \in Seq(S) /\ Len(a) = n - m + 1
        /\ \A i \in 1 .. n - m + 1 : a[i] = DiagnosticTables[m + i - 1]
    BY <1>1, <2>2, PartOf
  <2> QED
    BY <2>1, <2>3
<1>11. b \in Seq(S) /\ Len(b) = 10 /\ \A i \in 1 .. 10 : b[i] = DiagnosticTables[4 + i]
  <2>1. PICK m \in Nat, n \in Nat : m = 5 /\ n = 14
    OBVIOUS
  <2>2. 1 <= m /\ m <= n /\ n <= Len(DiagnosticTables) /\ b = SubSeq(DiagnosticTables, m, n)
    BY <1>2, <1>9, <2>1
  <2>3. /\ b \in Seq(S) /\ Len(b) = n - m + 1
        /\ \A i \in 1 .. n - m + 1 : b[i] = DiagnosticTables[m + i - 1]
    BY <1>1, <2>2, PartOf
  <2> QED
    BY <2>1, <2>3
<1>12. PICK c : c = Creations(a)
  OBVIOUS
<1>13. c \in Seq(T) /\ Len(c) = 4
       /\ \A i \in 1 .. 4 : c[i].op = "create" /\ c[i].table = DiagnosticTables[i]
  <2>1. a \in Seq(S)
    BY <1>10
  <2>2. c \in Seq(T) /\ Len(c) = Len(a)
        /\ \A i \in 1 .. Len(a) : c[i].op = "create" /\ c[i].table = a[i]
    BY <1>7, <1>12, <2>1, CreationsOf
  <2> QED
    BY <1>10, <2>2
<1>14. PICK d : d = Creations(b)
  OBVIOUS
<1>15. d \in Seq(T) /\ Len(d) = 10
       /\ \A i \in 1 .. 10 : d[i].op = "create" /\ d[i].table = DiagnosticTables[4 + i]
  <2>1. b \in Seq(S)
    BY <1>11
  <2>2. d \in Seq(T) /\ Len(d) = Len(b)
        /\ \A i \in 1 .. Len(b) : d[i].op = "create" /\ d[i].table = b[i]
    BY <1>7, <1>14, <2>1, CreationsOf
  <2> QED
    BY <1>11, <2>2
<1>16. c \in Seq(T) /\ k \in Seq(T) /\ d \in Seq(T) /\ s \in Seq(T)
  BY <1>4, <1>6, <1>13, <1>15
<1>17. Len(c) = 4 /\ Len(k) = 1 /\ Len(d) = 10 /\ Len(s) = 1
  BY <1>4, <1>6, <1>13, <1>15
<1>18. PICK x : x = Join(c, k)
  OBVIOUS
<1>19. x \in Seq(T)
  BY <1>16, <1>18, ConcatLength
<1>20. Len(x) = Len(c) + Len(k)
  BY <1>16, <1>18, ConcatLength
<1>21. /\ \A i \in 1 .. Len(c) : x[i] = c[i]
       /\ \A i \in 1 .. Len(k) : x[Len(c) + i] = k[i]
  <2>1. c \in Seq(T) /\ k \in Seq(T)
    BY <1>16
  <2> QED
    BY <1>18, <2>1, ConcatIndexes
<1>22. PICK y : y = Join(x, d)
  OBVIOUS
<1>23. y \in Seq(T)
  BY <1>16, <1>19, <1>22, ConcatLength
<1>24. Len(y) = Len(x) + Len(d)
  BY <1>16, <1>19, <1>22, ConcatLength
<1>25. /\ \A i \in 1 .. Len(x) : y[i] = x[i]
       /\ \A i \in 1 .. Len(d) : y[Len(x) + i] = d[i]
  <2>1. x \in Seq(T) /\ d \in Seq(T)
    BY <1>16, <1>19
  <2> QED
    BY <1>22, <2>1, ConcatIndexes
<1>26. q = Join(y, s)
  BY <1>3, <1>5, <1>8, <1>9, <1>12, <1>14, <1>18, <1>22 DEF DiagnosticUpgrade, Join
<1>27. q \in Seq(T)
  BY <1>16, <1>23, <1>26, ConcatLength
<1>28. Len(q) = Len(y) + Len(s)
  BY <1>16, <1>23, <1>26, ConcatLength
<1>29. /\ \A i \in 1 .. Len(y) : q[i] = y[i]
       /\ \A i \in 1 .. Len(s) : q[Len(y) + i] = s[i]
       /\ DOMAIN q = 1 .. Len(y) + Len(s)
  <2>1. y \in Seq(T) /\ s \in Seq(T)
    BY <1>16, <1>23
  <2> QED
    BY <1>26, <2>1, ConcatIndexes
<1>30. Len(x) = 5 /\ Len(y) = 15 /\ Len(q) = 16 /\ DOMAIN q = 1 .. 16
  BY <1>17, <1>20, <1>24, <1>28, <1>29
<1>31. (\A i \in 1 .. 4 : x[i] = c[i]) /\ x[5] = k[1]
  BY <1>17, <1>21
<1>32. (\A i \in 1 .. 5 : y[i] = x[i]) /\ \A i \in 1 .. 10 : y[5 + i] = d[i]
  BY <1>17, <1>25, <1>30
<1>33. (\A i \in 1 .. 15 : q[i] = y[i]) /\ q[16] = s[1]
  BY <1>17, <1>29, <1>30
<1>34. (\A i \in 1 .. 4 : q[i] = c[i]) /\ q[5] = k[1]
  BY <1>31, <1>32, <1>33
<1>35. ASSUME NEW i \in 1 .. 10
       PROVE  q[5 + i] = d[i]
  <2>1. 5 + i \in 1 .. 15
    OBVIOUS
  <2> QED
    BY <1>32, <1>33, <2>1
<1>36. q \in Seq({q[i] : i \in DOMAIN q})
  BY <1>27, Elements
<1> QED
  BY <1>4, <1>6, <1>13, <1>15, <1>30, <1>33, <1>34, <1>35, <1>36 DEF DiagnosticPlan

\* alembic upgrade of 0005.
LEMMA DiagnosticUpgradeBuilds ==
    ASSUME MigrationInv, Upgrade, revision = 4
    PROVE  MigrationInv'
<1>1. /\ plan = <<>> /\ ~failed /\ revision' = 5 /\ plan' = DiagnosticUpgrade
      /\ failed' = failed /\ tables' = tables /\ pointer' = pointer /\ secured' = secured
  <2>1. Upgrades[5] = DiagnosticUpgrade
    BY DEF Upgrades
  <2> QED
    BY <2>1 DEF Upgrade, Idle
<1>2. /\ tables = TablesAt[4] /\ tables \subseteq Names /\ pointer = FALSE
      /\ secured \subseteq tables /\ tables \cap TenantTables \subseteq secured
  <2>1. pointer = (revision = 5) /\ revision # 5
    BY <1>1, AtRest
  <2> QED
    BY <1>1, <2>1, AtRest
<1>3. PICK q : q = plan'
  OBVIOUS
<1>4. /\ q \in Seq({q[i] : i \in DOMAIN q}) /\ Len(q) = 16 /\ DOMAIN q = 1 .. 16
      /\ \A i \in 1 .. 4 : q[i].op = "create" /\ q[i].table = DiagnosticTables[i]
      /\ q[5].op = "add_key" /\ q[5].key = CurrentVersion
      /\ \A i \in 1 .. 10 : q[5 + i].op = "create" /\ q[5 + i].table = DiagnosticTables[4 + i]
      /\ q[16].op = "secure" /\ q[16].tables = DiagnosticPolicies
  <2>1. q = DiagnosticUpgrade
    BY <1>1, <1>3
  <2> QED
    <3>1. DiagnosticPlan(q)
      BY <2>1, DiagnosticUpgradePlan
    <3> QED
      BY <3>1 DEF DiagnosticPlan
<1>5. \A i \in 1 .. 16 : i \in 1 .. 4 \/ i = 5 \/ (\E j \in 1 .. 10 : i = 5 + j) \/ i = 16
  <2> TAKE i \in 1 .. 16
  <2>1. CASE 5 < i /\ i < 16
    <3>1. i - 5 \in 1 .. 10 /\ i = 5 + (i - 5)
      BY <2>1
    <3> QED
      BY <3>1
  <2> QED
    BY <2>1
<1>6. PICK at : at = [i \in 1 .. 14 |-> IF i <= 4 THEN i ELSE i + 1]
  OBVIOUS
<1>7. ASSUME NEW i \in 1 .. 14
      PROVE  /\ at[i] \in DOMAIN q /\ at[i] < 16 /\ (i <= 4 => at[i] = i) /\ (4 < i => at[i] = i + 1)
             /\ q[at[i]].op = "create" /\ q[at[i]].table = DiagnosticTables[i]
  <2>1. CASE i <= 4
    <3>1. i \in 1 .. 4 /\ at[i] = i
      BY <1>6, <2>1
    <3> QED
      BY <1>4, <3>1
  <2>2. CASE 4 < i
    <3>1. PICK j \in 1 .. 10 : i = 4 + j
      <4>1. i - 4 \in 1 .. 10 /\ i = 4 + (i - 4)
        BY <2>2
      <4> QED
        BY <4>1
    <3>2. at[i] = 5 + j /\ at[i] = i + 1
      BY <1>6, <2>2, <3>1
    <3> QED
      BY <1>4, <2>2, <3>1, <3>2, SMTT(30)
  <2> QED
    BY <2>1, <2>2
<1>8. \A i, j \in 1 .. 14 : i < j => at[i] < at[j]
  BY <1>6
<1>9. ASSUME NEW k \in DOMAIN q, q[k].op = "create"
      PROVE  \E i \in 1 .. 14 : k = at[i]
  <2>1. CASE k \in 1 .. 4
    BY <1>7, <2>1
  <2>2. ASSUME NEW j \in 1 .. 10, k = 5 + j
        PROVE  \E i \in 1 .. 14 : k = at[i]
    <3>1. 4 + j \in 1 .. 14 /\ 4 < 4 + j /\ (4 + j) + 1 = k
      BY <2>2
    <3> QED
      BY <1>7, <3>1
  <2> QED
    BY <1>4, <1>5, <1>9, <2>1, <2>2
<1>10. \A k \in DOMAIN q : q[k].op = "secure" <=> k = 16
  BY <1>4, <1>5
<1>11. Creating(q, DiagnosticTables, 14, at, DiagnosticPolicies)
  BY <1>4, <1>7, <1>8, <1>9, <1>10, SMTT(30) DEF Creating
<1>12. PICK r \in 1 .. 5 : r = 5
  OBVIOUS
<1>13. PICK b \in Nat : b = 85
  OBVIOUS
<1>14. PICK n \in Nat : n = 14
  OBVIOUS
<1>15. /\ TablesAt[4] = {t \in Names : Number[t] <= 85}
       /\ TablesAt[5] = {t \in Names : Number[t] <= 99}
  <2>1. LastNumber[4] = 85 /\ LastNumber[5] = 99
    BY DEF LastNumber
  <2> QED
    BY <2>1, TablesByNumber
<1>16. Upgrading(r, b, n, DiagnosticTables, DiagnosticPolicies)
  <2>1. \A i \in 1 .. n : At(DiagnosticTables[i], b + i)
    BY <1>13, <1>14, DiagnosticTablesNumbered, CreationIndexes
  <2>2. /\ TablesAt[r - 1] = {t \in Names : Number[t] <= b}
        /\ TablesAt[r] = {t \in Names : Number[t] <= b + n}
    BY <1>12, <1>13, <1>14, <1>15
  <2>3. \A t \in Names : Number[t] \in 1 .. 99
    BY CreationNumbered
  <2>4. DiagnosticPolicies \subseteq TablesAt[r]
    BY <1>12, <1>15, <2>3, PoliciesNumbered
  <2>5. (TablesAt[r] \ TablesAt[r - 1]) \cap TenantTables \subseteq DiagnosticPolicies
    BY <1>12, <1>15, <2>3, TenantTablesGuarded
  <2>6. tables = TablesAt[r - 1] /\ revision' = r
    BY <1>1, <1>2, <1>12
  <2> QED
    BY <1>1, <1>2, <2>1, <2>2, <2>4, <2>5, <2>6 DEF Upgrading
<1>17. Creating(plan', DiagnosticTables, n, at, DiagnosticPolicies)
  BY <1>3, <1>11, <1>14
<1>18. /\ CreatesInOrder'
       /\ \A i \in 1 .. n : \A k \in Nat : at[i] < k => Ready(k, DiagnosticTables[i].name)'
       /\ \A i \in DOMAIN plan' : plan'[i].op = "secure" => \A t \in plan'[i].tables : Ready(i, t)'
       /\ tables' \subseteq TablesAt[r]
       /\ \A t \in TablesAt[r] : Ready(Len(plan) + 1, t)'
       /\ \A t \in TablesAt[r] \cap TenantTables :
            t \in secured' \/ \E i \in DOMAIN plan' : plan'[i].op = "secure" /\ t \in plan'[i].tables
  BY <1>16, <1>17, UpgradeInOrder
<1>19. TablesAt' = TablesAt /\ TenantTables' = TenantTables
  BY DEF TablesAt, TenantTables
<1>20. Builds'
  BY <1>3, <1>4, <1>5 DEF Builds
<1>21. \A i \in DOMAIN plan' : plan'[i].op = "add_key" => i = 5
  BY <1>3, <1>4, <1>5
<1>22. Ready(5, CurrentVersion.from)' /\ Ready(5, CurrentVersion.to)'
  <2>1. Ready(5, DiagnosticTables[3].name)' /\ Ready(5, DiagnosticTables[4].name)'
    <3>1. at[3] < 5 /\ at[4] < 5
      BY <1>7
    <3> QED
      BY <1>14, <1>18, <3>1
  <2>2. /\ DiagnosticTables[3].name = CurrentVersion.from
        /\ DiagnosticTables[4].name = CurrentVersion.to
    BY DEF DiagnosticTables, diagnostic_rule_definitions, diagnostic_rule_versions, Shared,
           Global, CurrentVersion, KeyOf, MaybeRef, ForeignKey
  <2> QED
    BY <2>1, <2>2
<1>23. AddsInOrder'
  <2>1. plan'[5].key = CurrentVersion
    BY <1>3, <1>4
  <2> QED
    BY <1>18, <1>21, <1>22, <2>1 DEF AddsInOrder
<1>24. LeadsUp'
  <2>1. revision' = 5 /\ \E i \in DOMAIN plan' : plan'[i].op = "add_key"
    BY <1>1, <1>3, <1>4
  <2> QED
    BY <1>12, <1>18, <1>19, <2>1 DEF LeadsUp
<1>25. plan' \in Seq({plan'[i] : i \in DOMAIN plan'})
  BY <1>3, <1>4
<1> QED
  BY <1>1, <1>2, <1>18, <1>20, <1>23, <1>24, <1>25 DEF MigrationInv, Building

\* alembic upgrade +1.
LEMMA UpgradeBuilds ==
    ASSUME MigrationInv, Upgrade
    PROVE  MigrationInv'
<1>1. revision \in 0 .. 4
  <2>1. Len(Upgrades) = 5
    BY DEF Upgrades
  <2> QED
    BY <2>1 DEF Upgrade, MigrationInv
<1>2. \A t \in TenantTables : t \in Names
  BY TenantTablesGuarded
<1>3. CASE revision = 0
  <2>1. IdentityTables \in Seq({IdentityTables[i] : i \in DOMAIN IdentityTables})
    BY DEF IdentityTables
  <2>2. PICK n \in Nat, b \in Nat : n = 23 /\ b = 0
    OBVIOUS
  <2>3. DOMAIN IdentityTables = 1 .. n
    BY <2>2, CreationIndexes
  <2>4. \A i \in 1 .. n : At(IdentityTables[i], b + i)
    BY <2>2, <2>3, IdentityTablesNumbered
  <2>5. \A t \in Names : Number[t] \in 1 .. 99
    BY CreationNumbered
  <2>6. \A t \in IdentityPolicies : t \in Names /\ b < Number[t] /\ Number[t] <= b + n
    BY <2>2, <2>5, PoliciesNumbered
  <2>7. \A t \in TenantTables :
           t \in Names /\ (b < Number[t] /\ Number[t] <= b + n => t \in IdentityPolicies)
    BY <2>2, TenantTablesGuarded
  <2>8. LastNumber[revision] = b /\ LastNumber[revision + 1] = b + n /\ revision + 1 # 5
    BY <1>3, <2>2 DEF LastNumber
  <2>9. Upgrades[revision + 1] = Join(Creations(IdentityTables), Secure(IdentityPolicies))
    BY <1>3 DEF Upgrades, Join
  <2> QED
    BY <2>1, <2>3, <2>4, <2>6, <2>7, <2>8, <2>9, ListUpgrade
<1>4. CASE revision = 2
  <2>1. CanonicalTables \in Seq({CanonicalTables[i] : i \in DOMAIN CanonicalTables})
    BY DEF CanonicalTables
  <2>2. PICK n \in Nat, b \in Nat : n = 52 /\ b = 23
    OBVIOUS
  <2>3. DOMAIN CanonicalTables = 1 .. n
    BY <2>2, CreationIndexes
  <2>4. \A i \in 1 .. n : At(CanonicalTables[i], b + i)
    BY <2>2, <2>3, CanonicalTablesNumbered
  <2>6. \A t \in CanonicalPolicies : t \in Names /\ b < Number[t] /\ Number[t] <= b + n
    BY <2>2, PoliciesNumbered
  <2>7. \A t \in TenantTables :
           t \in Names /\ (b < Number[t] /\ Number[t] <= b + n => t \in CanonicalPolicies)
    BY <2>2, TenantTablesGuarded
  <2>8. LastNumber[revision] = b /\ LastNumber[revision + 1] = b + n /\ revision + 1 # 5
    BY <1>4, <2>2 DEF LastNumber
  <2>9. Upgrades[revision + 1] = Join(Creations(CanonicalTables), Secure(CanonicalPolicies))
    BY <1>4 DEF Upgrades, Join
  <2> QED
    BY <2>1, <2>3, <2>4, <2>6, <2>7, <2>8, <2>9, ListUpgrade
<1>5. CASE revision = 3
  <2>1. AnalyticsTables \in Seq({AnalyticsTables[i] : i \in DOMAIN AnalyticsTables})
    BY DEF AnalyticsTables
  <2>2. PICK n \in Nat, b \in Nat : n = 10 /\ b = 75
    OBVIOUS
  <2>3. DOMAIN AnalyticsTables = 1 .. n
    BY <2>2, CreationIndexes
  <2>4. \A i \in 1 .. n : At(AnalyticsTables[i], b + i)
    BY <2>2, <2>3, AnalyticsTablesNumbered
  <2>6. \A t \in AnalyticsPolicies : t \in Names /\ b < Number[t] /\ Number[t] <= b + n
    BY <2>2, PoliciesNumbered
  <2>7. \A t \in TenantTables :
           t \in Names /\ (b < Number[t] /\ Number[t] <= b + n => t \in AnalyticsPolicies)
    BY <2>2, TenantTablesGuarded
  <2>8. LastNumber[revision] = b /\ LastNumber[revision + 1] = b + n /\ revision + 1 # 5
    BY <1>5, <2>2 DEF LastNumber
  <2>9. Upgrades[revision + 1] = Join(Creations(AnalyticsTables), Secure(AnalyticsPolicies))
    BY <1>5 DEF Upgrades, Join
  <2> QED
    BY <2>1, <2>3, <2>4, <2>6, <2>7, <2>8, <2>9, ListUpgrade
<1>6. CASE revision = 1
  <2>1. /\ plan = <<>> /\ ~failed /\ revision' = 2 /\ plan' = <<>>
        /\ failed' = failed /\ tables' = tables /\ pointer' = pointer /\ secured' = secured
    <3>1. Upgrades[2] = <<>>
      BY DEF Upgrades
    <3> QED
      BY <1>6, <3>1 DEF Upgrade, Idle
  <2>2. TablesAt[2] = TablesAt[1]
    <3>1. LastNumber[2] = LastNumber[1]
      BY DEF LastNumber
    <3> QED
      BY <3>1, TablesByNumber
  <2>3. /\ tables = TablesAt[1] /\ pointer = FALSE
        /\ secured \subseteq tables /\ tables \cap TenantTables \subseteq secured
    <3>1. pointer = (revision = 5) /\ revision # 5
      BY <1>6, <2>1, AtRest
    <3> QED
      BY <1>6, <2>1, <3>1, AtRest
  <2>4. TablesAt' = TablesAt /\ TenantTables' = TenantTables
    BY DEF TablesAt, TenantTables
  <2>5. PICK q : q = plan'
    OBVIOUS
  <2>6. q = <<>> /\ DOMAIN q = {} /\ q \in Seq({q[i] : i \in DOMAIN q})
    BY <2>1, <2>5
  <2>7. \A t \in tables : Ready(Len(plan) + 1, t)'
    BY <2>1 DEF Ready
  <2>8. Building'
    BY <2>1, <2>2, <2>3, <2>4, <2>5, <2>6, <2>7
       DEF Building, Builds, CreatesInOrder, AddsInOrder, LeadsUp
  <2> QED
    BY <2>1, <2>3, <2>5, <2>6, <2>8 DEF MigrationInv
<1>7. CASE revision = 4
  BY <1>7, DiagnosticUpgradeBuilds
<1> QED
  BY <1>1, <1>3, <1>4, <1>5, <1>6, <1>7

----------------------------------------------------------------------------
(* Migrations: a downgrade begins.                                         *)

\* A plan that drops the tables of a list in its order.
Dropping(q, drops, n, at) ==
    /\ Len(q) \in Nat /\ DOMAIN q = 1 .. Len(q)
    /\ \A i \in 1 .. n : at[i] \in DOMAIN q /\ q[at[i]].op = "drop" /\ q[at[i]].table = drops[i]
    /\ \A i, j \in 1 .. n : i < j => at[i] < at[j]
    /\ \A k \in DOMAIN q : q[k].op = "drop" => \E i \in 1 .. n : k = at[i]
    /\ \A k \in DOMAIN q : q[k].op \in {"drop", "drop_key"}

\* The downgrade of a revision begins.  Its tables are those of the one before
\* and the n of the list, the highest first.
Downgrading(r, b, n, drops) ==
    /\ TablesAt[r - 1] = {t \in Names : Height[t] <= b}
    /\ TablesAt[r] = {t \in Names : Height[t] <= b + n}
    /\ \A i \in 1 .. n : drops[i] \in Names /\ Height[drops[i]] = (b + n + 1) - i
    /\ \A t \in Names : \A i \in 1 .. n : Height[t] = (b + n + 1) - i => drops[i] = t
    /\ tables = TablesAt[r] /\ tables' = tables /\ revision' = r - 1

\* From the highest down, what refers to a table is dropped before it.
LEMMA DowngradeInOrder ==
    ASSUME NEW r \in 1 .. 5, NEW b \in Nat, NEW n \in Nat, NEW drops, NEW at,
           Downgrading(r, b, n, drops), Dropping(plan', drops, n, at)
    PROVE  /\ \A i \in DOMAIN plan' : plan'[i].op = "drop" =>
                /\ plan'[i].table \in tables' \ TablesAt[r - 1]
                /\ \A k \in KeysTo[plan'[i].table] :
                     k.from \in tables' \ {plan'[i].table} =>
                         k = CurrentVersion \/ Gone(i, k.from)'
                /\ \A j \in DOMAIN plan' :
                     plan'[j].op = "drop" /\ plan'[j].table = plan'[i].table => i = j
           /\ TablesAt[r - 1] \subseteq tables' /\ tables' \subseteq TableNames
           /\ \A t \in tables' : t \in TablesAt[r - 1] \/ Gone(Len(plan) + 1, t)'
<1>1. PICK q : q = plan'
  OBVIOUS
<1>2. Dropping(q, drops, n, at)
  BY <1>1
<1>3. \A t \in Names : Height[t] \in 1 .. 99
  BY HeightsAreDropped
<1>4. tables' = {t \in Names : Height[t] <= b + n}
      /\ TablesAt[r - 1] = {t \in Names : Height[t] <= b}
  BY DEF Downgrading
<1>5. ASSUME NEW t \in Names, b < Height[t], Height[t] <= b + n
      PROVE  \E i \in 1 .. n : Height[t] = (b + n + 1) - i /\ drops[i] = t
  <2>1. PICK h \in 1 .. 99 : h = Height[t]
    BY <1>3
  <2>2. PICK i : i = (b + n + 1) - h
    OBVIOUS
  <2>3. i \in 1 .. n /\ h = (b + n + 1) - i
    BY <1>5, <2>1, <2>2
  <2>4. drops[i] = t
    BY <2>1, <2>3 DEF Downgrading
  <2> QED
    BY <2>1, <2>3, <2>4
<1>6. ASSUME NEW i \in 1 .. n, NEW k \in Nat, at[i] < k
      PROVE  Gone(k, drops[i])'
  <2>1. at[i] \in DOMAIN q /\ q[at[i]].op = "drop" /\ q[at[i]].table = drops[i]
    BY <1>2 DEF Dropping
  <2> QED
    BY <1>1, <1>6, <2>1 DEF Gone
<1>7. ASSUME NEW i \in 1 .. n
      PROVE  /\ drops[i] \in tables' \ TablesAt[r - 1]
             /\ \A k \in KeysTo[drops[i]] : k.from \in tables' \ {drops[i]} =>
                  k = CurrentVersion \/ Gone(at[i], k.from)'
             /\ \A j \in 1 .. n : drops[i] = drops[j] => i = j
  <2>1. drops[i] \in Names /\ Height[drops[i]] = (b + n + 1) - i
    BY DEF Downgrading
  <2>2. drops[i] \in tables' \ TablesAt[r - 1]
    <3>1. (b + n + 1) - i <= b + n /\ ~((b + n + 1) - i <= b)
      OBVIOUS
    <3> QED
      BY <1>4, <2>1, <3>1
  <2>3. ASSUME NEW k \in KeysTo[drops[i]], k.from \in tables' \ {drops[i]}, k # CurrentVersion
        PROVE  Gone(at[i], k.from)'
    <3>1. k \in Keys /\ k.to = drops[i]
      BY <2>1, CreationNumbered DEF KeysTo
    <3>2. Height[k.to] < Height[k.from] /\ k.from \in Names
      BY <2>3, <3>1, KeysNumbered
    <3>3. PICK t \in Names : t = k.from
      BY <3>2
    <3>4. PICK h \in 1 .. 99 : h = Height[t] /\ h <= b + n
      BY <1>3, <1>4, <2>3, <3>3
    <3>5. (b + n + 1) - i < h /\ b < h
      BY <2>1, <3>1, <3>2, <3>3, <3>4
    <3>6. PICK j \in 1 .. n : Height[t] = (b + n + 1) - j /\ drops[j] = t
      BY <1>5, <3>4, <3>5
    <3>7. j < i
      BY <3>4, <3>5, <3>6
    <3>8. at[j] < at[i] /\ at[i] \in Nat
      BY <1>2, <3>7 DEF Dropping
    <3>9. Gone(at[i], drops[j])'
      BY <1>6, <3>8
    <3> QED
      BY <3>3, <3>6, <3>9
  <2>4. \A j \in 1 .. n : drops[i] = drops[j] => i = j
    <3>1. \A j \in 1 .. n : Height[drops[j]] = (b + n + 1) - j
      BY DEF Downgrading
    <3> QED
      BY <3>1
  <2> QED
    BY <2>2, <2>3, <2>4
<1>8. ASSUME NEW i \in DOMAIN q, q[i].op = "drop"
      PROVE  /\ q[i].table \in tables' \ TablesAt[r - 1]
             /\ \A k \in KeysTo[q[i].table] : k.from \in tables' \ {q[i].table} =>
                  k = CurrentVersion \/ Gone(i, k.from)'
             /\ \A j \in DOMAIN q : q[j].op = "drop" /\ q[j].table = q[i].table => i = j
  <2>1. PICK m \in 1 .. n : i = at[m] /\ q[i].table = drops[m]
    BY <1>2, <1>8 DEF Dropping
  <2>2. ASSUME NEW j \in DOMAIN q, q[j].op = "drop", q[j].table = q[i].table
        PROVE  i = j
    <3>1. PICK l \in 1 .. n : j = at[l] /\ q[j].table = drops[l]
      <4>1. PICK l \in 1 .. n : j = at[l]
        BY <1>2, <2>2 DEF Dropping
      <4> QED
        BY <1>2, <4>1 DEF Dropping
    <3> QED
      BY <1>7, <2>1, <2>2, <3>1
  <2> QED
    BY <1>7, <2>1, <2>2
<1>9. ASSUME NEW t \in tables', t \notin TablesAt[r - 1]
      PROVE  Gone(Len(plan) + 1, t)'
  <2>1. PICK k \in Nat : k = Len(q) + 1
    BY <1>2 DEF Dropping
  <2>2. PICK h \in 1 .. 99 : h = Height[t] /\ t \in Names /\ h <= b + n /\ ~(h <= b)
    BY <1>3, <1>4, <1>9
  <2>3. PICK i \in 1 .. n : drops[i] = t
    BY <1>5, <2>2
  <2>4. at[i] < k
    BY <1>2, <2>1 DEF Dropping
  <2>5. Gone(k, t)'
    BY <1>6, <2>3, <2>4
  <2> QED
    BY <1>1, <2>1, <2>5
<1>10. TablesAt[r - 1] \subseteq tables'
  <2>1. \A t \in TablesAt[r - 1] : t \in tables'
    <3> TAKE t \in TablesAt[r - 1]
    <3>1. PICK h \in 1 .. 99 : h = Height[t] /\ t \in Names /\ h <= b
      BY <1>3, <1>4
    <3>2. h <= b + n
      BY <3>1
    <3> QED
      BY <1>4, <3>1, <3>2
  <2> QED
    BY <2>1
<1>11. tables' \subseteq TableNames
  BY <1>4, CreationNumbered
<1> QED
  BY <1>1, <1>8, <1>9, <1>10, <1>11

\* The tables of a revision are those up to a height.
LEMMA TablesByHeight ==
    ASSUME NEW r \in 0 .. 5
    PROVE  TablesAt[r] = {t \in Names : Height[t] <= LastNumber[r]}
BY HeightsAreDropped, TablesByNumber

\* The last table by its height is dropped first.
DropsOfHeights(drops, n, b) ==
    /\ \A i \in 1 .. n : drops[i] \in Names /\ Height[drops[i]] = (b + n + 1) - i
    /\ \A t \in Names : \A i \in 1 .. n : Height[t] = (b + n + 1) - i => drops[i] = t

\* The state in which a downgrade begins.
LEMMA DowngradeBegins ==
    ASSUME MigrationInv, Downgrade, NEW n \in Nat, NEW b \in Nat, NEW drops,
           DropsOfHeights(drops, n, b),
           LastNumber[revision] = b + n, LastNumber[revision - 1] = b
    PROVE  /\ revision \in 1 .. 5 /\ Downgrading(revision, b, n, drops)
           /\ revision' = revision - 1 /\ plan' = Downgrades[revision]
           /\ failed' = failed /\ ~failed' /\ tables' = tables
           /\ pointer' = (revision = 5) /\ secured' = secured
           /\ secured \subseteq tables /\ tables \cap TenantTables \subseteq secured
<1>1. /\ plan = <<>> /\ ~failed /\ revision' = revision - 1 /\ plan' = Downgrades[revision]
      /\ failed' = failed /\ tables' = tables /\ pointer' = pointer /\ secured' = secured
      /\ revision > 0
  BY DEF Downgrade, Idle
<1>2. revision \in 1 .. 5
  BY <1>1 DEF MigrationInv
<1>3. /\ tables = TablesAt[revision] /\ pointer = (revision = 5)
      /\ secured \subseteq tables /\ tables \cap TenantTables \subseteq secured
  BY <1>1, AtRest
<1>4. PICK r \in 1 .. 5 : r = revision
  BY <1>2
<1>5. TablesAt[r] = {t \in Names : Height[t] <= b + n}
      /\ TablesAt[r - 1] = {t \in Names : Height[t] <= b}
  <2>1. r \in 0 .. 5 /\ r - 1 \in 0 .. 5
    BY <1>4
  <2> QED
    BY <1>4, <2>1, TablesByHeight
<1>6. Downgrading(r, b, n, drops)
  BY <1>1, <1>3, <1>4, <1>5 DEF Downgrading, DropsOfHeights
<1> QED
  BY <1>1, <1>2, <1>3, <1>4, <1>6

\* alembic downgrade of 0001, of 0003 or of 0004.
LEMMA ListDowngrade ==
    ASSUME MigrationInv, Downgrade, NEW S, NEW drops \in Seq(S), NEW n \in Nat, NEW b \in Nat,
           DOMAIN drops = 1 .. n, DropsOfHeights(drops, n, b), revision # 5,
           LastNumber[revision] = b + n, LastNumber[revision - 1] = b,
           Downgrades[revision] = Drops(drops)
    PROVE  MigrationInv'
<1>1. /\ revision \in 1 .. 4 /\ Downgrading(revision, b, n, drops)
      /\ revision' = revision - 1 /\ plan' = Drops(drops)
      /\ ~failed' /\ tables' = tables /\ pointer' = FALSE /\ secured' = secured
      /\ secured \subseteq tables /\ tables \cap TenantTables \subseteq secured
  <2>1. /\ revision \in 1 .. 5 /\ Downgrading(revision, b, n, drops)
        /\ revision' = revision - 1 /\ plan' = Downgrades[revision]
        /\ failed' = failed /\ ~failed' /\ tables' = tables
        /\ pointer' = (revision = 5) /\ secured' = secured
        /\ secured \subseteq tables /\ tables \cap TenantTables \subseteq secured
    BY DowngradeBegins
  <2>2. revision \in 1 .. 4
    <3>1. PICK m \in 1 .. 5 : m = revision
      BY <2>1
    <3> QED
      BY <3>1
  <2>3. pointer' = FALSE
    BY <2>1
  <2>4. plan' = Drops(drops)
    BY <2>1
  <2> QED
    BY <2>1, <2>2, <2>3, <2>4
<1>2. PICK r \in 1 .. 4 : r = revision
  BY <1>1
<1>3. PICK q : q = plan'
  OBVIOUS
<1>4. PICK T : T = {[op |-> "drop", table |-> x] : x \in S}
  OBVIOUS
<1>5. q \in Seq(T) /\ Len(q) = Len(drops)
      /\ \A i \in 1 .. Len(drops) : q[i].op = "drop" /\ q[i].table = drops[i]
  <2>1. \A x \in S : [op |-> "drop", table |-> x] \in T
    BY <1>4
  <2> QED
    BY <1>1, <1>3, <2>1, DropsOf, ZenonT(60)
<1>6. Len(drops) = n
  OBVIOUS
<1>7. q \in Seq({q[i] : i \in DOMAIN q})
  BY <1>5, Elements
<1>8. Len(q) = n /\ DOMAIN q = 1 .. n
  BY <1>5, <1>6
<1>9. PICK at : at = [i \in 1 .. n |-> i]
  OBVIOUS
<1>10. Dropping(q, drops, n, at)
  BY <1>5, <1>6, <1>8, <1>9 DEF Dropping
<1>11. /\ \A i \in DOMAIN plan' : plan'[i].op = "drop" =>
            /\ plan'[i].table \in tables' \ TablesAt[r - 1]
            /\ \A k \in KeysTo[plan'[i].table] :
                 k.from \in tables' \ {plan'[i].table} =>
                     k = CurrentVersion \/ Gone(i, k.from)'
            /\ \A j \in DOMAIN plan' :
                 plan'[j].op = "drop" /\ plan'[j].table = plan'[i].table => i = j
       /\ TablesAt[r - 1] \subseteq tables' /\ tables' \subseteq TableNames
       /\ \A t \in tables' : t \in TablesAt[r - 1] \/ Gone(Len(plan) + 1, t)'
  <2>1. Dropping(plan', drops, n, at) /\ Downgrading(r, b, n, drops) /\ r \in 1 .. 5
    BY <1>1, <1>2, <1>3, <1>10
  <2> QED
    BY <2>1, DowngradeInOrder
<1>12. /\ TablesAt' = TablesAt /\ TenantTables' = TenantTables /\ KeysTo' = KeysTo
       /\ TableNames' = TableNames /\ CurrentVersion' = CurrentVersion
  BY DEF TablesAt, TenantTables, KeysTo, TableNames, CurrentVersion
<1>13. \A i \in DOMAIN plan' : plan'[i].op = "drop"
  BY <1>3, <1>5, <1>6, <1>8
<1>14. revision' = r - 1 /\ r - 1 # 5 /\ r - 1 \in 0 .. 5
  BY <1>1, <1>2
<1>15. Removes' /\ KeyInOrder'
  BY <1>13 DEF Removes, KeyInOrder
<1>16. DropsInOrder'
  BY <1>1, <1>11, <1>12, <1>14 DEF DropsInOrder
<1>17. LeadsDown'
  BY <1>1, <1>11, <1>12, <1>14 DEF LeadsDown
<1>18. plan' \in Seq({plan'[i] : i \in DOMAIN plan'})
  BY <1>3, <1>7
<1> QED
  BY <1>1, <1>14, <1>15, <1>16, <1>17, <1>18 DEF MigrationInv, Dismantling

\* downgrade() of 0005 drops the key after eleven tables, and then three more.
DiagnosticRemoval(q) ==
    /\ q \in Seq({q[i] : i \in DOMAIN q}) /\ Len(q) = 15 /\ DOMAIN q = 1 .. 15
    /\ \A i \in 1 .. 11 : q[i].op = "drop" /\ q[i].table = DiagnosticDrops[i]
    /\ q[12].op = "drop_key"
    /\ \A i \in 1 .. 3 : q[12 + i].op = "drop" /\ q[12 + i].table = DiagnosticDrops[11 + i]

LEMMA DiagnosticDowngradePlan ==
    ASSUME NEW q, q = DiagnosticDowngrade
    PROVE  DiagnosticRemoval(q)
<1> DEFINE S == {DiagnosticDrops[i] : i \in DOMAIN DiagnosticDrops}
           T == {[op |-> "drop", table |-> x] : x \in S}
                \cup {[op |-> "drop_key", key |-> CurrentVersion]}
<1>1. DiagnosticDrops \in Seq(S)
  BY DEF DiagnosticDrops
<1>2. Len(DiagnosticDrops) = 14
  BY DEF DiagnosticDrops
<1>3. PICK k : k = DropKey(CurrentVersion)
  OBVIOUS
<1>4. k \in Seq(T) /\ Len(k) = 1 /\ k[1].op = "drop_key"
  BY <1>3 DEF DropKey
<1>5. \A x \in S : [op |-> "drop", table |-> x] \in T
  OBVIOUS
<1> HIDE DEF S, T
<1>6. PICK a : a = SubSeq(DiagnosticDrops, 1, 11)
  OBVIOUS
<1>7. PICK b : b = SubSeq(DiagnosticDrops, 12, Len(DiagnosticDrops))
  OBVIOUS
<1>8. a \in Seq(S) /\ Len(a) = 11 /\ \A i \in 1 .. 11 : a[i] = DiagnosticDrops[i]
  <2>1. PICK m \in Nat, n \in Nat : m = 1 /\ n = 11
    OBVIOUS
  <2>2. 1 <= m /\ m <= n /\ n <= Len(DiagnosticDrops) /\ a = SubSeq(DiagnosticDrops, m, n)
    BY <1>2, <1>6, <2>1
  <2>3. /\ a \in Seq(S) /\ Len(a) = n - m + 1
        /\ \A i \in 1 .. n - m + 1 : a[i] = DiagnosticDrops[m + i - 1]
    BY <1>1, <2>2, PartOf
  <2> QED
    BY <2>1, <2>3
<1>9. b \in Seq(S) /\ Len(b) = 3 /\ \A i \in 1 .. 3 : b[i] = DiagnosticDrops[11 + i]
  <2>1. PICK m \in Nat, n \in Nat : m = 12 /\ n = 14
    OBVIOUS
  <2>2. 1 <= m /\ m <= n /\ n <= Len(DiagnosticDrops) /\ b = SubSeq(DiagnosticDrops, m, n)
    BY <1>2, <1>7, <2>1
  <2>3. /\ b \in Seq(S) /\ Len(b) = n - m + 1
        /\ \A i \in 1 .. n - m + 1 : b[i] = DiagnosticDrops[m + i - 1]
    BY <1>1, <2>2, PartOf
  <2> QED
    BY <2>1, <2>3
<1>10. PICK c : c = Drops(a)
  OBVIOUS
<1>11. c \in Seq(T) /\ Len(c) = 11
       /\ \A i \in 1 .. 11 : c[i].op = "drop" /\ c[i].table = DiagnosticDrops[i]
  <2>1. a \in Seq(S)
    BY <1>8
  <2>2. c \in Seq(T) /\ Len(c) = Len(a)
        /\ \A i \in 1 .. Len(a) : c[i].op = "drop" /\ c[i].table = a[i]
    BY <1>5, <1>10, <2>1, DropsOf
  <2> QED
    BY <1>8, <2>2
<1>12. PICK d : d = Drops(b)
  OBVIOUS
<1>13. d \in Seq(T) /\ Len(d) = 3
       /\ \A i \in 1 .. 3 : d[i].op = "drop" /\ d[i].table = DiagnosticDrops[11 + i]
  <2>1. b \in Seq(S)
    BY <1>9
  <2>2. d \in Seq(T) /\ Len(d) = Len(b)
        /\ \A i \in 1 .. Len(b) : d[i].op = "drop" /\ d[i].table = b[i]
    BY <1>5, <1>12, <2>1, DropsOf
  <2> QED
    BY <1>9, <2>2
<1>14. c \in Seq(T) /\ k \in Seq(T) /\ d \in Seq(T)
  BY <1>4, <1>11, <1>13
<1>15. Len(c) = 11 /\ Len(k) = 1 /\ Len(d) = 3
  BY <1>4, <1>11, <1>13
<1>16. PICK x : x = Join(c, k)
  OBVIOUS
<1>17. x \in Seq(T)
  BY <1>14, <1>16, ConcatLength
<1>18. Len(x) = Len(c) + Len(k)
  BY <1>14, <1>16, ConcatLength
<1>19. /\ \A i \in 1 .. Len(c) : x[i] = c[i]
       /\ \A i \in 1 .. Len(k) : x[Len(c) + i] = k[i]
  <2>1. c \in Seq(T) /\ k \in Seq(T)
    BY <1>14
  <2> QED
    BY <1>16, <2>1, ConcatIndexes
<1>20. q = Join(x, d)
  BY <1>3, <1>6, <1>7, <1>10, <1>12, <1>16 DEF DiagnosticDowngrade, Join
<1>21. q \in Seq(T)
  BY <1>14, <1>17, <1>20, ConcatLength
<1>22. Len(q) = Len(x) + Len(d)
  BY <1>14, <1>17, <1>20, ConcatLength
<1>23. /\ \A i \in 1 .. Len(x) : q[i] = x[i]
       /\ \A i \in 1 .. Len(d) : q[Len(x) + i] = d[i]
       /\ DOMAIN q = 1 .. Len(x) + Len(d)
  <2>1. x \in Seq(T) /\ d \in Seq(T)
    BY <1>14, <1>17
  <2> QED
    BY <1>20, <2>1, ConcatIndexes
<1>24. Len(x) = 12 /\ Len(q) = 15 /\ DOMAIN q = 1 .. 15
  BY <1>15, <1>18, <1>22, <1>23
<1>25. (\A i \in 1 .. 11 : x[i] = c[i]) /\ x[12] = k[1]
  BY <1>15, <1>19
<1>26. (\A i \in 1 .. 12 : q[i] = x[i]) /\ \A i \in 1 .. 3 : q[12 + i] = d[i]
  BY <1>15, <1>23, <1>24
<1>27. (\A i \in 1 .. 11 : q[i] = c[i]) /\ q[12] = k[1]
  BY <1>25, <1>26
<1>28. q \in Seq({q[i] : i \in DOMAIN q})
  BY <1>21, Elements
<1> QED
  BY <1>4, <1>11, <1>13, <1>24, <1>26, <1>27, <1>28 DEF DiagnosticRemoval

\* alembic downgrade of 0005.
LEMMA DiagnosticDowngradeRemoves ==
    ASSUME MigrationInv, Downgrade, revision = 5
    PROVE  MigrationInv'
<1>1. PICK n \in Nat, b \in Nat, r \in 1 .. 5 : n = 14 /\ b = 85 /\ r = 5
  OBVIOUS
<1>2. DropsOfHeights(DiagnosticDrops, n, b)
  BY <1>1, DropsByHeight, HeightsAreDropped DEF DropsOfHeights
<1>3. LastNumber[revision] = b + n /\ LastNumber[revision - 1] = b
  BY <1>1 DEF LastNumber
<1>4. /\ Downgrading(revision, b, n, DiagnosticDrops)
      /\ revision' = revision - 1 /\ plan' = Downgrades[revision]
      /\ ~failed' /\ tables' = tables /\ pointer' = (revision = 5) /\ secured' = secured
      /\ secured \subseteq tables /\ tables \cap TenantTables \subseteq secured
  BY <1>2, <1>3, DowngradeBegins
<1>5. PICK q : q = plan'
  OBVIOUS
<1>6. DiagnosticRemoval(q)
  <2>1. Downgrades[5] = DiagnosticDowngrade
    BY DEF Downgrades
  <2>2. q = DiagnosticDowngrade
    BY <1>4, <1>5, <2>1
  <2> QED
    BY <2>2, DiagnosticDowngradePlan
<1>7. /\ q \in Seq({q[i] : i \in DOMAIN q}) /\ Len(q) = 15 /\ DOMAIN q = 1 .. 15
      /\ \A i \in 1 .. 11 : q[i].op = "drop" /\ q[i].table = DiagnosticDrops[i]
      /\ q[12].op = "drop_key"
      /\ \A i \in 1 .. 3 : q[12 + i].op = "drop" /\ q[12 + i].table = DiagnosticDrops[11 + i]
  BY <1>6 DEF DiagnosticRemoval
<1>8. \A i \in 1 .. 15 : i \in 1 .. 11 \/ i = 12 \/ \E j \in 1 .. 3 : i = 12 + j
  <2> TAKE i \in 1 .. 15
  <2>1. CASE 12 < i
    <3>1. i - 12 \in 1 .. 3 /\ i = 12 + (i - 12)
      BY <2>1
    <3> QED
      BY <3>1
  <2> QED
    BY <2>1
<1>9. PICK at : at = [i \in 1 .. 14 |-> IF i <= 11 THEN i ELSE i + 1]
  OBVIOUS
<1>10. ASSUME NEW i \in 1 .. 14
       PROVE  /\ at[i] \in DOMAIN q /\ (i <= 11 => at[i] = i) /\ (11 < i => at[i] = i + 1)
              /\ q[at[i]].op = "drop" /\ q[at[i]].table = DiagnosticDrops[i]
  <2>1. CASE i <= 11
    <3>1. i \in 1 .. 11 /\ at[i] = i
      BY <1>9, <2>1
    <3> QED
      BY <1>7, <3>1
  <2>2. CASE 11 < i
    <3>1. PICK j \in 1 .. 3 : i = 11 + j
      <4>1. i - 11 \in 1 .. 3 /\ i = 11 + (i - 11)
        BY <2>2
      <4> QED
        BY <4>1
    <3>2. at[i] = 12 + j /\ at[i] = i + 1
      BY <1>9, <2>2, <3>1
    <3> QED
      BY <1>7, <2>2, <3>1, <3>2
  <2> QED
    BY <2>1, <2>2
<1>11. \A i, j \in 1 .. 14 : i < j => at[i] < at[j]
  BY <1>9
<1>12. ASSUME NEW k \in DOMAIN q, q[k].op = "drop"
       PROVE  \E i \in 1 .. 14 : k = at[i]
  <2>1. CASE k \in 1 .. 11
    BY <1>10, <2>1
  <2>2. ASSUME NEW j \in 1 .. 3, k = 12 + j
        PROVE  \E i \in 1 .. 14 : k = at[i]
    <3>1. 11 + j \in 1 .. 14 /\ 11 < 11 + j /\ (11 + j) + 1 = k
      BY <2>2
    <3> QED
      BY <1>10, <3>1
  <2> QED
    BY <1>7, <1>8, <1>12, <2>1, <2>2
<1>13. \A k \in DOMAIN q : q[k].op \in {"drop", "drop_key"}
  BY <1>7, <1>8
<1>14. Dropping(q, DiagnosticDrops, 14, at)
  BY <1>7, <1>10, <1>11, <1>12, <1>13, SMTT(30) DEF Dropping
<1>15. /\ \A i \in DOMAIN plan' : plan'[i].op = "drop" =>
            /\ plan'[i].table \in tables' \ TablesAt[r - 1]
            /\ \A k \in KeysTo[plan'[i].table] :
                 k.from \in tables' \ {plan'[i].table} =>
                     k = CurrentVersion \/ Gone(i, k.from)'
            /\ \A j \in DOMAIN plan' :
                 plan'[j].op = "drop" /\ plan'[j].table = plan'[i].table => i = j
       /\ TablesAt[r - 1] \subseteq tables' /\ tables' \subseteq TableNames
       /\ \A t \in tables' : t \in TablesAt[r - 1] \/ Gone(Len(plan) + 1, t)'
  <2>1. Dropping(plan', DiagnosticDrops, n, at) /\ Downgrading(r, b, n, DiagnosticDrops)
    BY <1>1, <1>4, <1>5, <1>14
  <2> QED
    BY <2>1, DowngradeInOrder
<1>16. /\ TablesAt' = TablesAt /\ TenantTables' = TenantTables /\ KeysTo' = KeysTo
       /\ TableNames' = TableNames /\ CurrentVersion' = CurrentVersion
  BY DEF TablesAt, TenantTables, KeysTo, TableNames, CurrentVersion
<1>17. ASSUME NEW i \in DOMAIN q, q[i].op = "drop", CurrentVersion \in KeysTo[q[i].table]
       PROVE  12 < i
  <2>1. PICK j \in 1 .. 14 : i = at[j] /\ q[i].table = DiagnosticDrops[j]
    BY <1>10, <1>12, <1>17
  <2>2. DiagnosticDrops[j] \in Names /\ Height[DiagnosticDrops[j]] = 100 - j
    BY DropsByHeight
  <2>3. DiagnosticDrops[j] = CurrentVersion.to
    BY <1>17, <2>1, <2>2, CreationNumbered DEF KeysTo
  <2>4. CurrentVersion.to = "diagnostic_rule_versions"
    BY DEF CurrentVersion, KeyOf, MaybeRef, ForeignKey
  <2>5. /\ "diagnostic_rule_versions" \in DOMAIN LastDropped
        /\ LastDropped["diagnostic_rule_versions"] = 3
    BY DEF LastDropped
  <2>6. Height["diagnostic_rule_versions"] = 88
    BY <2>5, Heights
  <2>7. j = 12
    BY <2>2, <2>3, <2>4, <2>6
  <2> QED
    BY <1>10, <2>1, <2>7
<1>18. q[12].op = "drop_key" /\ 12 \in DOMAIN q
  BY <1>7
<1>19. revision' = r - 1 /\ r - 1 # 5 /\ r - 1 \in 0 .. 5 /\ pointer' = TRUE
  <2>1. revision = r
    BY <1>1
  <2>2. revision' = r - 1
    BY <1>4, <2>1
  <2>3. pointer' = (revision = 5)
    BY <1>4
  <2>4. pointer' = TRUE
    BY <2>3
  <2> QED
    BY <1>1, <2>2, <2>4
<1>20. Removes'
  BY <1>5, <1>13 DEF Removes
<1>21. KeyInOrder'
  <2>1. \A k \in DOMAIN q : q[k].op = "drop_key" => k = 12
    BY <1>7, <1>8
  <2> QED
    BY <1>5, <1>19, <2>1 DEF KeyInOrder
<1>22. DropsInOrder'
  <2>1. \A i \in DOMAIN plan' : plan'[i].op = "drop" /\ CurrentVersion \in KeysTo[plan'[i].table] =>
          \E j \in DOMAIN plan' : j < i /\ plan'[j].op = "drop_key"
    BY <1>5, <1>17, <1>18
  <2> QED
    BY <1>15, <1>16, <1>19, <2>1 DEF DropsInOrder
<1>23. LeadsDown'
  <2>1. \E i \in DOMAIN plan' : plan'[i].op = "drop_key"
    BY <1>5, <1>18
  <2> QED
    BY <1>4, <1>15, <1>16, <1>19, <2>1 DEF LeadsDown
<1>24. plan' \in Seq({plan'[i] : i \in DOMAIN plan'})
  BY <1>5, <1>7
<1> QED
  BY <1>4, <1>19, <1>20, <1>21, <1>22, <1>23, <1>24 DEF MigrationInv, Dismantling

\* alembic downgrade -1.
LEMMA DowngradeRemoves ==
    ASSUME MigrationInv, Downgrade
    PROVE  MigrationInv'
<1>1. revision \in 1 .. 5
  BY DEF MigrationInv, Downgrade
<1>2. CASE revision = 1
  <2>1. IdentityDrops \in Seq({IdentityDrops[i] : i \in DOMAIN IdentityDrops})
    BY DEF IdentityDrops
  <2>2. PICK n \in Nat, b \in Nat : n = 23 /\ b = 0
    OBVIOUS
  <2>3. DOMAIN IdentityDrops = 1 .. n
    <3>1. DOMAIN IdentityDrops = 1 .. 23
      BY DEF IdentityDrops
    <3> QED
      BY <2>2, <3>1
  <2>4. DropsOfHeights(IdentityDrops, n, b)
    BY <2>2, DropsByHeight, HeightsAreDropped DEF DropsOfHeights
  <2>5. LastNumber[revision] = b + n /\ LastNumber[revision - 1] = b /\ revision # 5
    BY <1>2, <2>2 DEF LastNumber
  <2>6. Downgrades[revision] = Drops(IdentityDrops)
    BY <1>2 DEF Downgrades
  <2> QED
    BY <2>1, <2>3, <2>4, <2>5, <2>6, ListDowngrade
<1>3. CASE revision = 3
  <2>1. CanonicalDrops \in Seq({CanonicalDrops[i] : i \in DOMAIN CanonicalDrops})
    BY DEF CanonicalDrops
  <2>2. PICK n \in Nat, b \in Nat : n = 52 /\ b = 23
    OBVIOUS
  <2>3. DOMAIN CanonicalDrops = 1 .. n
    <3>1. DOMAIN CanonicalDrops = 1 .. 52
      BY DEF CanonicalDrops
    <3> QED
      BY <2>2, <3>1
  <2>4. DropsOfHeights(CanonicalDrops, n, b)
    BY <2>2, DropsByHeight, HeightsAreDropped DEF DropsOfHeights
  <2>5. LastNumber[revision] = b + n /\ LastNumber[revision - 1] = b /\ revision # 5
    BY <1>3, <2>2 DEF LastNumber
  <2>6. Downgrades[revision] = Drops(CanonicalDrops)
    BY <1>3 DEF Downgrades
  <2> QED
    BY <2>1, <2>3, <2>4, <2>5, <2>6, ListDowngrade
<1>4. CASE revision = 4
  <2>1. AnalyticsDrops \in Seq({AnalyticsDrops[i] : i \in DOMAIN AnalyticsDrops})
    BY DEF AnalyticsDrops
  <2>2. PICK n \in Nat, b \in Nat : n = 10 /\ b = 75
    OBVIOUS
  <2>3. DOMAIN AnalyticsDrops = 1 .. n
    <3>1. DOMAIN AnalyticsDrops = 1 .. 10
      BY DEF AnalyticsDrops
    <3> QED
      BY <2>2, <3>1
  <2>4. DropsOfHeights(AnalyticsDrops, n, b)
    BY <2>2, DropsByHeight, HeightsAreDropped DEF DropsOfHeights
  <2>5. LastNumber[revision] = b + n /\ LastNumber[revision - 1] = b /\ revision # 5
    BY <1>4, <2>2 DEF LastNumber
  <2>6. Downgrades[revision] = Drops(AnalyticsDrops)
    BY <1>4 DEF Downgrades
  <2> QED
    BY <2>1, <2>3, <2>4, <2>5, <2>6, ListDowngrade
<1>5. CASE revision = 2
  <2>1. /\ plan = <<>> /\ ~failed /\ revision' = 1 /\ plan' = <<>>
        /\ failed' = failed /\ tables' = tables /\ pointer' = pointer /\ secured' = secured
    <3>1. Downgrades[2] = <<>>
      BY DEF Downgrades
    <3> QED
      BY <1>5, <3>1 DEF Downgrade, Idle
  <2>2. TablesAt[2] = TablesAt[1]
    <3>1. LastNumber[2] = LastNumber[1]
      BY DEF LastNumber
    <3> QED
      BY <3>1, TablesByNumber
  <2>3. /\ tables = TablesAt[1] /\ tables \subseteq TableNames /\ pointer = FALSE
        /\ secured \subseteq tables /\ tables \cap TenantTables \subseteq secured
    <3>1. pointer = (revision = 5) /\ revision # 5
      BY <1>5, <2>1, AtRest
    <3> QED
      BY <1>5, <2>1, <2>2, <3>1, AtRest, CreationNumbered
  <2>4. TablesAt' = TablesAt /\ TenantTables' = TenantTables /\ TableNames' = TableNames
    BY DEF TablesAt, TenantTables, TableNames
  <2>5. PICK q : q = plan'
    OBVIOUS
  <2>6. q = <<>> /\ DOMAIN q = {} /\ q \in Seq({q[i] : i \in DOMAIN q})
    BY <2>1, <2>5
  <2>7. Dismantling'
    BY <2>1, <2>3, <2>4, <2>5, <2>6
       DEF Dismantling, Removes, DropsInOrder, KeyInOrder, LeadsDown
  <2> QED
    BY <2>1, <2>3, <2>5, <2>6, <2>7 DEF MigrationInv
<1>6. CASE revision = 5
  BY <1>6, DiagnosticDowngradeRemoves
<1> QED
  BY <1>1, <1>2, <1>3, <1>4, <1>5, <1>6

\* What leaves the schema alone leaves the rest of a migration as it was.
LEMMA MigrationStands ==
    ASSUME MigrationInv, UNCHANGED schemaVars
    PROVE  MigrationInv'
<1>1. /\ plan' = plan /\ tables' = tables /\ revision' = revision /\ failed' = failed
      /\ pointer' = pointer /\ secured' = secured
  BY DEF schemaVars
<1>2. /\ TablesAt' = TablesAt /\ TenantTables' = TenantTables /\ KeysTo' = KeysTo
      /\ TableNames' = TableNames /\ CurrentVersion' = CurrentVersion
  BY DEF TablesAt, TenantTables, KeysTo, TableNames, CurrentVersion
<1>3. ASSUME NEW i, NEW t
      PROVE  (Ready(i, t)' <=> Ready(i, t)) /\ (Gone(i, t)' <=> Gone(i, t))
  BY <1>1 DEF Ready, Gone
<1>4. CASE Building
  <2>1. Builds' /\ AddsInOrder'
    BY <1>1, <1>3, <1>4 DEF Building, Builds, AddsInOrder
  <2>2. CreatesInOrder'
    BY <1>1, <1>2, <1>3, <1>4 DEF Building, CreatesInOrder
  <2>3. LeadsUp'
    <3>1. \A t \in TablesAt[revision] : Ready(Len(plan) + 1, t)'
      BY <1>1, <1>3, <1>4 DEF Building, LeadsUp, Ready
    <3> QED
      BY <1>1, <1>2, <1>4, <3>1 DEF Building, LeadsUp
  <2> QED
    BY <1>1, <2>1, <2>2, <2>3 DEF MigrationInv, Building
<1>5. CASE Dismantling
  <2>1. Removes' /\ KeyInOrder'
    BY <1>1, <1>5 DEF Dismantling, Removes, KeyInOrder
  <2>2. DropsInOrder'
    BY <1>1, <1>2, <1>3, <1>5 DEF Dismantling, DropsInOrder
  <2>3. LeadsDown'
    <3>1. \A t \in tables : t \in TablesAt[revision] \/ Gone(Len(plan) + 1, t)'
      BY <1>1, <1>3, <1>5 DEF Dismantling, LeadsDown, Gone
    <3> QED
      BY <1>1, <1>2, <1>5, <3>1 DEF Dismantling, LeadsDown
  <2> QED
    BY <1>1, <2>1, <2>2, <2>3 DEF MigrationInv, Dismantling
<1> QED
  BY <1>4, <1>5 DEF MigrationInv

----------------------------------------------------------------------------
(* Migrations: every path.                                                 *)

\* Whatever the path of upgrades and downgrades, what is left of a migration can
\* be executed, and leads to the tables, the key and the policies of its revision
\* (alembic upgrade and downgrade, 0001 to 0005).
THEOREM MigrationInvariant == Spec => []MigrationInv
<1>1. Init => MigrationInv
  <2> SUFFICES ASSUME Init
               PROVE  MigrationInv
    OBVIOUS
  <2>1. /\ revision = 0 /\ plan = <<>> /\ failed = FALSE
        /\ tables = {} /\ pointer = FALSE /\ secured = {}
    BY DEF Init, SchemaInit
  <2>2. TablesAt[0] = {}
    <3>1. LastNumber[0] = 0 /\ \A t \in Names : Number[t] \in 1 .. 99
      BY CreationNumbered, SMTT(30) DEF LastNumber
    <3>2. \A t \in Names : ~(Number[t] <= 0)
      BY <3>1
    <3> QED
      BY <3>1, <3>2, TablesByNumber
  <2>3. Dismantling
    BY <2>1, <2>2 DEF Dismantling, Removes, DropsInOrder, KeyInOrder, LeadsDown
  <2>4. plan \in Seq({plan[i] : i \in DOMAIN plan})
    BY <2>1
  <2>5. revision \in 0 .. 5 /\ secured \subseteq tables
    BY <2>1
  <2>6. pointer \in BOOLEAN
    BY <2>1
  <2>7. ~failed
    BY <2>1, Zenon
  <2> QED
    BY <2>3, <2>4, <2>5, <2>6, <2>7 DEF MigrationInv
<1>2. MigrationInv /\ [Next]_vars => MigrationInv'
  <2> SUFFICES ASSUME MigrationInv, [Next]_vars
               PROVE  MigrationInv'
    OBVIOUS
  <2>1. ASSUME UNCHANGED schemaVars
        PROVE  MigrationInv'
    BY <2>1, MigrationStands
  <2>2. CASE Upgrade
    BY <2>2, UpgradeBuilds
  <2>3. CASE Downgrade
    BY <2>3, DowngradeRemoves
  <2>4. CASE Migrate
    BY <2>4, BuildingGoesOn, DismantlingGoesOn DEF MigrationInv
  <2>5. ASSUME SchemaNext
        PROVE  Upgrade \/ Downgrade \/ Migrate \/ UNCHANGED schemaVars
    BY <2>5 DEF SchemaNext, Load, Delete, RunKey, Return, Discard
  <2>6. ASSUME UNCHANGED database
        PROVE  UNCHANGED schemaVars
    BY <2>6 DEF database
  <2> QED
    BY <2>1, <2>2, <2>3, <2>4, <2>5, <2>6, NextCases DEF vars
<1> QED
  BY <1>1, <1>2, PTL DEF Spec

\* No statement of a migration is refused, and what is left at the end depends on
\* the revision alone: the keys of the five migrations are created after the tables
\* they refer to, and every downgrade drops a table after the ones that refer to it.
THEOREM MigrationsRunThrough == Spec => []MigrationsRoundTrip
<1>1. MigrationInv => MigrationsRoundTrip
  <2> SUFFICES ASSUME MigrationInv
               PROVE  MigrationsRoundTrip
    OBVIOUS
  <2>1. ~failed
    BY DEF MigrationInv
  <2>2. plan = <<>> => /\ tables = TablesAt[revision] /\ secured \subseteq tables
                       /\ pointer = (revision = 5)
    BY AtRest
  <2> QED
    BY <2>1, <2>2 DEF MigrationsRoundTrip
<1> QED
  BY <1>1, MigrationInvariant, PTL

\* Of the keys of the ninety-nine tables none leads from a row of a tenant to one
\* of another.
LEMMA NoKeyMayLeave == KeysThatMayLeave = {}
<1> SUFFICES ASSUME NEW k \in KeysThatMayLeave
             PROVE  FALSE
  OBVIOUS
<1>1. /\ k \in Keys /\ Row(k.from).tenancy = "required" /\ Row(k.to).tenancy = "required"
      /\ ~k.scoped /\ <<k.from, k.to>> \notin ById
  BY DEF KeysThatMayLeave
<1>2. \A t \in TableNames : t \in Platform => Row(t).tenancy # "required"
  BY RowIsNumbered DEF Separate
<1>3. ASSUME NEW t \in TableNames, NEW ref \in Row(t).refs, k = KeyOf(t, ref)
      PROVE  FALSE
  <2>1. k.from = t /\ k.to = ref.to /\ k.scoped = ref.scoped
    BY <1>3 DEF KeyOf
  <2>2. Row(t).name = t /\ Placed(Row(t)) /\ Separate(Row(t))
    BY RowIsNumbered
  <2>3. ref.to \in Platform
    BY <1>1, <2>1, <2>2 DEF Separate
  <2>4. ref.to \in TableNames
    BY <2>2, CreationNumbered DEF Placed
  <2> QED
    BY <1>1, <1>2, <2>1, <2>3, <2>4
<1>4. CASE k = CurrentVersion
  <2>1. CurrentVersion.from = "diagnostic_rule_definitions"
    BY DEF CurrentVersion, KeyOf, MaybeRef, ForeignKey
  <2>2. "diagnostic_rule_definitions" \in Platform
    BY DEF Platform
  <2>3. "diagnostic_rule_definitions" \in TableNames
    <3>1. "diagnostic_rule_definitions" \in Names
      BY DEF Names, Number
    <3> QED
      BY <3>1, CreationNumbered
  <2> QED
    BY <1>1, <1>2, <1>4, <2>1, <2>2, <2>3
<1>5. CASE k # CurrentVersion
  <2>1. PICK t \in TableNames : k \in KeysOf(Row(t))
    BY <1>1, <1>5 DEF Keys
  <2>2. PICK ref \in Row(t).refs : k = KeyOf(Row(t).name, ref)
    BY <2>1 DEF KeysOf
  <2>3. Row(t).name = t
    BY RowIsNumbered
  <2> QED
    BY <1>3, <2>2, <2>3
<1> QED
  BY <1>4, <1>5

\* Between migrations every table with rows of a tenant is under row level
\* security, and a key between two tables of a tenant carries tenant_id (the
\* composite keys and the policies of 0001, 0003, 0004 and 0005).
THEOREM TenantsStaySeparated == Spec => []TenantsAreSeparated
<1>1. MigrationInv => TenantsAreSeparated
  <2> SUFFICES ASSUME MigrationInv
               PROVE  TenantsAreSeparated
    OBVIOUS
  <2>1. plan = <<>> => tables \cap TenantTables \subseteq secured
    BY AtRest
  <2>2. \A k \in KeysThatMayLeave : k.from \notin tables
    BY NoKeyMayLeave
  <2> QED
    BY <2>1, <2>2 DEF TenantsAreSeparated
<1> QED
  BY <1>1, MigrationInvariant, PTL

============================================================================
