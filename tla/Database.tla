------------------------------- MODULE Database -------------------------------
(***************************************************************************)
(* The PostgreSQL database of the product as its migrations make it: which *)
(* tables, foreign keys and row level policies exist after every step of   *)
(* an upgrade or a downgrade, and what a DELETE does to the rows that      *)
(* refer to the deleted one.                                               *)
(*                                                                         *)
(* A population holds one row of a table for one tenant, together with     *)
(* every row it needs; `linked' says whether its optional keys are set.    *)
(* The triggers of the foreign keys run after the deletion of the row they *)
(* refer to, in the order in which the keys were created.  A row that one  *)
(* of them deletes is gone at once; its own triggers are queued behind the *)
(* ones that wait already (the referential actions of PostgreSQL run their *)
(* statements inside the query of the DELETE): `queue' is their order.     *)
(* A refused statement is rolled back whole.                               *)
(***************************************************************************)
EXTENDS Naturals, Sequences, IdentitySchema, CanonicalSchema, AnalyticsSchema,
        DiagnosticSchema

CONSTANTS
    Leaves,             \* sets of tables whose rows a population is built from
    PopulatedRevisions  \* the revisions at which rows are loaded and deleted

VARIABLES
    revision,   \* the migrations applied: 0 (base) .. 5 (head)
    plan,       \* the statements of a running migration still to execute
    failed,     \* a statement of a migration was refused
    tables,     \* the tables that exist
    pointer,    \* the key that 0005 adds to existing tables exists
    secured,    \* the tables with row level security
    rows,       \* the tables that hold the row of the population
    before,     \* rows when the DELETE began
    linked,     \* the optional keys of the population are set
    retained,   \* the retention period of its imported file has not expired
    root,       \* the table the DELETE is about, or NoTable
    cleared,    \* the keys the DELETE has set to NULL
    queue,      \* the tables whose row is gone and whose keys wait to be run
    outcome     \* of the last DELETE: "none", "running", "done", or why refused

schemaVars == <<revision, plan, failed, tables, pointer, secured>>
deleteVars == <<rows, before, linked, retained, root, cleared, queue, outcome>>
database == <<schemaVars, deleteVars>>

NoTable == "no table"
Idle == plan = <<>> /\ ~failed /\ outcome = "none"

----------------------------------------------------------------------------
(* Migrations.                                                             *)

Creations(list) == [i \in DOMAIN list |-> [op |-> "create", table |-> list[i]]]
Drops(list) == [i \in DOMAIN list |-> [op |-> "drop", table |-> list[i]]]
Secure(set) == << [op |-> "secure", tables |-> set] >>
AddKey(key) == << [op |-> "add_key", key |-> key] >>
DropKey(key) == << [op |-> "drop_key", key |-> key] >>

\* 0005 adds the pointer to the published version when both tables exist.
DiagnosticUpgrade ==
    Creations(SubSeq(DiagnosticTables, 1, 4)) \o AddKey(CurrentVersion)
    \o Creations(SubSeq(DiagnosticTables, 5, Len(DiagnosticTables)))
    \o Secure(DiagnosticPolicies)

\* Dropping the tables without breaking the cycle first.
DiagnosticDowngradeInOrder == Drops(DiagnosticDrops)

DiagnosticDowngrade ==
    Drops(SubSeq(DiagnosticDrops, 1, 11)) \o DropKey(CurrentVersion)
    \o Drops(SubSeq(DiagnosticDrops, 12, Len(DiagnosticDrops)))

Upgrades == <<
    Creations(IdentityTables) \o Secure(IdentityPolicies),
    <<>>,
    Creations(CanonicalTables) \o Secure(CanonicalPolicies),
    Creations(AnalyticsTables) \o Secure(AnalyticsPolicies),
    DiagnosticUpgrade >>

Downgrades == << Drops(IdentityDrops), <<>>, Drops(CanonicalDrops), Drops(AnalyticsDrops),
                 DiagnosticDowngrade >>

KeysOf(table) == {KeyOf(table.name, ref) : ref \in table.refs}

CreationOrder ==
    IdentityTables \o CanonicalTables \o AnalyticsTables \o DiagnosticTables
TableNames == {CreationOrder[i].name : i \in DOMAIN CreationOrder}
Position == [t \in TableNames |->
                CHOOSE i \in DOMAIN CreationOrder : CreationOrder[i].name = t]
Row(t) == CreationOrder[Position[t]]
Keys == (UNION {KeysOf(Row(t)) : t \in TableNames}) \cup {CurrentVersion}
KeysFrom == [t \in TableNames |-> {k \in Keys : k.from = t}]
KeysTo == [t \in TableNames |-> {k \in Keys : k.to = t}]

\* alembic upgrade +1
Upgrade ==
    /\ Idle
    /\ rows = {}
    /\ revision < Len(Upgrades)
    /\ revision' = revision + 1
    /\ plan' = Upgrades[revision + 1]
    /\ UNCHANGED <<failed, tables, pointer, secured, deleteVars>>

\* alembic downgrade -1
Downgrade ==
    /\ Idle
    /\ rows = {}
    /\ revision > 0
    /\ revision' = revision - 1
    /\ plan' = Downgrades[revision]
    /\ UNCHANGED <<failed, tables, pointer, secured, deleteVars>>

\* What PostgreSQL asks of a statement of a migration: a new key refers to a
\* table that exists, and a dropped table is referred to by no other one.
Accepted(step) ==
    CASE step.op = "create" -> /\ step.table.name \notin tables
                               /\ {k.to : k \in KeysOf(step.table)}
                                     \subseteq tables \cup {step.table.name}
      [] step.op = "drop" -> /\ step.table \in tables
                             /\ \A k \in KeysTo[step.table] :
                                   k.from \in tables \ {step.table} =>
                                       k = CurrentVersion /\ ~pointer
      [] step.op = "add_key" -> {step.key.from, step.key.to} \subseteq tables
      [] step.op = "drop_key" -> pointer
      [] step.op = "secure" -> step.tables \subseteq tables

Migrate ==
    /\ plan # <<>>
    /\ ~failed
    /\ LET step == Head(plan)
       IN IF ~Accepted(step)
          THEN failed' = TRUE /\ UNCHANGED <<plan, tables, pointer, secured>>
          ELSE /\ plan' = Tail(plan)
               /\ tables' = CASE step.op = "create" -> tables \cup {step.table.name}
                              [] step.op = "drop" -> tables \ {step.table}
                              [] OTHER -> tables
               /\ pointer' = CASE step.op = "add_key" -> TRUE
                               [] step.op = "drop_key" -> FALSE
                               [] OTHER -> pointer
               /\ secured' = CASE step.op = "secure" -> secured \cup step.tables
                               [] step.op = "drop" -> secured \ {step.table}
                               [] OTHER -> secured
               /\ UNCHANGED failed
    /\ UNCHANGED <<revision, deleteVars>>

----------------------------------------------------------------------------
(* Rows and DELETE.                                                        *)

\* Every row the rows of `set' refer to, themselves included.
Closure(set, optional) ==
    LET reach[n \in 0..12] ==
            IF n = 0 THEN set
            ELSE reach[n-1] \cup
                 UNION {{k.to : k \in {e \in KeysFrom[t] : optional \/ ~e.optional}}
                            : t \in reach[n-1]}
    IN reach[12]

\* The foreign keys that are set refer to rows of the population: PostgreSQL
\* takes no row before the ones its keys name.
Complete(set, optional) ==
    /\ set \subseteq TableNames
    /\ \A t \in set : \A k \in KeysFrom[t] : (k.optional => optional) => k.to \in set

Load(leaves, optional, kept) ==
    /\ Idle
    /\ revision \in PopulatedRevisions
    /\ rows = {}
    /\ leaves \subseteq tables
    /\ rows' = Closure(leaves, optional)
    /\ Complete(rows', optional)
    /\ kept => "imported_files" \in rows'
    /\ linked' = optional
    /\ retained' = kept
    /\ UNCHANGED <<schemaVars, before, root, cleared, queue, outcome>>

\* The triggers that refuse the deletion of a row: audit events are never
\* deleted, an imported file not before its retention, a system role and its
\* permissions never (the role of a population is a system one when its
\* tenant_id is NULL).
DeletionRefused(table) ==
    \/ table = "audit_events"
    \/ table = "imported_files" /\ retained
    \/ table \in {"roles", "role_permissions"} /\ ~linked

\* SET NULL updates every column of the key: the update trigger of the audit
\* trail refuses it, and tenant_id is NOT NULL in the tables of a tenant.
ClearingRefused(key) == key.from = "audit_events" \/ key.scoped

\* DELETE FROM t of the row of the population.
Delete(t) ==
    /\ Idle
    /\ t \in rows
    /\ root' = t
    /\ before' = rows
    /\ IF DeletionRefused(t)
       THEN outcome' = "trigger" /\ UNCHANGED <<rows, queue>>
       ELSE /\ outcome' = "running"
            /\ rows' = rows \ {t}
            /\ queue' = <<t>>
    /\ UNCHANGED <<schemaVars, linked, retained, cleared>>

\* The keys of rows still there that refer to the row of t, set ones only.
Referring(t) == {k \in KeysTo[t] \ cleared : k.from \in rows /\ (k.optional => linked)}

\* The triggers of the keys that refer to one row run in the order in which
\* the keys were created, that is in the order of their tables; of two keys of
\* one table either may be first.
FirstOf(set) == {k \in set : \A other \in set : Position[k.from] <= Position[other.from]}

Refuse(reason) ==
    /\ outcome' = reason
    /\ rows' = before
    /\ cleared' = {}
    /\ queue' = <<>>

\* The trigger of one foreign key on the row at the head of the queue.
RunKey ==
    /\ outcome = "running"
    /\ queue # <<>>
    /\ \E key \in FirstOf(Referring(Head(queue))) :
         \/ key.ondelete = "restrict" /\ Refuse("restrict")
         \/ /\ key.ondelete = "cascade"
            /\ IF DeletionRefused(key.from) THEN Refuse("trigger")
               ELSE /\ rows' = rows \ {key.from}
                    /\ queue' = Append(queue, key.from)
                    /\ UNCHANGED <<cleared, outcome>>
         \/ /\ key.ondelete = "set_null"
            /\ IF ClearingRefused(key) THEN Refuse("set_null")
               ELSE /\ cleared' = cleared \cup {key}
                    /\ UNCHANGED <<rows, queue, outcome>>
    /\ UNCHANGED <<schemaVars, before, linked, retained, root>>

\* No key is left to run for the row at the head of the queue.
Return ==
    /\ outcome = "running"
    /\ queue # <<>>
    /\ Referring(Head(queue)) = {}
    /\ queue' = Tail(queue)
    /\ outcome' = IF Tail(queue) = <<>> THEN "done" ELSE outcome
    /\ UNCHANGED <<schemaVars, rows, before, linked, retained, root, cleared>>

\* The next population replaces this one.
Discard ==
    /\ outcome \notin {"none", "running"}
    /\ rows' = {} /\ before' = {} /\ cleared' = {} /\ queue' = <<>>
    /\ linked' = FALSE /\ retained' = FALSE
    /\ root' = NoTable /\ outcome' = "none"
    /\ UNCHANGED schemaVars

SchemaInit ==
    /\ revision = 0 /\ plan = <<>> /\ failed = FALSE
    /\ tables = {} /\ pointer = FALSE /\ secured = {}
    /\ rows = {} /\ before = {} /\ cleared = {} /\ queue = <<>>
    /\ linked = FALSE /\ retained = FALSE
    /\ root = NoTable /\ outcome = "none"

SchemaNext ==
    \/ Upgrade \/ Downgrade \/ Migrate
    \/ \E leaves \in Leaves, optional, kept \in BOOLEAN : Load(leaves, optional, kept)
    \/ \E t \in rows : Delete(t)
    \/ RunKey \/ Return \/ Discard

----------------------------------------------------------------------------
(* Properties.                                                             *)

TablesOf(list) == {list[i].name : i \in DOMAIN list}
RevisionTables == << TablesOf(IdentityTables), {}, TablesOf(CanonicalTables),
                     TablesOf(AnalyticsTables), TablesOf(DiagnosticTables) >>
TablesAt == [r \in 0..Len(Upgrades) |-> UNION {RevisionTables[i] : i \in 1..r}]
TenantTables == {t \in TableNames : Row(t).tenancy # "none"}

\* Whatever the path of upgrades and downgrades, no statement is refused (a
\* key is created after the table it refers to, a table is dropped after the
\* ones that refer to it, 0005 breaks its cycle of two tables first) and what
\* is left depends on the revision alone.
MigrationsRoundTrip ==
    /\ ~failed
    /\ plan = <<>> =>
         /\ tables = TablesAt[revision]
         /\ secured \subseteq tables
         /\ pointer = (revision = 5)

\* Between migrations every table that holds rows of a tenant is under row
\* level security, and a key between two tables of a tenant carries tenant_id,
\* so that a row never refers to one of another tenant.  The two keys to
\* sync_executions that are by id alone are written by the pipeline from the
\* batch's own execution.
ById == {<<"integration_dead_letters", "sync_executions">>,
         <<"processing_steps", "sync_executions">>}
KeysThatMayLeave ==
    {k \in Keys : /\ Row(k.from).tenancy = "required"
                  /\ Row(k.to).tenancy = "required"
                  /\ ~k.scoped
                  /\ <<k.from, k.to>> \notin ById}
TenantsAreSeparated ==
    /\ plan = <<>> => tables \cap TenantTables \subseteq secured
    /\ \A k \in KeysThatMayLeave : k.from \notin tables

\* What an evaluation found goes with its tenant only: no deletion of a run, of a
\* rule, of a branch or of anything else takes a finding or what explains it
\* along (the tests call it the operational history).  Such a row is removed by
\* a DELETE on it, or by the erasure of its tenant.
OperationalHistory == {"diagnostic_findings",
    "diagnostic_evidences", "diagnostic_hypotheses", "diagnostic_hypothesis_evidences",
    "diagnostic_action_recommendations", "diagnostic_incidents"}
HistorySurvivesItsParents ==
    outcome = "done" /\ root # "tenants" =>
        (before \ rows) \cap OperationalHistory \subseteq {root}

\* The rows the warehouse and the lineage point at survive every deletion of a
\* batch, of a staging record or of a source: what was loaded can always be
\* traced to what it was loaded from.
CanonicalKeepsItsOrigin ==
    outcome = "done" /\ root \in {"data_sources", "import_batches", "staging_records"} =>
        ~ \E t \in (before \ rows) :
            t \in {"canonical_products", "canonical_sales", "canonical_suppliers",
                  "canonical_purchase_orders", "canonical_stock_balances", "analytics_facts"}

\* A tenant that is deleted leaves no row with its tenant_id behind: the tables
\* whose tenant_id goes with the tenant are all reached.
ErasureIsComplete ==
    outcome = "done" /\ root = "tenants" =>
        \A t \in rows : Row(t).tenancy # "required"

\* Only what a trigger protects stands in the way of a tenant's deletion: an
\* audit event that names it, or a file under retention.  The RESTRICT keys
\* between its own rows never do, because each of these rows has a key to the
\* tenant and is gone before the triggers of another one look for it.
Protected == retained \/ (linked /\ "audit_events" \in before)
TenantsCanBeErased ==
    root = "tenants" /\ outcome \notin {"none", "running"} =>
        (outcome = "done" <=> ~Protected)

\* What `ON DELETE SET NULL' says: the deletion of the referenced row clears
\* the reference, it is not refused because of it.
SetNullClears == outcome # "set_null"
============================================================================
