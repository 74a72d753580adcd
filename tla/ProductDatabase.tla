--------------------------- MODULE ProductDatabase ---------------------------
(***************************************************************************)
(* The database and the rows of the diagnostics tables together: sessions  *)
(* insert into the tables of 0005 while the database is at a revision that *)
(* has them.  Migrations, and the populations the deletions are about,     *)
(* belong to a database whose diagnostics tables are empty.                *)
(***************************************************************************)
EXTENDS Database, DiagnosticStore

StoreTables == {"diagnostic_rule_definitions", "diagnostic_rule_versions",
                "diagnostic_findings", "diagnostic_incident_memberships"}

vars == <<database, store>>
EmptyStore == rules = {} /\ runs = {} /\ suppressions = {}

Init == SchemaInit /\ StoreInit

\* A migration, or a statement on a population.
Administer == EmptyStore /\ SchemaNext /\ UNCHANGED store

\* The session of a tenant, or of the platform, inserts a row.
Use == Idle /\ rows = {} /\ StoreTables \subseteq tables /\ StoreNext /\ UNCHANGED database

Next == Administer \/ Use

Spec == Init /\ [][Next]_vars

============================================================================
