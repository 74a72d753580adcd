----------------------------- MODULE MCDatabase -----------------------------
(***************************************************************************)
(* Populations for the deletions: the row of every single table with what  *)
(* it needs, and the rows of a whole area of the product.  For the inserts *)
(* a tenant with two companies, of which one has a branch, and a second    *)
(* tenant.                                                                 *)
(***************************************************************************)
EXTENDS ProductDatabase

MCLeaves == {{t} : t \in TableNames}
            \cup {TablesOf(IdentityTables), TablesOf(CanonicalTables),
                  TablesOf(AnalyticsTables), TablesOf(DiagnosticTables)}

MCCompanies == {[tenant |-> "t1", id |-> 1], [tenant |-> "t1", id |-> 2],
                [tenant |-> "t2", id |-> 3]}
MCBranches == {[tenant |-> "t1", company |-> 1, id |-> 1]}
============================================================================
