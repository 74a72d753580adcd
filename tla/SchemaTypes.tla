---------------------------- MODULE SchemaTypes ----------------------------
(***************************************************************************)
(* The vocabulary of the migrations: a table with its owner and its        *)
(* foreign keys.  A foreign key is "scoped" when its columns include       *)
(* tenant_id, so that the referenced row has the tenant of the referencing *)
(* one, and "optional" when one of its columns may be NULL, which leaves   *)
(* the key unchecked (MATCH SIMPLE).  Columns, indexes and CHECKs that no  *)
(* property of the schema tells apart are left out.                        *)
(***************************************************************************)

ForeignKey(to, ondelete, scoped, optional) ==
    [to |-> to, ondelete |-> ondelete, scoped |-> scoped, optional |-> optional]

Ref(to, ondelete) == ForeignKey(to, ondelete, FALSE, FALSE)
MaybeRef(to, ondelete) == ForeignKey(to, ondelete, FALSE, TRUE)
TenantRef(to, ondelete) == ForeignKey(to, ondelete, TRUE, FALSE)
MaybeTenantRef(to, ondelete) == ForeignKey(to, ondelete, TRUE, TRUE)

\* The foreign key that a reference makes of a table.
KeyOf(table, ref) ==
    [from |-> table, to |-> ref.to, ondelete |-> ref.ondelete, scoped |-> ref.scoped,
     optional |-> ref.optional]

\* A table whose tenant_id is NOT NULL and goes with its tenant.
Owned(name, refs) == [name |-> name, tenancy |-> "required",
                      refs |-> refs \cup {Ref("tenants", "cascade")}]

\* A table whose tenant_id may be NULL (a row of the platform or of a user).
Shared(name, refs) == [name |-> name, tenancy |-> "optional", refs |-> refs]

\* A table without a tenant_id.
Global(name, refs) == [name |-> name, tenancy |-> "none", refs |-> refs]
============================================================================
