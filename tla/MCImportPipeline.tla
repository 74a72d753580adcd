-------------------------- MODULE MCImportPipeline --------------------------
(* Small instances of ImportPipeline for TLC. *)
EXTENDS ImportPipeline, TLC

CONSTANTS k1, k2

\* Two rows, the first repeated on a later page.
RepeatedRowFile == << k1, k2, k1 >>
OneRowFile == << k1 >>
TwoRowFile == << k1, k2 >>

WorkerSymmetry == Permutations(Workers)
=============================================================================
