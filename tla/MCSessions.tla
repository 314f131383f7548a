----------------------------- MODULE MCSessions -----------------------------
(* Small instances of Sessions for TLC. *)
EXTENDS SessionRefinement, TLC

\* One committed file with one committed blob.
OneBlob == << [file |-> 0, name |-> "a"] >>

NoBlobs == << >>

Symmetry == Permutations(Env)
=============================================================================
