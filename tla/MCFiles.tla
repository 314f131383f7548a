------------------------------ MODULE MCFiles -------------------------------
(* Small instances of FileStore for TLC. *)
EXTENDS FileProperties, TLC

\* One committed file with one committed blob.
OneBlob == << [file |-> 0, name |-> "a"] >>

Symmetry == Permutations(Env)
=============================================================================
