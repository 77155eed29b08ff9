------------------------------- MODULE MCSync -------------------------------
(* A TLC instance of Sync. *)
EXTENDS Sync, TLC

\* Jobs, paths and contents are interchangeable.
Symmetry == Permutations(Job) \cup Permutations(File) \cup Permutations(Data)

=============================================================================
