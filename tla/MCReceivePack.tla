---------------------------- MODULE MCReceivePack ----------------------------
(* TLC instances of ReceivePack. *)
EXTENDS ReceivePack, TLC

\* Sessions, paths and contents are interchangeable.
Symmetry == Permutations(Session) \cup Permutations(File) \cup Permutations(Data)

=============================================================================
