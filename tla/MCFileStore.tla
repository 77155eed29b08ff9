----------------------------- MODULE MCFileStore -----------------------------
(* TLC instances of FileStore. *)
EXTENDS FileStore

\* Every process has a pid of its own: one host, one pid namespace.
OwnPid == [p \in Proc |-> p]

=============================================================================
