----------------------------- MODULE MCSshFetch -----------------------------
(* SshFetch with two push scripts and one fetch script.                    *)
EXTENDS SshFetch, TLC

\* Scripts, file entries and contents are interchangeable, and no property of
\* the run is a liveness property.
Symmetry == Permutations(Pusher) \cup Permutations(File) \cup Permutations(Data)

=============================================================================
