--------------------------- MODULE MCObjectStore ---------------------------
(* A TLC instance of ObjectStore: a push beside another push, a fetch or a *)
(* listing, and a fetch alone on a worse network.                          *)
EXTENDS ObjectStore, TLC

CONSTANTS j1, j2, f1, f2, a, b

Mix(ad, n, k1, k2) ==
  [adapter |-> ad, faults |-> n, concurrency |-> 2, kind |-> (j1 :> k1) @@ (j2 :> k2)]
OneAtATime(mix) == [mix EXCEPT !.concurrency = 1]
MCMixes == {Mix("s3", 1, "push", "push"), Mix("gcs", 1, "push", "fetch"),
            Mix("gcs", 4, "fetch", "none"), Mix("s3", 1, "push", "list"),
            OneAtATime(Mix("gcs", 1, "push", "none")), OneAtATime(Mix("s3", 2, "fetch", "none"))}

\* Up to renaming files and contents: both files alike, or not.
MCSources == {(f1 :> a) @@ (f2 :> a), (f1 :> a) @@ (f2 :> b)}
=============================================================================
