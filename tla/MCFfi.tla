-------------------------------- MODULE MCFfi --------------------------------
(* A thread that calls every entry point, twice, and two threads that race  *)
(* for the runtime.                                                         *)
EXTENDS Ffi, TLC

CONSTANTS t1, t2

All == ReturnsString \cup {"fetch", "pull", "checkout", "sync", "verify", "size",
                           "verify_cache", "flush_cache", "init"}
Plan(entries, n) == [entries |-> entries, calls |-> n]

MCHosts ==
    {(t1 :> Plan(All, 2) @@ t2 :> Plan({}, 0)),
     (t1 :> Plan({"init", "checkout"}, 2) @@ t2 :> Plan({"checkout"}, 1))}

=============================================================================
