---------------------------- MODULE MCCommands ------------------------------
(***************************************************************************)
(* Two processes; two snapshots that share an object; a destination that   *)
(* may hold the user's files, one of them protected inside a directory.    *)
(* A plan is what the two processes are asked to do.                       *)
(***************************************************************************)
EXTENDS Commands, TLC

MCTree == [s1 |-> [f |-> "a"], s2 |-> [f |-> "b", g |-> "a"]]
MCDestPath == {"f", "g", "x", "d", "k"}
MCParent == [f |-> None, g |-> None, x |-> None, d |-> None, k |-> "d"]

C(c, s) ==
  [cmd |-> c, snap |-> s, store |-> "main", api |-> FALSE, dryrun |-> FALSE,
   linked |-> FALSE, local |-> TRUE, delete |-> FALSE, onto |-> "dir",
   purge |-> FALSE, scoped |-> FALSE, catalog |-> "none", at |-> "l1"]
With(c, fields) == fields @@ c

Api(c) == With(c, [api |-> TRUE])
Dry(c) == With(c, [dryrun |-> TRUE])
Mirror(c) == With(c, [delete |-> TRUE])
Linked(c) == With(c, [linked |-> TRUE])
Split(c) == With(c, [store |-> "split"])
Extern(c) == With(c, [store |-> "external"])
Logged(c) == With(c, [catalog |-> "default"])
PurgeCache == With(C("verify_cache", "s1"), [purge |-> TRUE])
VerifyCache == C("verify_cache", "s1")
VerifyId(s) == With(C("verify_cache", s), [scoped |-> TRUE])
Flush == C("flush_cache", "s1")

Plan(one, two, stored, occupied) ==
  [run |-> [p1 |-> one, p2 |-> two], stored |-> stored, occupied |-> occupied]

MCPlans ==
  { \* checkout and pull against purges and fetches
    Plan(<<C("stage", "s2"), Mirror(C("checkout", "s2"))>>, <<PurgeCache, C("fetch", "s2")>>, Snap, FALSE),
    Plan(<<C("pull", "s2"), Mirror(C("pull", "s1"))>>, <<PurgeCache, C("fetch", "s2"), VerifyCache>>, Snap, FALSE),
    Plan(<<C("stage", "s1"), PurgeCache, C("fetch", "s1")>>, <<C("fetch", "s1"), C("fetch", "s1")>>, {"s1"}, FALSE),
    \* the library
    Plan(<<Api(C("stage", "s2")), Api(C("push_id", "s2")), Api(C("pull", "s2"))>>,
         <<PurgeCache, Api(C("fetch", "s2")), Api(VerifyCache)>>, {}, FALSE),
    \* pushes to a store that another pushes to split
    Plan(<<C("stage", "s1"), C("push_id", "s1"), C("push", "s2"), C("verify", "s2")>>,
         <<Split(C("push", "s1")), Split(C("fetch", "s2"))>>, {}, FALSE),
    \* an external store
    Plan(<<Extern(C("pull", "s1")), Extern(C("push", "s2"))>>,
         <<PurgeCache, Extern(C("push_id", "s2")), C("stage", "s1")>>, {"s1"}, FALSE),
    \* its script looks for the objects where a split push has not put them
    Plan(<<Split(C("push", "s2"))>>, <<C("push", "s1"), Extern(C("fetch", "s2"))>>, {}, FALSE),
    \* the cache and the catalog flushed
    Plan(<<Logged(C("stage", "s2")), Logged(C("push_id", "s2"))>>, <<Flush, C("fetch", "s1")>>, {"s1"}, FALSE),
    Plan(<<C("stage", "s1"), Extern(C("push_id", "s1")), Flush>>, <<PurgeCache, Flush>>, {}, FALSE),
    \* verify-cache, of all and of one, while snapshots are filed over a hole and
    \* flushed
    Plan(<<C("stage", "s1"), PurgeCache, C("stage", "s1"), VerifyId("s1"), VerifyCache>>,
         <<C("stage", "s2"), Flush>>, {}, FALSE),
    \* links, and a checkout over them
    Plan(<<C("stage", "s2"), Linked(C("checkout", "s2")), C("stage", "s1"), Mirror(C("checkout", "s1"))>>,
         <<PurgeCache, VerifyCache>>, {}, TRUE),
    \* swaps, over a tree and into an empty place
    Plan(<<C("stage", "s2"), C("swap", "s2"), C("swap", "s2")>>, <<C("stage", "s1"), C("swap", "s1")>>, {}, TRUE),
    Plan(<<C("stage", "s2"), C("swap", "s2")>>, <<C("swap", "s1")>>, {}, FALSE),
    \* dry runs and refusals
    Plan(<<Dry(C("stage", "s1")), Dry(C("push", "s1")), C("stage", "s1"), Dry(C("push_id", "s1")),
           Dry(Mirror(C("checkout", "s1"))), Dry(C("fetch", "s2")), Dry(C("pull", "s2"))>>,
         <<Dry(PurgeCache), Dry(Flush), Mirror(With(C("pull", "s1"), [onto |-> "cache"])),
           Mirror(With(C("checkout", "s1"), [onto |-> "cache"])),
           Linked(With(C("pull", "s1"), [local |-> FALSE])), Api(C("checkout", "s1"))>>, {"s2"}, TRUE),
    \* the catalog
    Plan(<<Logged(C("push", "s1")), Logged(C("push", "s2"))>>,
         <<Logged(C("stage", "s2")), Logged(C("rebuild", "s1")), Logged(C("push", "s1"))>>, {}, FALSE) }

\* What the theorem about CheckoutExact supposes.
ASSUME OneWriter == \A plan \in MCPlans : Exclusive(plan)
=============================================================================
