-------------------------------- MODULE Sync --------------------------------
(***************************************************************************)
(* Store-to-store copies (snapdir-stores/src/sync.rs): `snapdir sync` runs *)
(* sync_snapshot, `snapdir sync --delete` runs sync_snapshot_mirror, which *)
(* copies one snapshot in and then prunes every manifest of the            *)
(* destination that the source does not list.                              *)
(*                                                                         *)
(* Several such jobs share one source and one destination.  Meanwhile the  *)
(* source changes under them: snapshots are pushed to it, and it may be    *)
(* the destination of another mirror.  The reads and writes of one object  *)
(* or manifest are one step each, as the stores' own specification allows. *)
(***************************************************************************)
EXTENDS Naturals

CONSTANTS
    Job,        \* runs of sync_snapshot or sync_snapshot_mirror
    File,       \* the file entries of a manifest
    Data,       \* object contents (an object is its own address)
    MaxChanges  \* bound: how often the source's manifests change

ASSUME ChangesAssumption == MaxChanges \in Nat

Snapshot == [File -> Data]
ObjectsOf(m) == {m[f] : f \in File}

VARIABLES
    source,     \* the manifests of the source (all of whose objects it has)
    changes,    \* the changes of the source so far
    objects,    \* the destination's objects
    manifests,  \* the destination's manifests
    supports,   \* the destination's supports_mirror
    want,       \* the snapshot each job copies
    mirror,     \* the jobs that run sync_snapshot_mirror
    dry,        \* the jobs with --dry-run
    pc,         \* where each job is
    st,         \* each job's progress with each object
    listed,     \* source_ids
    prune,      \* pruned_ids, and ...
    todo,       \* ... those of them yet to be deleted
    stale,      \* history: what the source has lacked, and nobody has filed in
                \* the destination, all through a job
    lacked      \* history: what it has lacked at some time since the copy-in

from == <<source, changes>>
to == <<objects, manifests>>
config == <<supports, want, mirror, dry>>
pruning == <<listed, prune, todo>>
history == <<stale, lacked>>
vars == <<from, to, config, pc, st, pruning, history>>

Ended == {"done", "failed"}
Pruning == {"list_source", "list_dest", "delete"}
Stage == {"start", "read", "copy"} \cup Pruning \cup Ended

TypeOK ==
    /\ source \subseteq Snapshot
    /\ changes \in 0..MaxChanges
    /\ objects \subseteq Data
    /\ manifests \subseteq Snapshot
    /\ supports \in BOOLEAN
    /\ want \in [Job -> Snapshot]
    /\ mirror \subseteq Job
    /\ dry \subseteq Job
    /\ pc \in [Job -> Stage]
    /\ st \in [Job -> [Data -> {"idle", "todo", "copying", "done", "error"}]]
    /\ listed \in [Job -> SUBSET Snapshot]
    /\ prune \in [Job -> SUBSET Snapshot]
    /\ \A j \in Job : todo[j] \subseteq prune[j]
    /\ stale \in [Job -> SUBSET Snapshot]
    /\ lacked \in [Job -> SUBSET Snapshot]

\* Both stores have been used before; the destination holds at most one
\* snapshot (a bound), whether or not the source has it.
Init ==
    /\ source \in SUBSET Snapshot
    /\ changes = 0
    /\ manifests \in {{}} \cup {{m} : m \in Snapshot}
    /\ objects = UNION {ObjectsOf(m) : m \in manifests}
    /\ supports \in BOOLEAN
    /\ want \in [Job -> Snapshot]
    /\ mirror \in SUBSET Job
    /\ dry \in SUBSET Job
    /\ pc = [j \in Job |-> "start"]
    /\ st = [j \in Job |-> [d \in Data |-> "idle"]]
    /\ listed = [j \in Job |-> {}]
    /\ prune = [j \in Job |-> {}]
    /\ todo = [j \in Job |-> {}]
    /\ stale = [j \in Job |-> {}]
    /\ lacked = [j \in Job |-> {}]

Goto(j, stage) == pc' = [pc EXCEPT ![j] = stage]

-----------------------------------------------------------------------------
(* The source, as others change it.                                        *)

\* Somebody pushes a snapshot to the source, or a mirror deletes one there:
\* its objects stay.
ChangeSource(m) ==
    /\ changes < MaxChanges
    /\ changes' = changes + 1
    /\ source' = IF m \in source THEN source \ {m} ELSE source \cup {m}
    /\ UNCHANGED <<to, config, pc, st, pruning>>

-----------------------------------------------------------------------------
(* sync_snapshot.                                                          *)

\* Where sync_snapshot's success leads: a mirror goes on to prune.
AfterCopy(j) == IF j \in mirror THEN "list_source" ELSE "done"

\* A destination that cannot mirror is refused before anything is touched.
Refused(j) == j \in mirror /\ ~supports

\* The fast path: a manifest the destination has means there is nothing to copy.
Begin(j) ==
    /\ pc[j] = "start"
    /\ Goto(j, IF Refused(j) THEN "failed"
               ELSE IF want[j] \in manifests THEN AfterCopy(j) ELSE "read")
    /\ UNCHANGED <<from, to, config, st, pruning>>

\* from.get_manifest(id), and the deduplicated list of its objects.
ReadManifest(j) ==
    /\ pc[j] = "read"
    /\ IF want[j] \in source
       THEN /\ Goto(j, "copy")
            /\ st' = [st EXCEPT ![j] =
                        [d \in Data |-> IF d \in ObjectsOf(want[j]) THEN "todo" ELSE "idle"]]
       ELSE Goto(j, "failed") /\ UNCHANGED st
    /\ UNCHANGED <<from, to, config, pruning>>

\* Mutant: the job takes the skip for granted once an object is being copied.
StartObjectEager(j, d) ==
    /\ pc[j] = "copy"
    /\ st[j][d] = "todo"
    /\ \A e \in Data : st[j][e] # "error"
    /\ st' = [st EXCEPT ![j][d] =
                 IF d \in objects \/ j \in dry \/ (\E k \in Job : st[k][d] = "copying")
                 THEN "done" ELSE "copying"]
    /\ UNCHANGED <<from, to, config, pc, pruning>>

\* copy_one starts, unless an error has stopped try_for_each: an object the
\* destination has is skipped, and a dry run only counts the others.
StartObject(j, d) ==
    /\ pc[j] = "copy"
    /\ st[j][d] = "todo"
    /\ \A e \in Data : st[j][e] # "error"
    /\ st' = [st EXCEPT ![j][d] = IF d \in objects \/ j \in dry THEN "done" ELSE "copying"]
    /\ UNCHANGED <<from, to, config, pc, pruning>>

\* get_object from the source and put_object into the destination.
CopyObject(j, d) ==
    /\ pc[j] = "copy"
    /\ st[j][d] = "copying"
    /\ objects' = objects \cup {d}
    /\ st' = [st EXCEPT ![j][d] = "done"]
    /\ UNCHANGED <<from, manifests, config, pc, pruning>>

\* Either of them fails, or has_object before them.
CopyFails(j, d) ==
    /\ pc[j] = "copy"
    /\ \/ st[j][d] = "copying"
       \/ st[j][d] = "todo" /\ \A e \in Data : st[j][e] # "error"
    /\ st' = [st EXCEPT ![j][d] = "error"]
    /\ UNCHANGED <<from, to, config, pc, pruning>>

\* Mutant: the copies that have failed are only counted.
FinishCopyCounting(j) ==
    /\ pc[j] = "copy"
    /\ \A d \in Data : st[j][d] \in {"idle", "done", "error"}
    /\ manifests' = IF j \in dry THEN manifests ELSE manifests \cup {want[j]}
    /\ Goto(j, AfterCopy(j))
    /\ UNCHANGED <<from, objects, config, st, pruning>>

\* Every object is there: the manifest is written last, or not at all by a
\* dry run.
FinishCopy(j) ==
    /\ pc[j] = "copy"
    /\ \A d \in Data : st[j][d] \in {"idle", "done"}
    /\ manifests' = IF j \in dry THEN manifests ELSE manifests \cup {want[j]}
    /\ Goto(j, AfterCopy(j))
    /\ UNCHANGED <<from, objects, config, st, pruning>>

\* The first error is returned once the copies already started have ended.
FailCopy(j) ==
    /\ pc[j] = "copy"
    /\ \E d \in Data : st[j][d] = "error"
    /\ \A d \in Data : st[j][d] # "copying"
    /\ Goto(j, "failed")
    /\ UNCHANGED <<from, to, config, st, pruning>>

-----------------------------------------------------------------------------
(* sync_snapshot_mirror, after the copy.                                   *)

\* from.list_manifest_ids().
ListSource(j) ==
    /\ pc[j] = "list_source"
    /\ listed' = [listed EXCEPT ![j] = source]
    /\ Goto(j, "list_dest")
    /\ UNCHANGED <<from, to, config, st, prune, todo>>

\* Mutant: the snapshot just synced is not kept out of the prune set.
ListDestUnguarded(j) ==
    /\ pc[j] = "list_dest"
    /\ LET ids == manifests \ listed[j]
       IN  /\ prune' = [prune EXCEPT ![j] = ids]
           /\ todo' = [todo EXCEPT ![j] = IF j \in dry THEN {} ELSE ids]
    /\ Goto(j, "delete")
    /\ UNCHANGED <<from, to, config, st, listed>>

\* to.list_manifest_ids(), and what of it is to be pruned.  A dry run only
\* reports it.
ListDest(j) ==
    /\ pc[j] = "list_dest"
    /\ LET ids == manifests \ (listed[j] \cup {want[j]})
       IN  /\ prune' = [prune EXCEPT ![j] = ids]
           /\ todo' = [todo EXCEPT ![j] = IF j \in dry THEN {} ELSE ids]
    /\ Goto(j, "delete")
    /\ UNCHANGED <<from, to, config, st, listed>>

\* One delete_manifest; one that is gone already is no error.
DeleteOne(j, m) ==
    /\ pc[j] = "delete"
    /\ m \in todo[j]
    /\ manifests' = manifests \ {m}
    /\ todo' = [todo EXCEPT ![j] = @ \ {m}]
    /\ UNCHANGED <<from, objects, config, pc, st, listed, prune>>

\* The report.
FinishMirror(j) ==
    /\ pc[j] = "delete"
    /\ todo[j] = {}
    /\ Goto(j, "done")
    /\ UNCHANGED <<from, to, config, st, pruning>>

\* The job is killed, or reading a manifest, listing or deleting fails.
Stop(j) ==
    /\ pc[j] \notin Ended
    /\ Goto(j, "failed")
    /\ UNCHANGED <<from, to, config, st, pruning>>

-----------------------------------------------------------------------------
Step(j) ==
    \/ Begin(j) \/ ReadManifest(j)
    \/ \E d \in Data : StartObject(j, d) \/ CopyObject(j, d) \/ CopyFails(j, d)
    \/ FinishCopy(j) \/ FailCopy(j)
    \/ ListSource(j) \/ ListDest(j)
    \/ \E m \in Snapshot : DeleteOne(j, m)
    \/ FinishMirror(j)
    \/ Stop(j)

\* What the source lacks is noted for every mirror that is under way.
Note ==
    /\ stale' = [j \in Job |->
                   CASE pc[j] \in Ended \/ j \notin mirror -> {}
                     [] pc[j] = "start" /\ j \in mirror -> Snapshot \ source'
                     [] OTHER -> stale[j] \ (source' \cup (manifests' \ manifests))]
    /\ lacked' = [j \in Job |-> IF pc'[j] \in Pruning THEN lacked[j] \cup (Snapshot \ source')
                                                      ELSE {}]

Next ==
    /\ (\E j \in Job : Step(j)) \/ (\E m \in Snapshot : ChangeSource(m))
    /\ Note

Spec == Init /\ [][Next]_vars

-----------------------------------------------------------------------------
(* Properties.                                                             *)

CS == INSTANCE ContentStore

\* The destination is written as a content store is, whatever the source does
\* meanwhile, wherever a job fails, and though one job's skipped object or fast
\* path rests on what another has written (sync_snapshot's manifest-last).
ImplementsContentStore == [][CS!Next]_(CS!vars)

\* A mirror prunes a manifest only if the source lacked it at some time between
\* the end of the copy-in and the deletion, and never the snapshot it has just
\* copied, not even if the source has lost it (sync_snapshot_mirror).  The
\* source may have it again by then: the two listings are not taken at once.
\* And when a mirror that was not a dry run reports success, no manifest is left in
\* the destination that was there when it began and that the source has lacked
\* all along, except the snapshot the job was asked for: on the fast path too,
\* and though other jobs sync and prune meanwhile (sync_snapshot_mirror).
PruneExact ==
    [][/\ \A j \in Job : \A m \in todo[j] \ todo'[j] : m \in lacked[j] /\ m # want[j]
       /\ \A j \in mirror \ dry :
             (pc[j] # "done" /\ pc'[j] = "done")
                => manifests' \cap stale'[j] \subseteq {want[j]}]_vars

\* A job that reports success has made its snapshot restorable, unless it was a
\* dry run: the objects are all there, on the fast path too, and so is the
\* manifest, unless another mirror has pruned it.  With the types of the state.
SuccessIsRestorable ==
    /\ TypeOK
    /\ \A j \in Job \ dry : pc[j] = "done" =>
           /\ ObjectsOf(want[j]) \subseteq objects
           /\ want[j] \in manifests \/ \E k \in Job \ {j} : want[j] \in prune[k]

=============================================================================
