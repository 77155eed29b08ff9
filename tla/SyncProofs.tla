----------------------------- MODULE SyncProofs -----------------------------
(***************************************************************************)
(* sync_snapshot and sync_snapshot_mirror, for any number of jobs,         *)
(* snapshots and changes of the source: the destination is written as a    *)
(* content store is, a success is restorable, and a mirror prunes what it  *)
(* may and all that it must.                                               *)
(***************************************************************************)
EXTENDS Sync, TLAPS

\* Every manifest of the destination is backed by its objects: the fast path
\* may trust it.
Backed == \A m \in manifests : ObjectsOf(m) \subseteq objects

\* The copy: no object of the snapshot is overlooked, and one that is done is
\* there, except in a dry run.
CopyInv(j) ==
    (pc[j] = "copy" /\ j \notin dry) =>
        \A d \in Data : /\ d \in ObjectsOf(want[j]) => st[j][d] # "idle"
                        /\ st[j][d] = "done" => d \in objects

\* What the copy has brought stays, unless another mirror prunes the manifest.
KeptInv(j) ==
    (pc[j] \in Pruning \cup {"done"} /\ j \notin dry) =>
        /\ ObjectsOf(want[j]) \subseteq objects
        /\ want[j] \in manifests \/ \E k \in Job \ {j} : want[j] \in prune[k]

\* The prune set: empty until the destination is listed, and never the job's
\* own snapshot; what it may take is what the source's listing lacked, ...
PruneInv(j) ==
    /\ pc[j] \in {"start", "read", "copy", "list_source", "list_dest"} => prune[j] = {}
    /\ want[j] \notin prune[j]
    /\ pc[j] = "list_dest" => Snapshot \ listed[j] \subseteq lacked[j]
    /\ pc[j] = "delete" => todo[j] \subseteq lacked[j]

\* ... and what it must take is what is stale: never in the source since the
\* job began, and filed by nobody since.
StaleInv(j) ==
    /\ stale[j] \cap source = {}
    /\ pc[j] = "list_dest" => stale[j] \cap listed[j] = {}
    /\ (pc[j] = "delete" /\ j \notin dry) =>
          manifests \cap stale[j] \subseteq todo[j] \cup {want[j]}

Typed == TypeOK /\ todo \in [Job -> SUBSET Snapshot]

\* The inductive invariant.
IInv ==
    /\ Typed
    /\ Backed
    /\ \A j \in Job : CopyInv(j) /\ KeptInv(j) /\ PruneInv(j) /\ StaleInv(j)

-----------------------------------------------------------------------------

\* An object of a snapshot is one of the contents.
LEMMA ObjectsOfData == \A m \in Snapshot : ObjectsOf(m) \subseteq Data
BY DEF Snapshot, ObjectsOf

\* Whatever the two stores hold when the jobs start, the invariant holds.
LEMMA InitInvariant == Init => IInv
<1> SUFFICES ASSUME Init PROVE IInv
  OBVIOUS
<1>1. manifests \subseteq Snapshot /\ objects \subseteq Data
  BY ObjectsOfData DEF Init
<1>2. Typed
  BY <1>1, ChangesAssumption DEF Init, Typed, TypeOK, Stage
<1>3. Backed
  BY DEF Init, Backed
<1>4. ASSUME NEW j \in Job PROVE CopyInv(j) /\ KeptInv(j) /\ PruneInv(j) /\ StaleInv(j)
  BY DEF Init, CopyInv, KeptInv, PruneInv, StaleInv, Pruning
<1> QED
  BY <1>2, <1>3, <1>4 DEF IInv

\* What the history variables remember after a step.
LEMMA NoteEffect ==
    ASSUME Note, source' \subseteq Snapshot, NEW j \in Job
    PROVE  /\ pc[j] \in Ended \/ j \notin mirror => stale'[j] = {}
           /\ pc[j] = "start" /\ j \in mirror => stale'[j] = Snapshot \ source'
           /\ pc[j] \notin Ended \cup {"start"} /\ j \in mirror =>
                 stale'[j] = stale[j] \ (source' \cup (manifests' \ manifests))
           /\ pc'[j] \in Pruning => lacked'[j] = lacked[j] \cup (Snapshot \ source')
<1>1. stale'[j] = CASE pc[j] \in Ended \/ j \notin mirror -> {}
                    [] pc[j] = "start" /\ j \in mirror -> Snapshot \ source'
                    [] OTHER -> stale[j] \ (source' \cup (manifests' \ manifests))
  BY Zenon DEF Note
<1>2. pc[j] = "start" => pc[j] \notin Ended
  BY DEF Ended
<1>3. pc[j] \in Ended \/ j \notin mirror => stale'[j] = {}
  BY <1>1, <1>2, Zenon
<1>4. pc[j] = "start" /\ j \in mirror => stale'[j] = Snapshot \ source'
  BY <1>1, <1>2, Zenon
<1>5. pc[j] \notin Ended \cup {"start"} /\ j \in mirror =>
         stale'[j] = stale[j] \ (source' \cup (manifests' \ manifests))
  BY <1>1, Zenon
<1>6. pc'[j] \in Pruning => lacked'[j] = lacked[j] \cup (Snapshot \ source')
  BY DEF Note
<1> QED
  BY <1>3, <1>4, <1>5, <1>6

\* A step keeps the types, takes no object back and leaves the jobs' settings.
LEMMA TypedNext ==
    ASSUME Typed, Next
    PROVE  Typed' /\ objects \subseteq objects' /\ UNCHANGED config
<1> USE DEF Typed, TypeOK, Goto, from, to, config, pruning
<1> DEFINE Rest == /\ source' \subseteq Snapshot /\ changes' \in 0..MaxChanges
                   /\ objects' \subseteq Data /\ objects \subseteq objects'
                   /\ manifests' \subseteq Snapshot
                   /\ UNCHANGED config
                   /\ pc' \in [Job -> Stage]
                   /\ st' \in [Job -> [Data -> {"idle", "todo", "copying", "done", "error"}]]
                   /\ listed' \in [Job -> SUBSET Snapshot]
                   /\ prune' \in [Job -> SUBSET Snapshot]
                   /\ todo' \in [Job -> SUBSET Snapshot]
                   /\ \A j \in Job : todo'[j] \subseteq prune'[j]
<1>1. ASSUME NEW m \in Snapshot, ChangeSource(m) PROVE Rest
  BY <1>1, ChangesAssumption DEF ChangeSource
<1>2. ASSUME NEW j \in Job, Begin(j) PROVE Rest
  BY <1>2 DEF Begin, AfterCopy, Stage, Pruning, Ended
<1>2a. ASSUME NEW j \in Job, ReadManifest(j) PROVE Rest
  <2> DEFINE S == [d \in Data |-> IF d \in ObjectsOf(want[j]) THEN "todo" ELSE "idle"]
  <2>1. S \in [Data -> {"idle", "todo", "copying", "done", "error"}]
    OBVIOUS
  <2>2. st' = [st EXCEPT ![j] = S] \/ UNCHANGED st
    BY <1>2a DEF ReadManifest
  <2>3. st' \in [Job -> [Data -> {"idle", "todo", "copying", "done", "error"}]]
    <3> HIDE DEF S
    <3> QED
      BY <2>1, <2>2
  <2>4. pc' \in [Job -> Stage]
    BY <1>2a DEF ReadManifest, Stage, Ended
  <2> QED
    BY <1>2a, <2>3, <2>4 DEF ReadManifest
<1>3. ASSUME NEW j \in Job, NEW d \in Data, StartObject(j, d) \/ CopyFails(j, d) PROVE Rest
  <2>1. st' \in [Job -> [Data -> {"idle", "todo", "copying", "done", "error"}]]
    <3>1. PICK s \in {"done", "copying", "error"} : st' = [st EXCEPT ![j][d] = s]
      BY <1>3 DEF StartObject, CopyFails
    <3> QED
      BY <3>1
  <2> QED
    BY <1>3, <2>1 DEF StartObject, CopyFails
<1>4. ASSUME NEW j \in Job, NEW d \in Data, CopyObject(j, d) PROVE Rest
  BY <1>4 DEF CopyObject
<1>5. ASSUME NEW j \in Job, FinishCopy(j) PROVE Rest
  BY <1>5 DEF FinishCopy, AfterCopy, Stage, Pruning, Ended
<1>6. ASSUME NEW j \in Job, FailCopy(j) \/ FinishMirror(j) \/ Stop(j) PROVE Rest
  BY <1>6 DEF FailCopy, FinishMirror, Stop, Stage, Ended
<1>7. ASSUME NEW j \in Job, ListSource(j) PROVE Rest
  BY <1>7 DEF ListSource, Stage, Pruning
<1>8. ASSUME NEW j \in Job, ListDest(j) PROVE Rest
  BY <1>8 DEF ListDest, Stage, Pruning
<1>9. ASSUME NEW j \in Job, NEW m \in Snapshot, DeleteOne(j, m) PROVE Rest
  BY <1>9 DEF DeleteOne
<1>10. Rest
  BY <1>1, <1>2, <1>2a, <1>3, <1>4, <1>5, <1>6, <1>7, <1>8, <1>9 DEF Next, Step
<1>11. stale' \in [Job -> SUBSET Snapshot]
  <2> DEFINE Kept(j) == CASE pc[j] \in Ended \/ j \notin mirror -> {}
                          [] pc[j] = "start" /\ j \in mirror -> Snapshot \ source'
                          [] OTHER -> stale[j] \ (source' \cup (manifests' \ manifests))
  <2>0. stale' = [j \in Job |-> Kept(j)]
    BY Zenon DEF Next, Note
  <2>1. stale' = [j \in Job |-> stale'[j]]
    <3> HIDE DEF Kept
    <3> QED
      BY <2>0
  <2>2. ASSUME NEW j \in Job PROVE stale'[j] \subseteq Snapshot
    BY <1>10, NoteEffect DEF Next
  <2> QED
    BY <2>1, <2>2
<1>12. lacked' \in [Job -> SUBSET Snapshot]
  BY DEF Next, Note
<1> QED
  BY <1>10, <1>11, <1>12

\* Only a copy that ends files a manifest, and it has brought every object of it
\* in or found it there.
LEMMA FilingIsBacked ==
    ASSUME IInv, NEW j \in Job, FinishCopy(j), j \notin dry
    PROVE  ObjectsOf(want[j]) \subseteq objects
<1>1. want[j] \in Snapshot
  BY DEF IInv, Typed, TypeOK
<1> QED
  BY <1>1, ObjectsOfData DEF IInv, CopyInv, FinishCopy

\* What a step does to the destination: it is left alone, or gets one object,
\* or one manifest that is backed, or loses one manifest of a prune set.
LEMMA DestinationStep ==
    ASSUME IInv, Next
    PROVE  \/ UNCHANGED to
           \/ \E d \in Data : objects' = objects \cup {d} /\ UNCHANGED manifests
           \/ \E j \in Job : /\ manifests' = manifests \cup {want[j]} /\ UNCHANGED objects
                             /\ ObjectsOf(want[j]) \subseteq objects
           \/ \E j \in Job : \E m \in prune[j] : /\ manifests' = manifests \ {m} /\ UNCHANGED objects
                                                 /\ prune' = prune
<1> USE DEF to
<1> DEFINE Effect ==
        \/ UNCHANGED to
        \/ \E d \in Data : objects' = objects \cup {d} /\ UNCHANGED manifests
        \/ \E j \in Job : /\ manifests' = manifests \cup {want[j]} /\ UNCHANGED objects
                          /\ ObjectsOf(want[j]) \subseteq objects
        \/ \E j \in Job : \E m \in prune[j] : /\ manifests' = manifests \ {m} /\ UNCHANGED objects
                                              /\ prune' = prune
<1>1. ASSUME NEW j \in Job,
             \/ Begin(j) \/ ReadManifest(j) \/ FailCopy(j) \/ ListSource(j) \/ ListDest(j)
             \/ FinishMirror(j) \/ Stop(j)
             \/ \E d \in Data : StartObject(j, d) \/ CopyFails(j, d)
      PROVE  UNCHANGED to
  BY <1>1 DEF Begin, ReadManifest, FailCopy, ListSource, ListDest, FinishMirror, Stop, StartObject,
              CopyFails
<1>2. ASSUME NEW m \in Snapshot, ChangeSource(m) PROVE UNCHANGED to
  BY <1>2 DEF ChangeSource
<1>3. ASSUME NEW j \in Job, NEW d \in Data, CopyObject(j, d) PROVE Effect
  BY <1>3 DEF CopyObject
<1>4. ASSUME NEW j \in Job, FinishCopy(j) PROVE Effect
  BY <1>4, FilingIsBacked DEF FinishCopy
<1>5. ASSUME NEW j \in Job, NEW m \in Snapshot, DeleteOne(j, m) PROVE Effect
  <2>1. m \in prune[j]
    BY <1>5 DEF DeleteOne, IInv, Typed, TypeOK
  <2> QED
    BY <1>5, <2>1 DEF DeleteOne
<1> QED
  BY <1>1, <1>2, <1>3, <1>4, <1>5 DEF Next, Step

\* So the manifests stay backed.
LEMMA BackedNext ==
    ASSUME IInv, Next PROVE Backed'
BY DestinationStep DEF IInv, Backed, to, ObjectsOf

\* A prune set is made once: from then on it stays.
LEMMA PruneStays ==
    ASSUME IInv, Next, NEW k \in Job
    PROVE  prune[k] \subseteq prune'[k]
<1> USE DEF pruning
<1>1. ASSUME NEW j \in Job, ListDest(j) PROVE prune[k] \subseteq prune'[k]
  <2>1. prune[j] = {}
    BY <1>1 DEF ListDest, IInv, PruneInv
  <2> QED
    BY <1>1, <2>1 DEF ListDest, IInv, Typed, TypeOK
<1>2. CASE \A j \in Job : ~ListDest(j)
  BY <1>2 DEF Next, Step, Begin, ReadManifest, StartObject, CopyObject, CopyFails, FinishCopy,
              FailCopy, ListSource, DeleteOne, FinishMirror, Stop, ChangeSource
<1> QED
  BY <1>1, <1>2

\* The copy's list of objects, as the job and the others proceed.
LEMMA CopyNext ==
    ASSUME IInv, Next, NEW j \in Job PROVE CopyInv(j)'
<1>0. /\ objects \subseteq objects' /\ want' = want /\ dry' = dry
      /\ CopyInv(j) /\ pc \in [Job -> Stage] /\ pc' \in [Job -> Stage]
      /\ st \in [Job -> [Data -> {"idle", "todo", "copying", "done", "error"}]]
      /\ ObjectsOf(want[j])' = ObjectsOf(want[j])
  BY TypedNext DEF IInv, config, Typed, TypeOK, ObjectsOf
<1> USE DEF CopyInv, Goto
<1>1. ASSUME NEW k \in Job, ReadManifest(k) PROVE CopyInv(j)'
  BY <1>0, <1>1 DEF ReadManifest
<1>2. ASSUME NEW k \in Job, NEW d \in Data, StartObject(k, d) PROVE CopyInv(j)'
  BY <1>0, <1>2 DEF StartObject
<1>3. ASSUME NEW k \in Job, NEW d \in Data, CopyObject(k, d) PROVE CopyInv(j)'
  BY <1>0, <1>3 DEF CopyObject
<1>4. ASSUME NEW k \in Job, NEW d \in Data, CopyFails(k, d) PROVE CopyInv(j)'
  BY <1>0, <1>4 DEF CopyFails
<1>5. ASSUME pc'[j] = "copy" => pc[j] = "copy", UNCHANGED st PROVE CopyInv(j)'
  BY <1>0, <1>5
<1>6. ASSUME NEW k \in Job,
             \/ Begin(k) \/ FinishCopy(k) \/ FailCopy(k) \/ ListSource(k) \/ ListDest(k)
             \/ FinishMirror(k) \/ Stop(k) \/ \E m \in Snapshot : DeleteOne(k, m)
      PROVE  (pc'[j] = "copy" => pc[j] = "copy") /\ UNCHANGED st
  BY <1>0, <1>6 DEF Begin, AfterCopy, FinishCopy, FailCopy, ListSource, ListDest, FinishMirror, Stop,
                    DeleteOne
<1>7. ASSUME NEW m \in Snapshot, ChangeSource(m)
      PROVE  (pc'[j] = "copy" => pc[j] = "copy") /\ UNCHANGED st
  BY <1>7 DEF ChangeSource
<1> QED
  BY <1>1, <1>2, <1>3, <1>4, <1>5, <1>6, <1>7 DEF Next, Step

\* What a job has copied stays: another mirror may prune its manifest, and then
\* that mirror's prune set says so.
LEMMA KeptNext ==
    ASSUME IInv, Next, NEW j \in Job PROVE KeptInv(j)'
<1> DEFINE Copied == pc[j] \in Pruning \cup {"done"}
           Kept == /\ ObjectsOf(want[j]) \subseteq objects
                   /\ want[j] \in manifests \/ \E k \in Job \ {j} : want[j] \in prune[k]
<1>0. /\ objects \subseteq objects' /\ want' = want /\ dry' = dry
      /\ pc \in [Job -> Stage] /\ ObjectsOf(want[j])' = ObjectsOf(want[j])
      /\ \A k \in Job : prune[k] \subseteq prune'[k]
      /\ want[j] \notin prune[j]
  BY TypedNext, PruneStays DEF IInv, config, Typed, TypeOK, ObjectsOf, PruneInv
<1>1. Kept => Kept'
  <2>1. ASSUME Kept, want[j] \in manifests, want[j] \notin manifests' PROVE Kept'
    <3>1. PICK k \in Job : want[j] \in prune[k]
      BY <2>1, DestinationStep DEF to
    <3>2. k \in Job \ {j} /\ want[j] \in prune'[k]
      BY <1>0, <3>1
    <3> QED
      BY <1>0, <2>1, <3>2
  <2> QED
    BY <1>0, <2>1
<1>2. ASSUME Copied', ~Copied, j \notin dry PROVE Kept'
  <2>1. CASE Begin(j)
    <3>1. want[j] \in manifests
      BY <1>0, <1>2, <2>1 DEF Begin, Goto, Pruning
    <3> QED
      BY <1>1, <3>1 DEF IInv, Backed
  <2>2. CASE FinishCopy(j)
    <3>1. want[j] \in manifests' /\ ObjectsOf(want[j]) \subseteq objects
      BY <1>2, <2>2, FilingIsBacked DEF FinishCopy
    <3> QED
      BY <1>0, <3>1
  <2>3. CASE ~Begin(j) /\ ~FinishCopy(j)
    BY <1>0, <1>2, <2>3
       DEF Next, Step, Begin, ReadManifest, StartObject, CopyObject, CopyFails, FinishCopy, FailCopy,
           ListSource, ListDest, DeleteOne, FinishMirror, Stop, ChangeSource, Goto, Pruning
  <2> QED
    BY <2>1, <2>2, <2>3
<1> QED
  BY <1>0, <1>1, <1>2 DEF IInv, KeptInv

\* The prune set and the reason for it.
LEMMA PruneNext ==
    ASSUME IInv, Next, NEW j \in Job PROVE PruneInv(j)'
<1>0. /\ want' = want /\ pc \in [Job -> Stage] /\ PruneInv(j) /\ source' \subseteq Snapshot
      /\ listed \in [Job -> SUBSET Snapshot] /\ prune \in [Job -> SUBSET Snapshot]
      /\ todo \in [Job -> SUBSET Snapshot] /\ manifests \subseteq Snapshot
      /\ todo[j] \subseteq prune[j]
  BY TypedNext DEF IInv, config, Typed, TypeOK
<1>1. pc'[j] \in Pruning => lacked'[j] = lacked[j] \cup (Snapshot \ source')
  BY <1>0, NoteEffect DEF Next
<1> USE DEF PruneInv, Goto, pruning, Pruning
<1>2. ASSUME NEW k \in Job, ListSource(k) PROVE PruneInv(j)'
  BY <1>0, <1>1, <1>2 DEF ListSource, from
<1>3. ASSUME NEW k \in Job, ListDest(k) PROVE PruneInv(j)'
  <2> DEFINE ids == manifests \ (listed[k] \cup {want[k]})
  <2>1. prune'[k] = ids /\ todo'[k] \subseteq ids /\ pc[k] = "list_dest" /\ pc'[k] = "delete"
    BY <1>0, <1>3 DEF ListDest
  <2>2. j # k => prune'[j] = prune[j] /\ todo'[j] = todo[j] /\ pc'[j] = pc[j]
    BY <1>0, <1>3 DEF ListDest
  <2>3. UNCHANGED listed
    BY <1>3 DEF ListDest
  <2> QED
    BY <1>0, <1>1, <2>1, <2>2, <2>3
<1>4. ASSUME NEW k \in Job, NEW m \in Snapshot, DeleteOne(k, m) PROVE PruneInv(j)'
  BY <1>0, <1>1, <1>4 DEF DeleteOne
<1>5. ASSUME UNCHANGED pruning, pc'[j] # pc[j] => pc'[j] \notin {"list_dest", "delete"},
             pc'[j] \in {"start", "read", "copy", "list_source"} => pc[j] \in {"start", "read", "copy", "list_source"}
      PROVE  PruneInv(j)'
  BY <1>0, <1>1, <1>5
<1>6. ASSUME NEW k \in Job,
             \/ Begin(k) \/ ReadManifest(k) \/ FinishCopy(k) \/ FailCopy(k) \/ FinishMirror(k) \/ Stop(k)
             \/ \E d \in Data : StartObject(k, d) \/ CopyObject(k, d) \/ CopyFails(k, d)
      PROVE  PruneInv(j)'
  BY <1>0, <1>5, <1>6 DEF Begin, ReadManifest, FinishCopy, FailCopy, FinishMirror, Stop, StartObject,
                          CopyObject, CopyFails, AfterCopy
<1>7. ASSUME NEW m \in Snapshot, ChangeSource(m) PROVE PruneInv(j)'
  BY <1>5, <1>7 DEF ChangeSource
<1> QED
  BY <1>2, <1>3, <1>4, <1>6, <1>7 DEF Next, Step

\* What is stale is in the prune set once the destination is listed, and leaves
\* the destination with it.
LEMMA StaleNext ==
    ASSUME IInv, Next, NEW j \in Job PROVE StaleInv(j)'
<1>0. /\ want' = want /\ dry' = dry /\ mirror' = mirror /\ pc \in [Job -> Stage]
      /\ StaleInv(j) /\ source' \subseteq Snapshot
      /\ listed \in [Job -> SUBSET Snapshot] /\ prune \in [Job -> SUBSET Snapshot]
      /\ todo \in [Job -> SUBSET Snapshot] /\ manifests \subseteq Snapshot
  BY TypedNext DEF IInv, config, Typed, TypeOK
<1>1. /\ pc[j] \in Ended \/ j \notin mirror => stale'[j] = {}
      /\ pc[j] = "start" /\ j \in mirror => stale'[j] = Snapshot \ source'
      /\ pc[j] \notin Ended \cup {"start"} /\ j \in mirror =>
                 stale'[j] = stale[j] \ (source' \cup (manifests' \ manifests))
  BY <1>0, NoteEffect DEF Next
<1>2. stale'[j] \cap source' = {}
  BY <1>1
<1>3. stale'[j] \cap listed'[j] = {} \/ pc'[j] # "list_dest"
  <2>1. CASE ListSource(j)
    <3>1. listed'[j] = source'
      BY <1>0, <2>1 DEF ListSource, from
    <3> QED
      BY <1>2, <3>1
  <2>2. CASE ~ListSource(j)
    <3>1. pc'[j] = "list_dest" => pc[j] = "list_dest" /\ listed'[j] = listed[j]
      BY <1>0, <2>2 DEF Next, Step, Begin, ReadManifest, StartObject, CopyObject, CopyFails,
           FinishCopy, FailCopy, ListSource, ListDest, DeleteOne, FinishMirror, Stop, ChangeSource,
           Goto, AfterCopy, pruning
    <3> QED
      BY <1>0, <1>1, <3>1 DEF StaleInv, Ended
  <2> QED
    BY <2>1, <2>2
<1>4. (pc'[j] = "delete" /\ j \notin dry) => manifests' \cap stale'[j] \subseteq todo'[j] \cup {want[j]}
  <2>1. CASE ListDest(j)
    <3>1. /\ pc[j] = "list_dest" /\ UNCHANGED manifests
          /\ j \notin dry => todo'[j] = manifests \ (listed[j] \cup {want[j]})
      BY <1>0, <2>1 DEF ListDest, to
    <3> QED
      BY <1>0, <1>1, <3>1 DEF StaleInv, Ended
  <2>2. CASE ~ListDest(j)
    <3>1. ASSUME pc'[j] = "delete"
          PROVE  pc[j] = "delete" /\ manifests' \cap todo[j] \subseteq todo'[j]
      <4>1. CASE \E m \in Snapshot : DeleteOne(j, m)
        BY <1>0, <3>1, <4>1 DEF DeleteOne
      <4>2. CASE ~\E m \in Snapshot : DeleteOne(j, m)
        BY <1>0, <3>1, <2>2, <4>2
           DEF Next, Step, Begin, ReadManifest, StartObject, CopyObject, CopyFails,
               FinishCopy, FailCopy, ListSource, ListDest, DeleteOne, FinishMirror, Stop, ChangeSource,
               Goto, AfterCopy, pruning
      <4> QED
        BY <4>1, <4>2
    <3> QED
      BY <1>0, <1>1, <3>1 DEF StaleInv, Ended
  <2> QED
    BY <2>1, <2>2
<1> QED
  BY <1>0, <1>2, <1>3, <1>4 DEF StaleInv

\* Every step keeps the invariant.
LEMMA IInvNext ==
    ASSUME IInv, [Next]_vars PROVE IInv'
<1>1. CASE Next
  <2>1. Typed' /\ Backed'
    BY <1>1, TypedNext, BackedNext DEF IInv
  <2> QED
    BY <1>1, <2>1, CopyNext, KeptNext, PruneNext, StaleNext DEF IInv
<1>2. CASE UNCHANGED vars
  BY <1>2 DEF IInv, Typed, TypeOK, Backed, CopyInv, KeptInv, PruneInv, StaleInv, ObjectsOf,
              vars, from, to, config, pruning, history
<1> QED
  BY <1>1, <1>2

\* The invariant holds throughout.
LEMMA Invariance == Spec => []IInv
BY InitInvariant, IInvNext, PTL DEF Spec

-----------------------------------------------------------------------------

\* A job that reports success and was no dry run has made its snapshot
\* restorable, for any number of jobs, on the fast path and with skipped objects:
\* every object is there, and the manifest too unless another mirror pruned it.
THEOREM SyncSuccess == Spec => []SuccessIsRestorable
<1>1. IInv => SuccessIsRestorable
  BY DEF IInv, Typed, KeptInv, SuccessIsRestorable
<1> QED
  BY <1>1, Invariance, PTL

\* Whatever the source does meanwhile and wherever the jobs stop, the
\* destination changes as a content store does: whole objects, a manifest only
\* after all of its objects, and deletions of manifests alone.
THEOREM SyncRefinement == Spec => ImplementsContentStore
<1>1. ASSUME IInv, [Next]_vars PROVE [CS!Next]_(CS!vars)
  <2>1. CASE UNCHANGED vars
    BY <2>1 DEF vars, to, CS!vars
  <2>2. CASE UNCHANGED to
    BY <2>2 DEF to, CS!vars
  <2>3. ASSUME NEW d \in Data, objects' = objects \cup {d}, UNCHANGED manifests
        PROVE  [CS!Next]_(CS!vars)
    BY <2>3 DEF CS!Next, CS!AddObject, CS!vars
  <2>4. ASSUME NEW j \in Job, manifests' = manifests \cup {want[j]}, UNCHANGED objects,
               ObjectsOf(want[j]) \subseteq objects
        PROVE  [CS!Next]_(CS!vars)
    <3>1. want[j] \in CS!Snapshot /\ CS!ObjectsOf(want[j]) \subseteq objects
      BY <1>1, <2>4 DEF IInv, Typed, TypeOK, Snapshot, CS!Snapshot, ObjectsOf, CS!ObjectsOf
    <3> QED
      BY <2>4, <3>1 DEF CS!Next, CS!CommitManifest, CS!vars
  <2>5. ASSUME NEW m, manifests' = manifests \ {m}, UNCHANGED objects
        PROVE  [CS!Next]_(CS!vars)
    BY <1>1, <2>5 DEF CS!Next, CS!DeleteManifest, CS!vars, IInv, Typed, TypeOK, Snapshot, CS!Snapshot
  <2> QED
    BY <1>1, <2>1, <2>2, <2>3, <2>4, <2>5, DestinationStep
<1> QED
  BY <1>1, Invariance, PTL DEF Spec, ImplementsContentStore

\* A mirror deletes only what the source lacked at some time since the copy-in,
\* and never the snapshot it was asked for; and when a mirror that was no dry
\* run reports success, nothing stale is left but that snapshot
\* (sync_snapshot_mirror), for any number of jobs and changes of the source.
THEOREM MirrorPrunesExactly == Spec => PruneExact
<1> DEFINE A == /\ \A j \in Job : \A m \in todo[j] \ todo'[j] : m \in lacked[j] /\ m # want[j]
                /\ \A j \in mirror \ dry :
                      (pc[j] # "done" /\ pc'[j] = "done")
                         => manifests' \cap stale'[j] \subseteq {want[j]}
<1>1. ASSUME IInv, Next PROVE A
  <2>0. /\ pc \in [Job -> Stage] /\ todo \in [Job -> SUBSET Snapshot] /\ mirror \subseteq Job
        /\ \A j \in Job : todo[j] \subseteq prune[j]
        /\ source' \subseteq Snapshot
    BY <1>1, TypedNext DEF IInv, Typed, TypeOK
  <2>1. ASSUME NEW j \in Job, NEW m \in todo[j] \ todo'[j] PROVE m \in lacked[j] /\ m # want[j]
    <3>1. pc[j] = "delete"
      <4>1. CASE ListDest(j)
        BY <1>1, <2>0, <2>1, <4>1 DEF ListDest, IInv, PruneInv
      <4>2. CASE ~ListDest(j)
        BY <1>1, <2>0, <2>1, <4>2
           DEF Next, Step, Begin, ReadManifest, StartObject, CopyObject, CopyFails,
               FinishCopy, FailCopy, ListSource, ListDest, DeleteOne, FinishMirror, Stop,
               ChangeSource, pruning
      <4> QED
        BY <4>1, <4>2
    <3> QED
      BY <1>1, <2>0, <2>1, <3>1 DEF IInv, PruneInv
  <2>2. ASSUME NEW j \in mirror \ dry, pc[j] # "done", pc'[j] = "done"
        PROVE  manifests' \cap stale'[j] \subseteq {want[j]}
    <3>1. pc[j] = "delete" /\ todo[j] = {} /\ UNCHANGED manifests
      BY <1>1, <2>0, <2>2
         DEF Next, Step, Begin, ReadManifest, StartObject, CopyObject, CopyFails,
             FinishCopy, FailCopy, ListSource, ListDest, DeleteOne, FinishMirror, Stop,
             ChangeSource, AfterCopy, Goto, to
    <3>2. stale'[j] \subseteq stale[j]
      BY <1>1, <2>0, <2>2, <3>1, NoteEffect DEF Next, Ended
    <3> QED
      BY <1>1, <2>0, <2>2, <3>1, <3>2 DEF IInv, StaleInv
  <2> QED
    BY <2>1, <2>2
<1>2. IInv /\ [Next]_vars => [A]_vars
  BY <1>1
<1> QED
  BY <1>2, Invariance, PTL DEF Spec, PruneExact

=============================================================================
