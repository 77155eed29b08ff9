--------------------------- MODULE FileStoreProofs ---------------------------
(***************************************************************************)
(* Proofs about FileStore, for any number of processes, files, contents,   *)
(* retries and edits, provided no two processes sharing the store have the *)
(* same pid (UniquePids).                                                  *)
(***************************************************************************)
EXTENDS FileStore, TLAPS

\* The inode job s of process p works on.
Own(p, s) == <<p, s, left[p][s]>>

\* Only the manifest's slot skips the copy states, and a slot leaves "idle"
\* only once the walk has a checksum for every file.
PhaseInv ==
    \A p \in Proc :
        /\ phase[p] = "walk" => \A f \in File : snap[p][f] = None
        /\ phase[p] \in {"walk", "hash"} => \A s \in Slot : st[p][s] = "idle"
        /\ phase[p] = "push" => snap[p] \in Snapshot
        /\ \A s \in Slot : st[p][s] # "idle" => snap[p] \in Snapshot
        /\ st[p][ManifestSlot] \in {"idle", "writing", "verified", "done", "error"}

\* A file unedited since its discovery still has the content its checksum names.
WalkInv ==
    \A p \in Proc, f \in File :
        /\ seen[p][f] <= src[f].ver
        /\ snap[p][f] # None /\ src[f].ver = seen[p][f] => src[f].data = snap[p][f]

\* A temporary path is filed under its own process's pid and an earlier count,
\* names one inode, and belongs to a job that has not ended well.
LinkInv ==
    \A i \in Inode : link[i] # None =>
        /\ link[i] = path[i[1]][i[2]]
        /\ i[3] = left[i[1]][i[2]]
        /\ st[i[1]][i[2]] \in Active \cup {"error"}

\* Paths taken by one process are distinct, and older than its counter.
PathInv ==
    \A p \in Proc, s \in Slot : path[p][s] # None =>
        /\ path[p][s][2] = PidOf[p]
        /\ path[p][s][3] < count[p]
        /\ \A t \in Slot : path[p][t] = path[p][s] => t = s

\* An active job holds its own inode open, filed under its own path.
ActiveInv ==
    \A p \in Proc, s \in Slot : st[p][s] \in Active =>
        /\ path[p][s] # None
        /\ fd[p][s] = Own(p, s)
        /\ link[Own(p, s)] = path[p][s]

\* What a job may rename into place has the content its address demands.
VerifiedInv ==
    \A p \in Proc :
        /\ \A s \in Slot : st[p][s] = "verified" => bytes[Own(p, s)] = Target(p, s)
        /\ \A f \in File : st[p][f] = "cloned" /\ src[f].ver = seen[p][f]
                              => bytes[Own(p, f)] = snap[p][f]

\* An inode at an address is that of a finished job: nobody writes it any more.
Settled(i) == link[i] = None /\ st[i[1]][i[2]] = "done"

FiledInv ==
    \A i \in Inode :
        /\ \A d \in Data : object[d] = i => bytes[i] = d /\ Settled(i)
        /\ \A m \in Snapshot : manifest[m] = i => bytes[i] = m /\ Settled(i)

\* A manifest's objects are all present.
CompleteInv ==
    \A m \in Snapshot : manifest[m] # None => \A f \in File : object[m[f]] # None

\* A finished copy job's object is present, and the manifest's slot moves only
\* when all of them are finished.
DoneInv ==
    \A p \in Proc :
        /\ \A f \in File : st[p][f] = "done" => object[snap[p][f]] # None
        /\ st[p][ManifestSlot] # "idle" => \A f \in File : st[p][f] = "done"

IInv == /\ TypeOK
        /\ PhaseInv
        /\ WalkInv
        /\ LinkInv
        /\ PathInv
        /\ ActiveInv
        /\ VerifiedInv
        /\ FiledInv
        /\ CompleteInv
        /\ DoneInv

-----------------------------------------------------------------------------
(* Facts about the file system of temporary files.                         *)

\* An active job's temporary path names the job's own inode and no other, so
\* what it re-reads and renames is what it wrote.
LEMMA OwnFiled ==
    ASSUME UniquePids, IInv, NEW p \in Proc, NEW s \in Slot, st[p][s] \in Active
    PROVE  /\ Own(p, s) \in Inode
           /\ Filed(path[p][s]) = {Own(p, s)}
<1>1. Own(p, s) \in Inode
  BY DEF IInv, TypeOK, Own, Inode
<1>2. path[p][s] # None /\ link[Own(p, s)] = path[p][s]
  BY DEF IInv, ActiveInv
<1>3. ASSUME NEW i \in Inode, link[i] = path[p][s]
      PROVE  i = Own(p, s)
  <2>1. i[1] \in Proc /\ i[2] \in Slot /\ i = <<i[1], i[2], i[3]>>
    BY DEF Inode
  <2>2. path[i[1]][i[2]] = path[p][s] /\ i[3] = left[i[1]][i[2]]
    BY <1>2, <1>3 DEF IInv, LinkInv
  <2>3. PidOf[i[1]] = PidOf[p]
    BY <1>2, <2>1, <2>2 DEF IInv, PathInv
  <2>4. i[1] = p
    BY <2>1, <2>3 DEF UniquePids
  <2>5. i[2] = s
    BY <1>2, <2>1, <2>2, <2>4 DEF IInv, PathInv
  <2> QED BY <2>1, <2>2, <2>4, <2>5 DEF Own
<1> QED BY <1>1, <1>2, <1>3 DEF Filed

\* The path temp_sibling returns is new: no file has it.
LEMMA FreshPath ==
    ASSUME UniquePids, IInv, NEW p \in Proc, NEW s \in Slot, MayOpen(p, s)
    PROVE  /\ Filed(TempSibling(p, s)) = {}
           /\ TempSibling(p, s) \in TempPath
           /\ TempSibling(p, s) # None
           /\ \A t \in Slot : path[p][t] # TempSibling(p, s)
           /\ Own(p, s) \in Inode
<1>1. snap[p] \in Snapshot
  BY DEF MayOpen, IInv, PhaseInv
<1>2. Target(p, s) \in Data \cup Snapshot
  BY <1>1 DEF Target, Slot, Snapshot
<1>3. TempSibling(p, s) \in TempPath
  BY <1>2 DEF TempSibling, TempPath, IInv, TypeOK
<1>4. TempSibling(p, s) # None
  BY <1>3, NoneAssumption
<1>5. TempSibling(p, s)[2] = PidOf[p] /\ TempSibling(p, s)[3] = count[p] /\ count[p] \in Nat
  BY DEF TempSibling, IInv, TypeOK
<1>6. \A t \in Slot : path[p][t] # TempSibling(p, s)
  BY <1>4, <1>5 DEF IInv, PathInv
<1>7. ASSUME NEW i \in Inode, link[i] = TempSibling(p, s)
      PROVE  FALSE
  <2>1. i[1] \in Proc /\ i[2] \in Slot
    BY DEF Inode
  <2>2. path[i[1]][i[2]] = TempSibling(p, s)
    BY <1>4, <1>7 DEF IInv, LinkInv
  <2>3. i[1] = p
    BY <1>4, <1>5, <2>1, <2>2 DEF IInv, PathInv, UniquePids
  <2> QED BY <1>6, <2>1, <2>2, <2>3
<1>8. Own(p, s) \in Inode
  BY DEF IInv, TypeOK, Own, Inode
<1> QED BY <1>3, <1>4, <1>6, <1>7, <1>8 DEF Filed

LEMMA EditSourceKeeps ==
    ASSUME UniquePids, IInv, NEW g \in File, EditSource(g)
    PROVE  IInv'
<1> USE DEF IInv
<1>a. PICK d \in Data : src' = [src EXCEPT ![g] = [data |-> d, ver |-> src[g].ver + 1]]
  BY DEF EditSource
<1>b. src[g].ver \in Nat /\ src[g].ver + 1 \in Version
  BY EditsAssumption DEF EditSource, TypeOK, Version
<1>1. TypeOK'
  <2>1. src' \in [File -> [data : Data, ver : Version]]
    BY <1>a, <1>b DEF TypeOK
  <2> QED BY <2>1 DEF EditSource, store, walk, jobs, TypeOK
<1>2. PhaseInv'
  BY DEF EditSource, store, walk, jobs, TypeOK, PhaseInv, Slot, Ended, JobState, Active, Snapshot
<1>3. WalkInv'
  BY <1>a, <1>b DEF EditSource, walk, TypeOK, WalkInv, Version
<1>4. LinkInv'
  BY DEF EditSource, store, walk, jobs, TypeOK, LinkInv, Active, Inode, Slot
<1>5. PathInv'
  BY DEF EditSource, store, walk, jobs, TypeOK, PathInv, Slot
<1>6. ActiveInv'
  BY DEF EditSource, store, walk, jobs, TypeOK, ActiveInv, Active, Own, Inode, Slot
<1>7. VerifiedInv'
  BY <1>a, <1>b DEF EditSource, store, walk, jobs, TypeOK, VerifiedInv, WalkInv, Own, Target, Version
<1>8. FiledInv'
  BY DEF EditSource, store, walk, jobs, TypeOK, FiledInv, Settled, Slot, Inode
<1>9. CompleteInv'
  BY DEF EditSource, store, walk, jobs, CompleteInv, Snapshot
<1>10. DoneInv'
  BY DEF EditSource, store, walk, jobs, TypeOK, DoneInv, PhaseInv, Slot, Snapshot
<1> QED BY <1>1, <1>2, <1>3, <1>4, <1>5, <1>6, <1>7, <1>8, <1>9, <1>10 DEF IInv

LEMMA DeleteManifestKeeps ==
    ASSUME UniquePids, IInv, NEW m \in Snapshot, DeleteManifest(m)
    PROVE  IInv'
<1> USE DEF IInv
<1>1. TypeOK'
  BY DEF DeleteManifest, store, walk, jobs, TypeOK, Inode, Slot, JobState, Active, Ended, Version, PhaseInv, Snapshot
<1>2. PhaseInv'
  BY DEF DeleteManifest, store, walk, jobs, TypeOK, PhaseInv, Slot, Ended, JobState, Active, Snapshot
<1>3. WalkInv'
  BY DEF DeleteManifest, store, walk, jobs, TypeOK, WalkInv, PhaseInv, Version
<1>4. LinkInv'
  BY DEF DeleteManifest, store, walk, jobs, TypeOK, LinkInv, Active, Inode, Slot
<1>5. PathInv'
  BY DEF DeleteManifest, store, walk, jobs, TypeOK, PathInv, Slot
<1>6. ActiveInv'
  BY DEF DeleteManifest, store, walk, jobs, TypeOK, ActiveInv, Active, Own, Inode, Slot
<1>7. VerifiedInv'
  BY DEF DeleteManifest, store, walk, jobs, TypeOK, VerifiedInv, ActiveInv, Active, Own, Target, Slot
<1>8. FiledInv'
  BY NoneAssumption DEF DeleteManifest, jobs, TypeOK, FiledInv, Settled
<1>9. CompleteInv'
  BY DEF DeleteManifest, store, walk, jobs, CompleteInv, Snapshot
<1>10. DoneInv'
  BY DEF DeleteManifest, store, walk, jobs, TypeOK, DoneInv, PhaseInv, Slot, Snapshot
<1> QED BY <1>1, <1>2, <1>3, <1>4, <1>5, <1>6, <1>7, <1>8, <1>9, <1>10 DEF IInv

LEMMA DiscoverKeeps ==
    ASSUME UniquePids, IInv, NEW p \in Proc, Discover(p)
    PROVE  IInv'
<1> USE DEF IInv
<1>1. TypeOK'
  BY DEF Discover, store, walk, jobs, TypeOK, Inode, Slot, JobState, Active, Ended, Version, PhaseInv, Snapshot
<1>2. PhaseInv'
  BY DEF Discover, store, walk, jobs, TypeOK, PhaseInv, Slot, Ended, JobState, Active, Snapshot
<1>3. WalkInv'
  BY DEF Discover, store, walk, jobs, TypeOK, WalkInv, PhaseInv, Version
<1>4. LinkInv'
  BY DEF Discover, store, walk, jobs, TypeOK, LinkInv, Active, Inode, Slot
<1>5. PathInv'
  BY DEF Discover, store, walk, jobs, TypeOK, PathInv, Slot
<1>6. ActiveInv'
  BY DEF Discover, store, walk, jobs, TypeOK, ActiveInv, Active, Own, Inode, Slot
<1>7. VerifiedInv'
  BY DEF Discover, store, jobs, TypeOK, VerifiedInv, PhaseInv, Own, Target, Slot
<1>8. FiledInv'
  BY DEF Discover, store, walk, jobs, TypeOK, FiledInv, Settled, Slot, Inode
<1>9. CompleteInv'
  BY DEF Discover, store, walk, jobs, CompleteInv, Snapshot
<1>10. DoneInv'
  BY DEF Discover, store, walk, jobs, TypeOK, DoneInv, PhaseInv, Slot, Snapshot
<1> QED BY <1>1, <1>2, <1>3, <1>4, <1>5, <1>6, <1>7, <1>8, <1>9, <1>10 DEF IInv

LEMMA HashFileKeeps ==
    ASSUME UniquePids, IInv, NEW p \in Proc, NEW g \in File, HashFile(p, g)
    PROVE  IInv'
<1> USE DEF IInv
<1>a. PICK d \in Data : /\ src[g].ver = seen[p][g] => d = src[g].data
                        /\ snap' = [snap EXCEPT ![p][g] = d]
  BY DEF HashFile
<1>b. \A s \in Slot : st[p][s] = "idle"
  BY DEF HashFile, PhaseInv
<1>1. TypeOK'
  BY <1>a DEF HashFile, store, jobs, TypeOK
<1>2. PhaseInv'
  BY <1>a, <1>b DEF HashFile, jobs, TypeOK, PhaseInv, Slot
<1>3. WalkInv'
  BY <1>a DEF HashFile, TypeOK, WalkInv
<1>4. LinkInv'
  BY DEF HashFile, store, walk, jobs, TypeOK, LinkInv, Active, Inode, Slot
<1>5. PathInv'
  BY DEF HashFile, store, walk, jobs, TypeOK, PathInv, Slot
<1>6. ActiveInv'
  BY DEF HashFile, store, walk, jobs, TypeOK, ActiveInv, Active, Own, Inode, Slot
<1>7. VerifiedInv'
  BY <1>a, <1>b DEF HashFile, store, jobs, TypeOK, VerifiedInv, Own, Target, Slot
<1>8. FiledInv'
  BY DEF HashFile, store, walk, jobs, TypeOK, FiledInv, Settled, Slot, Inode
<1>9. CompleteInv'
  BY DEF HashFile, store, walk, jobs, CompleteInv, Snapshot
<1>10. DoneInv'
  BY <1>a, <1>b DEF HashFile, store, jobs, TypeOK, DoneInv, Slot
<1> QED BY <1>1, <1>2, <1>3, <1>4, <1>5, <1>6, <1>7, <1>8, <1>9, <1>10 DEF IInv

LEMMA StartPushKeeps ==
    ASSUME UniquePids, IInv, NEW p \in Proc, StartPush(p)
    PROVE  IInv'
<1> USE DEF IInv
<1>1. TypeOK'
  BY DEF StartPush, store, walk, jobs, TypeOK, Inode, Slot, JobState, Active, Ended, Version, PhaseInv, Snapshot
<1>2. PhaseInv'
  BY DEF StartPush, store, walk, jobs, TypeOK, PhaseInv, Slot, Ended, JobState, Active, Snapshot
<1>3. WalkInv'
  BY DEF StartPush, store, walk, jobs, TypeOK, WalkInv, PhaseInv, Version
<1>4. LinkInv'
  BY DEF StartPush, store, walk, jobs, TypeOK, LinkInv, Active, Inode, Slot
<1>5. PathInv'
  BY DEF StartPush, store, walk, jobs, TypeOK, PathInv, Slot
<1>6. ActiveInv'
  BY DEF StartPush, store, walk, jobs, TypeOK, ActiveInv, Active, Own, Inode, Slot
<1>7. VerifiedInv'
  BY DEF StartPush, store, walk, jobs, TypeOK, VerifiedInv, ActiveInv, Active, Own, Target, Slot
<1>8. FiledInv'
  BY DEF StartPush, store, walk, jobs, TypeOK, FiledInv, Settled, Slot, Inode
<1>9. CompleteInv'
  BY DEF StartPush, store, walk, jobs, CompleteInv, Snapshot
<1>10. DoneInv'
  BY DEF StartPush, store, walk, jobs, TypeOK, DoneInv, PhaseInv, Slot, Snapshot
<1> QED BY <1>1, <1>2, <1>3, <1>4, <1>5, <1>6, <1>7, <1>8, <1>9, <1>10 DEF IInv

LEMMA CollectJobKeeps ==
    ASSUME UniquePids, IInv, NEW p \in Proc, NEW g \in File, CollectJob(p, g)
    PROVE  IInv'
<1> USE DEF IInv
<1>1. TypeOK'
  BY DEF CollectJob, store, walk, jobs, TypeOK, Inode, Slot, JobState, Active, Ended, Version, PhaseInv, Snapshot
<1>2. PhaseInv'
  BY SlotAssumption DEF CollectJob, store, walk, jobs, TypeOK, PhaseInv, Slot
<1>3. WalkInv'
  BY DEF CollectJob, store, walk, jobs, TypeOK, WalkInv, PhaseInv, Version
<1>4. LinkInv'
  BY DEF CollectJob, store, walk, jobs, TypeOK, LinkInv, Active, Inode, Slot
<1>5. PathInv'
  BY DEF CollectJob, store, walk, jobs, TypeOK, PathInv, Slot
<1>6. ActiveInv'
  BY DEF CollectJob, store, walk, jobs, TypeOK, ActiveInv, Active, Own, Inode, Slot
<1>7. VerifiedInv'
  BY DEF CollectJob, store, walk, jobs, TypeOK, VerifiedInv, ActiveInv, Active, Own, Target, Slot
<1>8. FiledInv'
  BY DEF CollectJob, store, walk, jobs, TypeOK, FiledInv, Settled, Slot, Inode
<1>9. CompleteInv'
  BY DEF CollectJob, store, walk, jobs, CompleteInv, Snapshot
<1>10. DoneInv'
  BY SlotAssumption DEF CollectJob, store, walk, jobs, TypeOK, DoneInv, Slot
<1> QED BY <1>1, <1>2, <1>3, <1>4, <1>5, <1>6, <1>7, <1>8, <1>9, <1>10 DEF IInv

LEMMA WriteFailsKeeps ==
    ASSUME UniquePids, IInv, NEW p \in Proc, NEW r \in Slot, WriteFails(p, r)
    PROVE  IInv'
<1> USE DEF IInv
<1>1. TypeOK'
  BY DEF WriteFails, store, walk, jobs, TypeOK, Inode, Slot, JobState, Active, Ended, Version, PhaseInv, Snapshot
<1>2. PhaseInv'
  BY DEF WriteFails, store, walk, jobs, TypeOK, PhaseInv, Slot, Ended, JobState, Active, Snapshot
<1>3. WalkInv'
  BY DEF WriteFails, store, walk, jobs, TypeOK, WalkInv, PhaseInv, Version
<1>4. LinkInv'
  BY DEF WriteFails, store, walk, jobs, TypeOK, LinkInv, Active, Inode, Slot
<1>5. PathInv'
  BY DEF WriteFails, store, walk, jobs, TypeOK, PathInv, Slot
<1>6. ActiveInv'
  BY DEF WriteFails, store, walk, jobs, TypeOK, ActiveInv, Active, Own, Inode, Slot
<1>7. VerifiedInv'
  BY DEF WriteFails, store, walk, jobs, TypeOK, VerifiedInv, ActiveInv, Active, Own, Target, Slot
<1>8. FiledInv'
  BY DEF WriteFails, store, walk, jobs, TypeOK, FiledInv, Settled, Slot, Inode
<1>9. CompleteInv'
  BY DEF WriteFails, store, walk, jobs, CompleteInv, Snapshot
<1>10. DoneInv'
  BY DEF WriteFails, store, walk, jobs, TypeOK, DoneInv, PhaseInv, Slot, Snapshot
<1> QED BY <1>1, <1>2, <1>3, <1>4, <1>5, <1>6, <1>7, <1>8, <1>9, <1>10 DEF IInv

LEMMA FailPushKeeps ==
    ASSUME UniquePids, IInv, NEW p \in Proc, FailPush(p)
    PROVE  IInv'
<1> USE DEF IInv
<1>1. TypeOK'
  BY DEF FailPush, store, walk, jobs, TypeOK, Inode, Slot, JobState, Active, Ended, Version, PhaseInv, Snapshot
<1>2. PhaseInv'
  BY DEF FailPush, store, walk, jobs, TypeOK, PhaseInv, Slot, Ended, JobState, Active, Snapshot
<1>3. WalkInv'
  BY DEF FailPush, store, walk, jobs, TypeOK, WalkInv, PhaseInv, Version
<1>4. LinkInv'
  BY DEF FailPush, store, walk, jobs, TypeOK, LinkInv, Active, Inode, Slot
<1>5. PathInv'
  BY DEF FailPush, store, walk, jobs, TypeOK, PathInv, Slot
<1>6. ActiveInv'
  BY DEF FailPush, store, walk, jobs, TypeOK, ActiveInv, Active, Own, Inode, Slot
<1>7. VerifiedInv'
  BY DEF FailPush, store, walk, jobs, TypeOK, VerifiedInv, ActiveInv, Active, Own, Target, Slot
<1>8. FiledInv'
  BY DEF FailPush, store, walk, jobs, TypeOK, FiledInv, Settled, Slot, Inode
<1>9. CompleteInv'
  BY DEF FailPush, store, walk, jobs, CompleteInv, Snapshot
<1>10. DoneInv'
  BY DEF FailPush, store, walk, jobs, TypeOK, DoneInv, PhaseInv, Slot, Snapshot
<1> QED BY <1>1, <1>2, <1>3, <1>4, <1>5, <1>6, <1>7, <1>8, <1>9, <1>10 DEF IInv

LEMMA CrashKeeps ==
    ASSUME UniquePids, IInv, NEW p \in Proc, Crash(p)
    PROVE  IInv'
<1> USE DEF IInv
<1>1. TypeOK'
  BY DEF Crash, store, walk, jobs, TypeOK, Inode, Slot, JobState, Active, Ended, Version, PhaseInv, Snapshot
<1>2. PhaseInv'
  BY DEF Crash, store, walk, jobs, TypeOK, PhaseInv, Slot, Ended, JobState, Active, Snapshot
<1>3. WalkInv'
  BY DEF Crash, store, walk, jobs, TypeOK, WalkInv, PhaseInv, Version
<1>4. LinkInv'
  BY DEF Crash, store, walk, jobs, TypeOK, LinkInv, Active, Inode, Slot
<1>5. PathInv'
  BY DEF Crash, store, walk, jobs, TypeOK, PathInv, Slot
<1>6. ActiveInv'
  BY DEF Crash, store, walk, jobs, TypeOK, ActiveInv, Active, Own, Inode, Slot
<1>7. VerifiedInv'
  BY DEF Crash, store, walk, jobs, TypeOK, VerifiedInv, ActiveInv, Active, Own, Target, Slot
<1>8. FiledInv'
  BY DEF Crash, store, walk, jobs, TypeOK, FiledInv, Settled, Slot, Inode
<1>9. CompleteInv'
  BY DEF Crash, store, walk, jobs, CompleteInv, Snapshot
<1>10. DoneInv'
  BY DEF Crash, store, walk, jobs, TypeOK, DoneInv, PhaseInv, Slot, Snapshot
<1> QED BY <1>1, <1>2, <1>3, <1>4, <1>5, <1>6, <1>7, <1>8, <1>9, <1>10 DEF IInv

LEMMA OpenTempKeeps ==
    ASSUME UniquePids, IInv, NEW p \in Proc, NEW r \in Slot, OpenTemp(p, r)
    PROVE  IInv'
<1> DEFINE t == TempSibling(p, r)
<1>a. /\ t \in TempPath
      /\ t # None
      /\ \A s \in Slot : path[p][s] # t
      /\ Own(p, r) \in Inode
      /\ Filed(t) = {}
  BY FreshPath DEF OpenTemp
<1>b. /\ path' = [path EXCEPT ![p][r] = t]
      /\ link' = [link EXCEPT ![Own(p, r)] = t]
      /\ fd' = [fd EXCEPT ![p][r] = Own(p, r)]
      /\ bytes' = [bytes EXCEPT ![Own(p, r)] = Torn]
      /\ count' = [count EXCEPT ![p] = @ + 1]
      /\ st' = [st EXCEPT ![p][r] = "writing"]
      /\ UNCHANGED <<src, object, manifest, phase, guarded, seen, snap, left>>
  BY <1>a DEF OpenTemp, NewInode, Own, walk
<1>c. /\ phase[p] = "push"
      /\ snap[p] \in Snapshot
      /\ st[p][r] \in {"idle", "todo", "retry"}
      /\ r = ManifestSlot => \A f \in File : st[p][f] = "done"
      /\ st[p][ManifestSlot] # "idle" => r = ManifestSlot
  BY DEF OpenTemp, MayOpen, IInv, PhaseInv, DoneInv, Slot
<1>d. t[2] = PidOf[p] /\ t[3] = count[p]
  BY DEF TempSibling
<1>e. \A i \in Inode : i[1] \in Proc /\ i[2] \in Slot /\ i = <<i[1], i[2], i[3]>>
  BY DEF Inode
<1> HIDE DEF t
<1>f. \A q \in Proc, s \in Slot :
         /\ path'[q][s] = IF q = p /\ s = r THEN t ELSE path[q][s]
         /\ fd'[q][s] = IF q = p /\ s = r THEN Own(p, r) ELSE fd[q][s]
         /\ st'[q][s] = IF q = p /\ s = r THEN "writing" ELSE st[q][s]
         /\ Own(q, s) \in Inode /\ Own(q, s)' = Own(q, s)
         /\ link'[Own(q, s)] = IF q = p /\ s = r THEN t ELSE link[Own(q, s)]
         /\ bytes'[Own(q, s)] = IF q = p /\ s = r THEN Torn ELSE bytes[Own(q, s)]
         /\ count[q] \in Nat
         /\ count'[q] = IF q = p THEN count[q] + 1 ELSE count[q]
  BY <1>a, <1>b DEF IInv, TypeOK, Own, Inode
<1> USE DEF IInv
<1>1. TypeOK'
  BY <1>a, <1>b DEF TypeOK, JobState, Active
<1>2. PhaseInv'
  BY <1>b, <1>c, SlotAssumption DEF TypeOK, PhaseInv, Slot
<1>3. WalkInv'
  BY <1>b DEF WalkInv
<1>4. LinkInv'
  BY <1>a, <1>b, <1>c, <1>e DEF TypeOK, LinkInv, Active, Own
<1>5. PathInv'
  <2>1. \A q \in Proc, s \in Slot : path[q][s] # None => path[q][s][3] \in Nat
    BY DEF TypeOK, TempPath
  <2>2. t[3] \in Nat /\ r \in Slot
    BY <1>d DEF TypeOK, Slot
  <2> SUFFICES ASSUME NEW q \in Proc, NEW s \in Slot, path'[q][s] # None
               PROVE  /\ path'[q][s][2] = PidOf[q]
                      /\ path'[q][s][3] < count'[q]
                      /\ \A u \in Slot : path'[q][u] = path'[q][s] => u = s
    BY DEF PathInv
  <2>3. CASE q = p /\ s = r
    BY <1>a, <1>d, <1>f, <2>2, <2>3
  <2>4. CASE ~(q = p /\ s = r)
    BY <1>a, <1>d, <1>f, <2>1, <2>2, <2>4 DEF PathInv
  <2> QED BY <2>3, <2>4
<1>6. ActiveInv'
  BY <1>a, <1>b, <1>c, <1>f DEF ActiveInv, Active
<1>7. VerifiedInv'
  BY <1>a, <1>b, <1>c DEF TypeOK, VerifiedInv, Active, Own, Target, Slot
<1>8. FiledInv'
  BY <1>a, <1>b, <1>c, <1>e DEF TypeOK, FiledInv, Settled, Own
<1>9. CompleteInv'
  BY <1>b DEF CompleteInv
<1>10. DoneInv'
  BY <1>b, <1>c, SlotAssumption DEF TypeOK, DoneInv, Slot
<1> QED BY <1>1, <1>2, <1>3, <1>4, <1>5, <1>6, <1>7, <1>8, <1>9, <1>10 DEF IInv

LEMMA CloneTempKeeps ==
    ASSUME UniquePids, IInv, NEW p \in Proc, NEW g \in File, CloneTemp(p, g)
    PROVE  IInv'
<1> DEFINE t == TempSibling(p, g)
<1>a. /\ t \in TempPath
      /\ t # None
      /\ \A s \in Slot : path[p][s] # t
      /\ Own(p, g) \in Inode
      /\ Filed(t) = {}
  BY FreshPath DEF CloneTemp, Slot
<1>b. /\ path' = [path EXCEPT ![p][g] = t]
      /\ link' = [link EXCEPT ![Own(p, g)] = t]
      /\ fd' = [fd EXCEPT ![p][g] = Own(p, g)]
      /\ bytes' = [bytes EXCEPT ![Own(p, g)] = src[g].data]
      /\ count' = [count EXCEPT ![p] = @ + 1]
      /\ st' = [st EXCEPT ![p][g] = "cloned"]
      /\ UNCHANGED <<src, object, manifest, phase, guarded, seen, snap, left>>
  BY <1>a DEF CloneTemp, NewInode, Own, walk
<1>c. /\ phase[p] = "push"
      /\ snap[p] \in Snapshot
      /\ snap[p][g] # None
      /\ st[p][g] \in {"todo", "retry"}
      /\ st[p][ManifestSlot] = "idle"
  BY SlotAssumption, NoneAssumption DEF CloneTemp, MayOpen, IInv, PhaseInv, DoneInv, Slot, Snapshot
<1>d. t[2] = PidOf[p] /\ t[3] = count[p]
  BY DEF TempSibling
<1>e. \A i \in Inode : i[1] \in Proc /\ i[2] \in Slot /\ i = <<i[1], i[2], i[3]>>
  BY DEF Inode
<1> HIDE DEF t
<1>f. \A q \in Proc, s \in Slot :
         /\ path'[q][s] = IF q = p /\ s = g THEN t ELSE path[q][s]
         /\ fd'[q][s] = IF q = p /\ s = g THEN Own(p, g) ELSE fd[q][s]
         /\ st'[q][s] = IF q = p /\ s = g THEN "cloned" ELSE st[q][s]
         /\ Own(q, s) \in Inode /\ Own(q, s)' = Own(q, s)
         /\ link'[Own(q, s)] = IF q = p /\ s = g THEN t ELSE link[Own(q, s)]
         /\ bytes'[Own(q, s)] = IF q = p /\ s = g THEN src[g].data ELSE bytes[Own(q, s)]
         /\ count[q] \in Nat
         /\ count'[q] = IF q = p THEN count[q] + 1 ELSE count[q]
  BY <1>a, <1>b DEF IInv, TypeOK, Own, Inode, Slot
<1> USE DEF IInv
<1>1. TypeOK'
  <2>1. g \in Slot /\ src[g].data \in Data
    BY DEF TypeOK, Slot
  <2> QED BY <1>a, <1>b, <2>1 DEF TypeOK, JobState, Active
<1>2. PhaseInv'
  BY <1>b, <1>c, SlotAssumption DEF TypeOK, PhaseInv, Slot
<1>3. WalkInv'
  BY <1>b DEF WalkInv
<1>4. LinkInv'
  BY <1>a, <1>b, <1>c, <1>e DEF TypeOK, LinkInv, Active, Own, Slot
<1>5. PathInv'
  <2>1. \A q \in Proc, s \in Slot : path[q][s] # None => path[q][s][3] \in Nat
    BY DEF TypeOK, TempPath
  <2>2. t[3] \in Nat /\ g \in Slot
    BY <1>d DEF TypeOK, Slot
  <2> SUFFICES ASSUME NEW q \in Proc, NEW s \in Slot, path'[q][s] # None
               PROVE  /\ path'[q][s][2] = PidOf[q]
                      /\ path'[q][s][3] < count'[q]
                      /\ \A u \in Slot : path'[q][u] = path'[q][s] => u = s
    BY DEF PathInv
  <2>3. CASE q = p /\ s = g
    BY <1>a, <1>d, <1>f, <2>2, <2>3
  <2>4. CASE ~(q = p /\ s = g)
    BY <1>a, <1>d, <1>f, <2>1, <2>2, <2>4 DEF PathInv
  <2> QED BY <2>3, <2>4
<1>6. ActiveInv'
  BY <1>a, <1>b, <1>c, <1>f DEF ActiveInv, Active, Slot
<1>7. VerifiedInv'
  BY <1>b, <1>c, <1>f DEF TypeOK, VerifiedInv, WalkInv, Target, Slot
<1>8. FiledInv'
  BY <1>a, <1>b, <1>c, <1>e DEF TypeOK, FiledInv, Settled, Own, Slot
<1>9. CompleteInv'
  BY <1>b DEF CompleteInv
<1>10. DoneInv'
  BY <1>b, <1>c, SlotAssumption DEF TypeOK, DoneInv, Slot
<1> QED BY <1>1, <1>2, <1>3, <1>4, <1>5, <1>6, <1>7, <1>8, <1>9, <1>10 DEF IInv

LEMMA WriteTempKeeps ==
    ASSUME UniquePids, IInv, NEW p \in Proc, NEW r \in Slot, WriteTemp(p, r)
    PROVE  IInv'
<1>a. Own(p, r) \in Inode /\ fd[p][r] = Own(p, r)
  BY OwnFiled DEF WriteTemp, IInv, ActiveInv, Active
<1>b. PICK d \in Data \cup Snapshot \cup {Torn} :
         /\ bytes' = [bytes EXCEPT ![Own(p, r)] = d]
         /\ st' = [st EXCEPT ![p][r] = IF r = ManifestSlot THEN "verified" ELSE "written"]
         /\ r = ManifestSlot => d = snap[p]
         /\ UNCHANGED <<src, link, object, manifest, phase, guarded, seen, snap, left, path, fd, count>>
  <2>1. CASE r = ManifestSlot
    BY <1>a, <2>1 DEF WriteTemp, walk, IInv, PhaseInv
  <2>2. CASE r # ManifestSlot
    BY <1>a, <2>2 DEF WriteTemp, walk, IInv, TypeOK, Slot
  <2> QED BY <2>1, <2>2
<1>c. /\ phase[p] = "push"
      /\ snap[p] \in Snapshot
      /\ st[p][r] = "writing"
      /\ r # ManifestSlot => st[p][ManifestSlot] = "idle"
  BY DEF WriteTemp, IInv, PhaseInv, DoneInv, Slot
<1>e. \A i \in Inode : i[1] \in Proc /\ i[2] \in Slot /\ i = <<i[1], i[2], i[3]>>
  BY DEF Inode
<1>f. \A q \in Proc, s \in Slot :
         /\ st'[q][s] = IF q = p /\ s = r THEN (IF r = ManifestSlot THEN "verified" ELSE "written")
                                          ELSE st[q][s]
         /\ Own(q, s) \in Inode /\ Own(q, s)' = Own(q, s)
         /\ bytes'[Own(q, s)] = IF q = p /\ s = r THEN d ELSE bytes[Own(q, s)]
  BY <1>a, <1>b DEF IInv, TypeOK, Own, Inode
<1> USE DEF IInv
<1>1. TypeOK'
  BY <1>a, <1>b DEF TypeOK, JobState, Active
<1>2. PhaseInv'
  BY <1>b, <1>c, SlotAssumption DEF TypeOK, PhaseInv, Slot
<1>3. WalkInv'
  BY <1>b DEF WalkInv
<1>4. LinkInv'
  BY <1>b, <1>c, <1>e DEF TypeOK, LinkInv, Active
<1>5. PathInv'
  BY <1>b DEF TypeOK, PathInv
<1>6. ActiveInv'
  BY <1>b, <1>c DEF TypeOK, ActiveInv, Active, Own
<1>7. VerifiedInv'
  BY <1>b, <1>c, <1>f DEF VerifiedInv, Target, Slot
<1>8. FiledInv'
  BY <1>a, <1>b, <1>c, <1>e DEF TypeOK, FiledInv, Settled, Own
<1>9. CompleteInv'
  BY <1>b DEF CompleteInv
<1>10. DoneInv'
  BY <1>b, <1>c, SlotAssumption DEF TypeOK, DoneInv, Slot
<1> QED BY <1>1, <1>2, <1>3, <1>4, <1>5, <1>6, <1>7, <1>8, <1>9, <1>10 DEF IInv

LEMMA DecideCloneKeeps ==
    ASSUME UniquePids, IInv, NEW p \in Proc, NEW g \in File, DecideClone(p, g)
    PROVE  IInv'
<1>c. /\ phase[p] = "push"
      /\ st[p][g] = "cloned"
      /\ st[p][ManifestSlot] = "idle"
      /\ g \in Slot
  BY DEF DecideClone, IInv, PhaseInv, DoneInv, Slot
<1>f. /\ \A q \in Proc, s \in Slot :
            st'[q][s] = IF q = p /\ s = g
                        THEN (IF guarded[p] /\ src[g].ver = seen[p][g] THEN "verified" ELSE "written")
                        ELSE st[q][s]
      /\ \A q \in Proc, s \in Slot : Own(q, s)' = Own(q, s)
      /\ UNCHANGED <<src, bytes, link, object, manifest, phase, guarded, seen, snap, left, path, fd, count>>
  BY <1>c DEF DecideClone, store, walk, IInv, TypeOK, Own
<1>e. \A i \in Inode : i[1] \in Proc /\ i[2] \in Slot
  BY DEF Inode
<1> USE DEF IInv
<1>1. TypeOK'
  BY DEF DecideClone, store, walk, jobs, TypeOK, Inode, Slot, JobState, Active, Ended, Version, PhaseInv, Snapshot
<1>2. PhaseInv'
  BY <1>c, <1>f, SlotAssumption DEF PhaseInv, Slot
<1>3. WalkInv'
  BY DEF DecideClone, store, walk, jobs, TypeOK, WalkInv, PhaseInv, Version
<1>4. LinkInv'
  BY <1>c, <1>e, <1>f DEF LinkInv, Active
<1>5. PathInv'
  BY DEF DecideClone, store, walk, jobs, TypeOK, PathInv, Slot
<1>6. ActiveInv'
  BY <1>c, <1>f DEF ActiveInv, Active
<1>7. VerifiedInv'
  BY <1>c, <1>f, SlotAssumption DEF VerifiedInv, Target, Slot
<1>8. FiledInv'
  BY <1>c, <1>e, <1>f DEF FiledInv, Settled
<1>9. CompleteInv'
  BY <1>f DEF CompleteInv
<1>10. DoneInv'
  BY <1>c, <1>f, SlotAssumption DEF DoneInv, Slot
<1> QED BY <1>1, <1>2, <1>3, <1>4, <1>5, <1>6, <1>7, <1>8, <1>9, <1>10 DEF IInv

LEMMA VerifyTempKeeps ==
    ASSUME UniquePids, IInv, NEW p \in Proc, NEW g \in File, VerifyTemp(p, g)
    PROVE  IInv'
<1>c. /\ phase[p] = "push"
      /\ st[p][g] = "written"
      /\ st[p][ManifestSlot] = "idle"
      /\ g \in Slot
  BY DEF VerifyTemp, IInv, PhaseInv, DoneInv, Slot
<1>d. Filed(path[p][g]) = {Own(p, g)}
  BY <1>c, OwnFiled DEF Active
<1>f. /\ \A q \in Proc, s \in Slot :
            st'[q][s] = IF q = p /\ s = g
                        THEN (IF bytes[Own(p, g)] = snap[p][g] THEN "verified" ELSE "mismatch")
                        ELSE st[q][s]
      /\ \A q \in Proc, s \in Slot : Own(q, s)' = Own(q, s)
      /\ UNCHANGED <<src, bytes, link, object, manifest, phase, guarded, seen, snap, left, path, fd, count>>
  BY <1>c, <1>d DEF VerifyTemp, store, walk, IInv, TypeOK, Own
<1>e. \A i \in Inode : i[1] \in Proc /\ i[2] \in Slot
  BY DEF Inode
<1> USE DEF IInv
<1>1. TypeOK'
  BY DEF VerifyTemp, store, walk, jobs, TypeOK, Inode, Slot, JobState, Active, Ended, Version, PhaseInv, Snapshot
<1>2. PhaseInv'
  BY <1>c, <1>f, SlotAssumption DEF PhaseInv, Slot
<1>3. WalkInv'
  BY DEF VerifyTemp, store, walk, jobs, TypeOK, WalkInv, PhaseInv, Version
<1>4. LinkInv'
  BY <1>c, <1>e, <1>f DEF LinkInv, Active
<1>5. PathInv'
  BY DEF VerifyTemp, store, walk, jobs, TypeOK, PathInv, Slot
<1>6. ActiveInv'
  BY <1>c, <1>f DEF ActiveInv, Active
<1>7. VerifiedInv'
  BY <1>c, <1>f, SlotAssumption DEF VerifiedInv, Target, Slot
<1>8. FiledInv'
  BY <1>c, <1>e, <1>f DEF FiledInv, Settled
<1>9. CompleteInv'
  BY <1>f DEF CompleteInv
<1>10. DoneInv'
  BY <1>c, <1>f, SlotAssumption DEF DoneInv, Slot
<1> QED BY <1>1, <1>2, <1>3, <1>4, <1>5, <1>6, <1>7, <1>8, <1>9, <1>10 DEF IInv

LEMMA RetryOrFailKeeps ==
    ASSUME UniquePids, IInv, NEW p \in Proc, NEW g \in File, RetryOrFail(p, g)
    PROVE  IInv'
<1>c. /\ phase[p] = "push"
      /\ st[p][g] = "mismatch"
      /\ st[p][ManifestSlot] = "idle"
      /\ g \in Slot
      /\ left[p][g] \in 1..MaxRetries
  BY DEF RetryOrFail, IInv, TypeOK, PhaseInv, DoneInv, Slot
<1>d. Filed(path[p][g]) = {Own(p, g)} /\ Own(p, g) \in Inode
  BY <1>c, OwnFiled DEF Active
<1>e. \A i \in Inode : i[1] \in Proc /\ i[2] \in Slot /\ i = <<i[1], i[2], i[3]>>
  BY DEF Inode
<1>f. link' = [link EXCEPT ![Own(p, g)] = None]
  BY <1>d DEF RetryOrFail, Filed, IInv, TypeOK
<1>h. PICK x \in {"retry", "error"}, k \in 1..MaxRetries :
         /\ st' = [st EXCEPT ![p][g] = x]
         /\ left' = [left EXCEPT ![p][g] = k]
         /\ UNCHANGED <<src, bytes, object, manifest, phase, guarded, seen, snap, path, fd, count>>
  <2>1. CASE src[g].data # snap[p][g] \/ left[p][g] = 1
    <3>1. left = [left EXCEPT ![p][g] = left[p][g]]
      BY <1>c DEF IInv, TypeOK
    <3> QED BY <1>c, <2>1, <3>1 DEF RetryOrFail, walk
  <2>2. CASE ~(src[g].data # snap[p][g] \/ left[p][g] = 1)
    <3>1. left[p][g] - 1 \in 1..MaxRetries
      BY <1>c, <2>2, RetriesAssumption
    <3> QED BY <1>c, <2>2, <3>1 DEF RetryOrFail, walk
  <2> QED BY <2>1, <2>2
<1>i. \A q \in Proc, s \in Slot :
         /\ st'[q][s] = IF q = p /\ s = g THEN x ELSE st[q][s]
         /\ left'[q][s] = IF q = p /\ s = g THEN k ELSE left[q][s]
         /\ Own(q, s) \in Inode
         /\ ~(q = p /\ s = g) => Own(q, s)' = Own(q, s) /\ Own(q, s) # Own(p, g)
  BY <1>c, <1>h DEF IInv, TypeOK, Own, Inode
<1> USE DEF IInv
<1>1. TypeOK'
  BY <1>c, <1>d, <1>f, <1>h DEF TypeOK, JobState, Active
<1>2. PhaseInv'
  BY <1>c, <1>h, <1>i, SlotAssumption DEF PhaseInv, Slot
<1>3. WalkInv'
  BY <1>h DEF WalkInv
<1>4. LinkInv'
  BY <1>c, <1>d, <1>e, <1>f, <1>h, <1>i DEF LinkInv, TypeOK, Own
<1>5. PathInv'
  BY <1>h DEF PathInv
<1>6. ActiveInv'
  BY <1>c, <1>d, <1>f, <1>h, <1>i DEF ActiveInv, Active, TypeOK
<1>7. VerifiedInv'
  BY <1>c, <1>h, <1>i DEF VerifiedInv, Target, Slot
<1>8. FiledInv'
  BY <1>c, <1>d, <1>e, <1>f, <1>h, <1>i DEF FiledInv, Settled, TypeOK, Own
<1>9. CompleteInv'
  BY <1>h DEF CompleteInv
<1>10. DoneInv'
  BY <1>c, <1>h, <1>i, SlotAssumption DEF DoneInv, Slot
<1> QED BY <1>1, <1>2, <1>3, <1>4, <1>5, <1>6, <1>7, <1>8, <1>9, <1>10 DEF IInv

LEMMA RenameTempKeeps ==
    ASSUME UniquePids, IInv, NEW p \in Proc, NEW r \in Slot, RenameTemp(p, r)
    PROVE  IInv'
<1>c. /\ phase[p] = "push"
      /\ st[p][r] = "verified"
      /\ r # ManifestSlot => st[p][ManifestSlot] = "idle"
      /\ r = ManifestSlot => \A f \in File : st[p][f] = "done"
      /\ snap[p] \in Snapshot
      /\ bytes[Own(p, r)] = Target(p, r)
  BY DEF RenameTemp, IInv, PhaseInv, DoneInv, VerifiedInv, Slot
<1>d. Filed(path[p][r]) = {Own(p, r)} /\ Own(p, r) \in Inode
  BY <1>c, OwnFiled DEF Active
<1>e. \A i \in Inode : i[1] \in Proc /\ i[2] \in Slot /\ i = <<i[1], i[2], i[3]>>
  BY DEF Inode
<1>f. /\ link' = [link EXCEPT ![Own(p, r)] = None]
      /\ st' = [st EXCEPT ![p][r] = "done"]
      /\ r = ManifestSlot =>
           /\ manifest' = [manifest EXCEPT ![snap[p]] = Own(p, r)]
           /\ phase' = [phase EXCEPT ![p] = "done"]
           /\ UNCHANGED object
      /\ r # ManifestSlot =>
           /\ object' = [object EXCEPT ![snap[p][r]] = Own(p, r)]
           /\ UNCHANGED <<manifest, phase>>
      /\ UNCHANGED <<src, bytes, guarded, seen, snap, left, path, fd, count>>
  BY <1>d DEF RenameTemp, walk
<1>i. \A q \in Proc, s \in Slot :
         /\ st'[q][s] = IF q = p /\ s = r THEN "done" ELSE st[q][s]
         /\ Own(q, s) \in Inode /\ Own(q, s)' = Own(q, s)
         /\ ~(q = p /\ s = r) => Own(q, s) # Own(p, r)
  BY <1>f DEF IInv, TypeOK, Own, Inode
<1>j. r # ManifestSlot => r \in File /\ snap[p][r] \in Data /\ Target(p, r) = snap[p][r]
  BY <1>c DEF Slot, Snapshot, Target
<1>k. r = ManifestSlot => Target(p, r) = snap[p]
  BY DEF Target
<1>l. Own(p, r) # None
  BY <1>d, NoneAssumption
<1>m. Own(p, r)[1] = p /\ Own(p, r)[2] = r
  BY DEF Own
<1>n. \A d \in Data : object[d] # None => object'[d] # None
  BY <1>f, <1>j, <1>l DEF IInv, TypeOK
<1> USE DEF IInv
<1>1. TypeOK'
  <2>1. link' \in [Inode -> TempPath \cup {None}] /\ st' \in [Proc -> [Slot -> JobState]]
    BY <1>d, <1>f DEF TypeOK, JobState
  <2>2. object' \in [Data -> Inode \cup {None}]
    BY <1>d, <1>f, <1>j DEF TypeOK
  <2>3. manifest' \in [Snapshot -> Inode \cup {None}]
    BY <1>c, <1>d, <1>f DEF TypeOK
  <2>4. phase' \in [Proc -> {"walk", "hash", "push"} \cup Ended]
    BY <1>f DEF TypeOK, Ended
  <2> QED BY <1>f, <2>1, <2>2, <2>3, <2>4 DEF TypeOK
<1>2. PhaseInv'
  <2>1. CASE r = ManifestSlot
    BY <1>c, <1>f, <1>i, <2>1 DEF TypeOK, PhaseInv, Slot
  <2>2. CASE r # ManifestSlot
    BY <1>c, <1>f, <1>i, <1>j, <2>2 DEF PhaseInv, Slot
  <2> QED BY <2>1, <2>2
<1>3. WalkInv'
  BY <1>f DEF WalkInv
<1>4. LinkInv'
  BY <1>c, <1>d, <1>e, <1>f, <1>i DEF LinkInv, TypeOK, Own
<1>5. PathInv'
  BY <1>f DEF PathInv
<1>6. ActiveInv'
  BY <1>d, <1>f, <1>i DEF ActiveInv, Active, TypeOK
<1>7. VerifiedInv'
  BY <1>f, <1>i DEF VerifiedInv, Target, Slot
<1>8. FiledInv'
  <2>1. \A i \in Inode : Settled(i) => Settled(i)'
    BY <1>d, <1>e, <1>f, <1>i, <1>m DEF Settled, TypeOK
  <2>2. \A i \in Inode : i = Own(p, r) => Settled(i)'
    BY <1>d, <1>f, <1>i, <1>m DEF Settled, TypeOK
  <2>3. ASSUME NEW i \in Inode, NEW d \in Data, object'[d] = i
        PROVE  bytes'[i] = d /\ Settled(i)'
    <3>1. object[d] = i \/ (r # ManifestSlot /\ d = snap[p][r] /\ i = Own(p, r))
      BY <1>f, <1>j, <2>3 DEF TypeOK
    <3> QED BY <1>c, <1>f, <1>j, <2>1, <2>2, <3>1 DEF FiledInv
  <2>4. ASSUME NEW i \in Inode, NEW m \in Snapshot, manifest'[m] = i
        PROVE  bytes'[i] = m /\ Settled(i)'
    <3>1. manifest[m] = i \/ (r = ManifestSlot /\ m = snap[p] /\ i = Own(p, r))
      BY <1>c, <1>f, <2>4 DEF TypeOK
    <3> QED BY <1>c, <1>f, <1>k, <2>1, <2>2, <3>1 DEF FiledInv
  <2> QED BY <2>3, <2>4 DEF FiledInv
<1>9. CompleteInv'
  <2>1. \A m \in Snapshot, f \in File : object[m[f]] # None => object'[m[f]] # None
    BY <1>n DEF Snapshot
  <2>2. r = ManifestSlot => \A f \in File : object[snap[p][f]] # None
    BY <1>c DEF DoneInv
  <2> QED BY <1>c, <1>f, <2>1, <2>2 DEF CompleteInv, TypeOK
<1>10. DoneInv'
  <2>1. \A q \in Proc, f \in File : st[q][f] = "done" => object'[snap[q][f]] # None
    <3>1. \A q \in Proc, f \in File : st[q][f] = "done" => snap[q][f] \in Data
      BY DEF PhaseInv, Slot, Snapshot
    <3> QED BY <1>n, <3>1 DEF DoneInv
  <2>2. r # ManifestSlot => object'[snap[p][r]] # None
    BY <1>f, <1>j, <1>l DEF TypeOK
  <2> QED BY <1>c, <1>f, <1>i, <1>j, <2>1, <2>2, SlotAssumption DEF DoneInv, Slot
<1> QED BY <1>1, <1>2, <1>3, <1>4, <1>5, <1>6, <1>7, <1>8, <1>9, <1>10 DEF IInv

-----------------------------------------------------------------------------
(* The inductive invariant and what follows from it.                       *)

LEMMA IInvInit == Init => IInv
<1> SUFFICES ASSUME Init PROVE IInv
  OBVIOUS
<1> USE RetriesAssumption, EditsAssumption, NoneAssumption, SlotAssumption DEF Init
<1>1. src \in [File -> [data : Data, ver : Version]]
  BY DEF Version
<1>2. TypeOK
  BY <1>1 DEF TypeOK, Version, JobState, Active, Ended
<1>3. WalkInv
  BY <1>1 DEF WalkInv, Version
<1> QED BY <1>2, <1>3 DEF IInv, PhaseInv, LinkInv, PathInv, ActiveInv, VerifiedInv,
                          FiledInv, CompleteInv, DoneInv, Active, Slot, Own

LEMMA IInvNext ==
    ASSUME UniquePids, IInv, [Next]_vars
    PROVE  IInv'
<1>1. CASE UNCHANGED vars
  BY <1>1 DEF vars, store, walk, jobs, IInv, TypeOK, PhaseInv, WalkInv, LinkInv, PathInv, ActiveInv,
              VerifiedInv, FiledInv, CompleteInv, DoneInv, Own, Target, Settled
<1>2. ASSUME NEW p \in Proc, Step(p) PROVE IInv'
  BY <1>2, DiscoverKeeps, StartPushKeeps, FailPushKeeps, HashFileKeeps, CollectJobKeeps,
     CloneTempKeeps, DecideCloneKeeps, VerifyTempKeeps, RetryOrFailKeeps, OpenTempKeeps,
     WriteTempKeeps, WriteFailsKeeps, RenameTempKeeps DEF Step
<1>3. ASSUME NEW p \in Proc, Crash(p) PROVE IInv'
  BY <1>3, CrashKeeps
<1>4. ASSUME NEW f \in File, EditSource(f) PROVE IInv'
  BY <1>4, EditSourceKeeps
<1>5. ASSUME NEW m \in Snapshot, DeleteManifest(m) PROVE IInv'
  BY <1>5, DeleteManifestKeeps
<1> QED BY <1>1, <1>2, <1>3, <1>4, <1>5 DEF Next

\* With distinct pids, every reachable state satisfies the inductive invariant.
THEOREM Invariance ==
    ASSUME UniquePids
    PROVE  Spec => []IInv
<1>1. Init => IInv
  BY IInvInit
<1>2. IInv /\ [Next]_vars => IInv'
  BY IInvNext
<1> QED BY <1>1, <1>2, PTL DEF Spec

\* Every variable keeps its type.
THEOREM TypeCorrect ==
    ASSUME UniquePids
    PROVE  Spec => []TypeOK
<1>1. IInv => TypeOK
  BY DEF IInv
<1> QED BY <1>1, Invariance, PTL

\* No push, crash, retry, clone-skip or concurrent edit puts bytes at an object
\* address that do not hash to it (persist).
THEOREM ObjectsStayIntact ==
    ASSUME UniquePids
    PROVE  Spec => []ObjectsIntact
<1>1. IInv => ObjectsIntact
  BY DEF IInv, TypeOK, FiledInv, ObjectsIntact
<1> QED BY <1>1, Invariance, PTL

\* A manifest at its address is whole and all its objects are present and
\* intact (FileStore::push writes it last).
THEOREM ManifestsStayComplete ==
    ASSUME UniquePids
    PROVE  Spec => []ManifestsComplete
<1>1. IInv => ManifestsComplete
  <2> SUFFICES ASSUME IInv, NEW m \in Snapshot, manifest[m] # None
               PROVE  /\ bytes[manifest[m]] = m
                      /\ \A f \in File : object[m[f]] # None /\ bytes[object[m[f]]] = m[f]
    BY DEF ManifestsComplete
  <2>1. bytes[manifest[m]] = m
    BY DEF IInv, TypeOK, FiledInv
  <2>2. \A f \in File : m[f] \in Data /\ object[m[f]] # None
    BY DEF IInv, CompleteInv, Snapshot
  <2> QED BY <2>1, <2>2 DEF IInv, TypeOK, FiledInv
<1> QED BY <1>1, Invariance, PTL

-----------------------------------------------------------------------------
(* Refinement.                                                             *)

\* Readers see exactly the addresses that are filed.
ObjectsSeen == {d \in Data : object[d] # None /\ bytes[object[d]] = d}
ManifestsSeen == {m \in Snapshot : manifest[m] # None /\ bytes[manifest[m]] = m}

LEMMA ReaderView ==
    ASSUME IInv
    PROVE  /\ ObjectsSeen = {d \in Data : object[d] # None}
           /\ ManifestsSeen = {m \in Snapshot : manifest[m] # None}
<1>1. \A d \in Data : object[d] # None => bytes[object[d]] = d
  BY DEF IInv, TypeOK, FiledInv
<1>2. \A m \in Snapshot : manifest[m] # None => bytes[manifest[m]] = m
  BY DEF IInv, TypeOK, FiledInv
<1> QED BY <1>1, <1>2 DEF ObjectsSeen, ManifestsSeen

LEMMA NextRefines ==
    ASSUME UniquePids, IInv, [Next]_vars
    PROVE  [CS!Next]_CS!vars
<1>0. IInv'
  BY IInvNext
<1>1. /\ ObjectsSeen = {d \in Data : object[d] # None}
      /\ ManifestsSeen = {m \in Snapshot : manifest[m] # None}
  BY ReaderView
<1>2. /\ ObjectsSeen' = {d \in Data : object'[d] # None}
      /\ ManifestsSeen' = {m \in Snapshot : manifest'[m] # None}
  <2>1. \A d \in Data : object'[d] # None => bytes'[object'[d]] = d
    BY <1>0 DEF IInv, TypeOK, FiledInv
  <2>2. \A m \in Snapshot : manifest'[m] # None => bytes'[manifest'[m]] = m
    BY <1>0 DEF IInv, TypeOK, FiledInv
  <2> QED BY <2>1, <2>2 DEF ObjectsSeen, ManifestsSeen
<1>3. ObjectsSeen' = ObjectsSeen /\ ManifestsSeen' = ManifestsSeen => UNCHANGED CS!vars
  BY DEF CS!vars, ObjectsSeen, ManifestsSeen
<1>4. UNCHANGED <<object, manifest>> => UNCHANGED CS!vars
  BY <1>1, <1>2, <1>3
<1>5. ASSUME NEW p \in Proc, NEW r \in Slot, RenameTemp(p, r)
      PROVE  [CS!Next]_CS!vars
  <2>1. /\ st[p][r] = "verified"
        /\ r # ManifestSlot => r \in File
        /\ snap[p] \in Snapshot
        /\ r = ManifestSlot => \A f \in File : object[snap[p][f]] # None
    BY <1>5 DEF RenameTemp, IInv, PhaseInv, DoneInv, Slot
  <2>2. Filed(path[p][r]) = {Own(p, r)} /\ Own(p, r) \in Inode /\ Own(p, r) # None
    BY <2>1, OwnFiled, NoneAssumption DEF Active
  <2>3. CASE r = ManifestSlot
    <3>0. PICK m \in Snapshot : m = snap[p]
      BY <2>1
    <3>1. manifest' = [manifest EXCEPT ![m] = Own(p, r)] /\ UNCHANGED object
      BY <1>5, <2>2, <2>3, <3>0 DEF RenameTemp
    <3>2. ManifestsSeen' = ManifestsSeen \cup {m} /\ ObjectsSeen' = ObjectsSeen
      BY <1>1, <1>2, <2>2, <3>1 DEF IInv, TypeOK
    <3>3. CS!ObjectsOf(m) \subseteq ObjectsSeen
      BY <1>1, <2>1, <2>3, <3>0 DEF CS!ObjectsOf, Snapshot
    <3>4. m \notin ManifestsSeen => CS!CommitManifest(m)
      BY <3>2, <3>3 DEF CS!CommitManifest, ObjectsSeen, ManifestsSeen
    <3>5. m \in ManifestsSeen => UNCHANGED CS!vars
      BY <1>3, <3>2
    <3>6. CS!CommitManifest(m) => CS!Next
      BY DEF CS!Next, CS!Snapshot, Snapshot
    <3> QED BY <3>4, <3>5, <3>6
  <2>4. CASE r # ManifestSlot
    <3>0. PICK d \in Data : d = snap[p][r]
      BY <2>1, <2>4 DEF Snapshot
    <3>1. object' = [object EXCEPT ![d] = Own(p, r)] /\ UNCHANGED manifest
      BY <1>5, <2>2, <2>4, <3>0 DEF RenameTemp
    <3>2. ObjectsSeen' = ObjectsSeen \cup {d} /\ ManifestsSeen' = ManifestsSeen
      BY <1>1, <1>2, <2>2, <3>1 DEF IInv, TypeOK
    <3>3. d \notin ObjectsSeen => CS!AddObject(d)
      BY <3>2 DEF CS!AddObject, ObjectsSeen, ManifestsSeen
    <3>4. d \in ObjectsSeen => UNCHANGED CS!vars
      BY <1>3, <3>2
    <3>5. CS!AddObject(d) => CS!Next
      BY DEF CS!Next
    <3> QED BY <3>3, <3>4, <3>5
  <2> QED BY <2>3, <2>4
<1>6. ASSUME NEW m \in Snapshot, DeleteManifest(m)
      PROVE  [CS!Next]_CS!vars
  <2>1. ManifestsSeen' = ManifestsSeen \ {m} /\ ObjectsSeen' = ObjectsSeen /\ m \in ManifestsSeen
    BY <1>1, <1>2, <1>6 DEF DeleteManifest, IInv, TypeOK
  <2>2. CS!DeleteManifest(m)
    BY <2>1 DEF CS!DeleteManifest, ObjectsSeen, ManifestsSeen
  <2> QED BY <2>2 DEF CS!Next, CS!Snapshot, Snapshot
<1>7. ASSUME NEW p \in Proc, Step(p)
      PROVE  UNCHANGED <<object, manifest>> \/ \E r \in Slot : RenameTemp(p, r)
  BY <1>7 DEF Step, Discover, StartPush, FailPush, HashFile, CollectJob, CloneTemp, DecideClone,
              VerifyTemp, RetryOrFail, OpenTemp, WriteTemp, WriteFails, store
<1>8. CASE UNCHANGED vars
  BY <1>4, <1>8 DEF vars, store
<1>9. CASE Next
  <2>1. CASE \E p \in Proc : Step(p)
    BY <1>4, <1>5, <1>7, <2>1
  <2>2. CASE \E p \in Proc : Crash(p)
    BY <1>4, <2>2 DEF Crash, store
  <2>3. CASE \E f \in File : EditSource(f)
    BY <1>4, <2>3 DEF EditSource, store
  <2>4. CASE \E m \in Snapshot : DeleteManifest(m)
    BY <1>6, <2>4
  <2> QED BY <1>9, <2>1, <2>2, <2>3, <2>4 DEF Next
<1> QED BY <1>8, <1>9

\* The file store implements the abstract content-addressed store: a reader
\* sees whole objects and complete manifests appear, and nothing else.
THEOREM Refinement ==
    ASSUME UniquePids
    PROVE  Spec => ImplementsContentStore
<1>1. Init => CS!Init
  BY DEF Init, CS!Init
<1>2. IInv /\ [Next]_vars => [CS!Next]_CS!vars
  BY NextRefines
<1> QED BY <1>1, <1>2, Invariance, PTL DEF Spec, ImplementsContentStore, CS!Spec


=============================================================================
