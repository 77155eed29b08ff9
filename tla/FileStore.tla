------------------------------ MODULE FileStore ------------------------------
(***************************************************************************)
(* `snapdir push` / `snapdir stage` into a file store, step by step:       *)
(* the walk that hashes the source tree, FileStore::push, persist and its  *)
(* retry loop, the copy-on-write clone that may skip the re-hash, and      *)
(* write_manifest (snapdir-stores/src/file_store.rs).                      *)
(*                                                                         *)
(* Several processes push the same source tree into one store directory    *)
(* while the user goes on editing the tree and a mirror deletes manifests. *)
(* A process may crash at any step; a retry is another process.            *)
(*                                                                         *)
(* The file system is modelled by inodes: an open file is written through  *)
(* its inode (fd), a path is looked up at each use (link, object,          *)
(* manifest), and rename moves an inode from its temporary path to its     *)
(* address.  Checksums are collision free, so an address is the content    *)
(* that hashes to it; Torn stands for every content with no address here:  *)
(* a partial write or a miscopied file.                                    *)
(***************************************************************************)
EXTENDS Naturals, FiniteSets

CONSTANTS
    Proc,         \* pushing processes
    PidOf,        \* the process id std::process::id() returns to each
    File,         \* paths of the regular files in the source tree
    Data,         \* contents a source file may have
    Torn,         \* bytes that hash to no address
    ManifestSlot, \* the job slot in which a process writes its manifest
    None,         \* "no such entry"
    MaxRetries,   \* MAX_PERSIST_RETRIES
    MaxEdits      \* bound: edits the user makes per source file

Snapshot == [File -> Data]

\* A process has one copy job per file, and writes one manifest.
Slot == File \cup {ManifestSlot}

\* The inode a process creates for a slot on its k-th remaining attempt.
Inode == Proc \X Slot \X (1..MaxRetries)

\* {target}.{pid}.{n}.tmp
TempPath == (Data \cup Snapshot) \X {PidOf[p] : p \in Proc} \X Nat

ASSUME RetriesAssumption == MaxRetries \in Nat \ {0}
ASSUME EditsAssumption == MaxEdits \in Nat
ASSUME TornAssumption == Torn \notin Data /\ Torn \notin Snapshot
ASSUME SlotAssumption == ManifestSlot \notin File
ASSUME NoneAssumption == None \notin Inode /\ None \notin Data /\ None \notin TempPath

VARIABLES
    src,       \* the source tree: content and stat version of each file
    bytes,     \* the content of each inode
    link,      \* the temporary path each inode is filed under, or None
    object,    \* .objects: the inode at each object address, or None
    manifest,  \* .manifests: the inode at each snapshot id, or None
    phase,     \* where each process is
    guarded,   \* TRUE for `stage` (walk_with_guards), FALSE for `push`
    seen,      \* the stat version each file had when the walk discovered it
    snap,      \* the checksum the walk computed for each file, or None
    st,        \* the state of each job slot
    left,      \* persist's attempts_left of each job
    path,      \* the temporary path each job last took from temp_sibling
    fd,        \* the inode each job's open file refers to
    count      \* temp_sibling's COUNTER

store == <<bytes, link, object, manifest>>
walk  == <<guarded, seen, snap>>
jobs  == <<st, left, path, fd, count>>
vars  == <<src, store, phase, walk, jobs>>

Version == 0..MaxEdits

\* A job in one of these states has its temporary file open or filed.
Active == {"writing", "written", "cloned", "verified", "mismatch"}
JobState == {"idle", "todo", "retry", "done", "error"} \cup Active
Ended == {"done", "failed", "crashed"}

TypeOK ==
    /\ src \in [File -> [data : Data, ver : Version]]
    /\ bytes \in [Inode -> Data \cup Snapshot \cup {Torn}]
    /\ link \in [Inode -> TempPath \cup {None}]
    /\ object \in [Data -> Inode \cup {None}]
    /\ manifest \in [Snapshot -> Inode \cup {None}]
    /\ phase \in [Proc -> {"walk", "hash", "push"} \cup Ended]
    /\ guarded \in [Proc -> BOOLEAN]
    /\ seen \in [Proc -> [File -> Version]]
    /\ snap \in [Proc -> [File -> Data \cup {None}]]
    /\ st \in [Proc -> [Slot -> JobState]]
    /\ left \in [Proc -> [Slot -> 1..MaxRetries]]
    /\ path \in [Proc -> [Slot -> TempPath \cup {None}]]
    /\ fd \in [Proc -> [Slot -> Inode \cup {None}]]
    /\ count \in [Proc -> Nat]

-----------------------------------------------------------------------------
Init ==
    /\ src \in [File -> [data : Data, ver : {0}]]
    /\ bytes = [i \in Inode |-> Torn]
    /\ link = [i \in Inode |-> None]
    /\ object = [d \in Data |-> None]
    /\ manifest = [m \in Snapshot |-> None]
    /\ phase = [p \in Proc |-> "walk"]
    /\ guarded \in [Proc -> BOOLEAN]
    /\ seen = [p \in Proc |-> [f \in File |-> 0]]
    /\ snap = [p \in Proc |-> [f \in File |-> None]]
    /\ st = [p \in Proc |-> [s \in Slot |-> "idle"]]
    /\ left = [p \in Proc |-> [s \in Slot |-> MaxRetries]]
    /\ path = [p \in Proc |-> [s \in Slot |-> None]]
    /\ fd = [p \in Proc |-> [s \in Slot |-> None]]
    /\ count = [p \in Proc |-> 0]

-----------------------------------------------------------------------------
(* The user and the mirror, who share the file system with the pushers.    *)

\* The user rewrites a source file: a write moves mtime/ctime, so the stat
\* version (CopyGuard's size, mtime, ctime, ino) always changes.
EditSource(f) ==
    /\ src[f].ver < MaxEdits
    /\ \E d \in Data : src' = [src EXCEPT ![f] = [data |-> d, ver |-> @.ver + 1]]
    /\ UNCHANGED <<store, phase, walk, jobs>>

\* delete_manifest, called by another process mirroring into this store.
DeleteManifest(m) ==
    /\ manifest[m] # None
    /\ manifest' = [manifest EXCEPT ![m] = None]
    /\ UNCHANGED <<src, bytes, link, object, phase, walk, jobs>>

-----------------------------------------------------------------------------
(* The walk.                                                               *)

\* discover_dir: lstat every file.  The CopyGuard is taken here, before any
\* content is read.
Discover(p) ==
    /\ phase[p] = "walk"
    /\ seen' = [seen EXCEPT ![p] = [f \in File |-> src[f].ver]]
    /\ phase' = [phase EXCEPT ![p] = "hash"]
    /\ UNCHANGED <<src, store, guarded, snap, jobs>>

\* Mutant: the guard is taken after the read instead of at discovery.
HashFileGuardAfter(p, f) ==
    /\ phase[p] = "hash"
    /\ snap[p][f] = None
    /\ \E d \in Data :
          /\ src[f].ver = seen[p][f] => d = src[f].data
          /\ snap' = [snap EXCEPT ![p][f] = d]
    /\ seen' = [seen EXCEPT ![p][f] = src[f].ver]
    /\ UNCHANGED <<src, store, phase, guarded, jobs>>

\* hash_pending: read and hash one file.  If the file was edited since its
\* discovery the read may have mixed two contents, so any checksum may result.
HashFile(p, f) ==
    /\ phase[p] = "hash"
    /\ snap[p][f] = None
    /\ \E d \in Data :
          /\ src[f].ver = seen[p][f] => d = src[f].data
          /\ snap' = [snap EXCEPT ![p][f] = d]
    /\ UNCHANGED <<src, store, phase, guarded, seen, jobs>>

-----------------------------------------------------------------------------
(* FileStore::push.                                                        *)

\* Skip-if-present: a manifest already filed means there is nothing to do.
StartPush(p) ==
    /\ phase[p] = "hash"
    /\ \A f \in File : snap[p][f] # None
    /\ phase' = [phase EXCEPT ![p] =
                    IF manifest[snap[p]] # None THEN "done" ELSE "push"]
    /\ UNCHANGED <<src, store, walk, jobs>>

\* One turn of the collecting loop: an object already filed is skipped.
CollectJob(p, f) ==
    /\ phase[p] = "push"
    /\ st[p][f] = "idle"
    /\ st' = [st EXCEPT ![p][f] = IF object[snap[p][f]] # None THEN "done" ELSE "todo"]
    /\ UNCHANGED <<src, store, phase, walk, left, path, fd, count>>

\* What the slot's file must contain: the address it will be renamed to.
Target(p, s) == IF s = ManifestSlot THEN snap[p] ELSE snap[p][s]

\* Mutant: a failed copy no longer keeps the manifest from being written.
MayOpenIgnoringErrors(p, s) ==
    /\ phase[p] = "push"
    /\ IF s = ManifestSlot
       THEN st[p][s] = "idle" /\ \A f \in File : st[p][f] \in {"done", "error"}
       ELSE /\ \A f \in File : st[p][f] # "idle"
            /\ st[p][s] \in {"todo", "retry"}

\* A slot may open a temporary file: a collected job that no error of this
\* process has cancelled (try_for_each), a retry inside persist's loop, and
\* the manifest once every object copy has succeeded.
MayOpen(p, s) ==
    /\ phase[p] = "push"
    /\ IF s = ManifestSlot
       THEN st[p][s] = "idle" /\ \A f \in File : st[p][f] = "done"
       ELSE /\ \A f \in File : st[p][f] # "idle"
            /\ \/ st[p][s] = "todo" /\ \A t \in Slot : st[p][t] # "error"
               \/ st[p][s] = "retry"

\* temp_sibling: {file name}.{pid}.{n}.tmp beside the target.
TempSibling(p, s) == <<Target(p, s), PidOf[p], count[p]>>

\* The inodes filed under a temporary path (at most one).
Filed(t) == {i \in Inode : link[i] = t}

NewInode(p, s) == <<p, s, left[p][s]>>

\* fs::copy and fs::write open their target create-or-truncate: an existing
\* file of that name is emptied and written in place.
OpenTemp(p, s) ==
    /\ MayOpen(p, s)
    /\ LET t == TempSibling(p, s)
           i == IF Filed(t) = {} THEN NewInode(p, s) ELSE CHOOSE j \in Filed(t) : TRUE
       IN  /\ path' = [path EXCEPT ![p][s] = t]
           /\ link' = [link EXCEPT ![i] = t]
           /\ fd' = [fd EXCEPT ![p][s] = i]
           /\ bytes' = [bytes EXCEPT ![i] = Torn]
    /\ count' = [count EXCEPT ![p] = @ + 1]
    /\ st' = [st EXCEPT ![p][s] = "writing"]
    /\ UNCHANGED <<src, object, manifest, phase, walk, left>>

\* try_reflink: create_new, so a file of that name is an error; then FICLONE
\* takes the source's content in one step.
CloneTemp(p, f) ==
    /\ MayOpen(p, f)
    /\ LET t == TempSibling(p, f)
           i == NewInode(p, f)
       IN  /\ path' = [path EXCEPT ![p][f] = t]
           /\ IF Filed(t) = {}
              THEN /\ link' = [link EXCEPT ![i] = t]
                   /\ fd' = [fd EXCEPT ![p][f] = i]
                   /\ bytes' = [bytes EXCEPT ![i] = src[f].data]
                   /\ st' = [st EXCEPT ![p][f] = "cloned"]
              ELSE /\ st' = [st EXCEPT ![p][f] = "error"]
                   /\ UNCHANGED <<link, fd, bytes>>
    /\ count' = [count EXCEPT ![p] = @ + 1]
    /\ UNCHANGED <<src, object, manifest, phase, walk, left>>

\* The write completes.  A byte copy may go wrong, or mix two contents of a
\* file edited meanwhile; a manifest is written from memory, and not re-read.
WriteTemp(p, s) ==
    /\ phase[p] = "push"
    /\ st[p][s] = "writing"
    /\ IF s = ManifestSlot
       THEN /\ bytes' = [bytes EXCEPT ![fd[p][s]] = snap[p]]
            /\ st' = [st EXCEPT ![p][s] = "verified"]
       ELSE /\ \E d \in {src[s].data, Torn} : bytes' = [bytes EXCEPT ![fd[p][s]] = d]
            /\ st' = [st EXCEPT ![p][s] = "written"]
    /\ UNCHANGED <<src, link, object, manifest, phase, walk, left, path, fd, count>>

\* The write fails (disk full, I/O error): the error propagates and the
\* temporary file stays behind.
WriteFails(p, s) ==
    /\ phase[p] = "push"
    /\ st[p][s] = "writing"
    /\ st' = [st EXCEPT ![p][s] = "error"]
    /\ UNCHANGED <<src, store, phase, walk, left, path, fd, count>>

\* Mutant: a guarded clone is trusted without comparing the guard.
DecideCloneUnchecked(p, f) ==
    /\ phase[p] = "push"
    /\ st[p][f] = "cloned"
    /\ st' = [st EXCEPT ![p][f] = IF guarded[p] THEN "verified" ELSE "written"]
    /\ UNCHANGED <<src, store, phase, walk, left, path, fd, count>>

\* clone_skip_decision: a guarded source whose fresh stat still equals the
\* recorded guard is trusted unread; everything else is re-hashed.
DecideClone(p, f) ==
    /\ phase[p] = "push"
    /\ st[p][f] = "cloned"
    /\ st' = [st EXCEPT ![p][f] =
                 IF guarded[p] /\ src[f].ver = seen[p][f] THEN "verified" ELSE "written"]
    /\ UNCHANGED <<src, store, phase, walk, left, path, fd, count>>

\* hash_file(&tmp): the temporary file is re-read by path.
VerifyTemp(p, f) ==
    /\ phase[p] = "push"
    /\ st[p][f] = "written"
    /\ LET at == Filed(path[p][f])
       IN  st' = [st EXCEPT ![p][f] =
                     IF at = {} THEN "error"
                     ELSE IF \E i \in at : bytes[i] = snap[p][f] THEN "verified"
                     ELSE "mismatch"]
    /\ UNCHANGED <<src, store, phase, walk, left, path, fd, count>>

\* The copy did not verify: drop it, then retry only if the source still has
\* the expected content and attempts are left.
RetryOrFail(p, f) ==
    /\ phase[p] = "push"
    /\ st[p][f] = "mismatch"
    /\ link' = [i \in Inode |-> IF link[i] = path[p][f] THEN None ELSE link[i]]
    /\ IF src[f].data # snap[p][f] \/ left[p][f] = 1
       THEN st' = [st EXCEPT ![p][f] = "error"] /\ UNCHANGED left
       ELSE /\ st' = [st EXCEPT ![p][f] = "retry"]
            /\ left' = [left EXCEPT ![p][f] = @ - 1]
    /\ UNCHANGED <<src, bytes, object, manifest, phase, walk, path, fd, count>>

\* fs::rename(&tmp, target): whatever the temporary path names now becomes
\* the entry at the address, replacing any entry there.  The manifest's
\* rename ends the push.
RenameTemp(p, s) ==
    /\ phase[p] = "push"
    /\ st[p][s] = "verified"
    /\ IF Filed(path[p][s]) = {}
       THEN /\ st' = [st EXCEPT ![p][s] = "error"]
            /\ UNCHANGED <<link, object, manifest, phase>>
       ELSE LET i == CHOOSE j \in Filed(path[p][s]) : TRUE
            IN  /\ link' = [link EXCEPT ![i] = None]
                /\ st' = [st EXCEPT ![p][s] = "done"]
                /\ IF s = ManifestSlot
                   THEN /\ manifest' = [manifest EXCEPT ![snap[p]] = i]
                        /\ phase' = [phase EXCEPT ![p] = "done"]
                        /\ UNCHANGED object
                   ELSE /\ object' = [object EXCEPT ![snap[p][s]] = i]
                        /\ UNCHANGED <<manifest, phase>>
    /\ UNCHANGED <<src, bytes, walk, left, path, fd, count>>

\* Mutant: the error is reported only once every slot has come to an end,
\* the slots that the error cancelled included.
FailPushAfterAll(p) ==
    /\ phase[p] = "push"
    /\ \E s \in Slot : st[p][s] = "error"
    /\ \A s \in Slot : st[p][s] \in {"done", "error"}
    /\ phase' = [phase EXCEPT ![p] = "failed"]
    /\ UNCHANGED <<src, store, walk, jobs>>

\* parallel_copy (or write_manifest) returns the first error once the jobs
\* already started have come to an end: no manifest is written.
FailPush(p) ==
    /\ phase[p] = "push"
    /\ \E s \in Slot : st[p][s] = "error"
    /\ \A s \in Slot : st[p][s] \notin Active \cup {"retry"}
    /\ phase' = [phase EXCEPT ![p] = "failed"]
    /\ UNCHANGED <<src, store, walk, jobs>>

\* The process is killed; its temporary files stay behind.
Crash(p) ==
    /\ phase[p] \notin Ended
    /\ phase' = [phase EXCEPT ![p] = "crashed"]
    /\ UNCHANGED <<src, store, walk, jobs>>

-----------------------------------------------------------------------------
Step(p) ==
    \/ Discover(p)
    \/ StartPush(p)
    \/ FailPush(p)
    \/ \E f \in File : \/ HashFile(p, f)
                       \/ CollectJob(p, f)
                       \/ CloneTemp(p, f)
                       \/ DecideClone(p, f)
                       \/ VerifyTemp(p, f)
                       \/ RetryOrFail(p, f)
    \/ \E s \in Slot : \/ OpenTemp(p, s)
                       \/ WriteTemp(p, s)
                       \/ WriteFails(p, s)
                       \/ RenameTemp(p, s)

Next ==
    \/ \E p \in Proc : Step(p) \/ Crash(p)
    \/ \E f \in File : EditSource(f)
    \/ \E m \in Snapshot : DeleteManifest(m)

Spec == Init /\ [][Next]_vars

\* A live process is scheduled: the code blocks on nothing but the file system.
FairSpec == Spec /\ \A p \in Proc : WF_vars(Step(p))

-----------------------------------------------------------------------------
(* Properties.                                                             *)

\* temp_sibling's premise: no two processes sharing the store have one pid.
UniquePids == \A p, q \in Proc : PidOf[p] = PidOf[q] => p = q

\* Whatever is readable at an object address hashes to that address: no crash,
\* retry, racing push, clone-skip or concurrent edit of the source ever lets
\* partial or foreign bytes be renamed into .objects (persist).
ObjectsIntact == \A d \in Data : object[d] # None => bytes[object[d]] = d

\* A readable manifest is whole, and every object it names is present and
\* intact: the invariant FileStore::push's skip-if-present relies on.
ManifestsComplete ==
    \A m \in Snapshot : manifest[m] # None =>
        /\ bytes[manifest[m]] = m
        /\ \A f \in File : object[m[f]] # None /\ bytes[object[m[f]]] = m[f]

\* The store as its readers see it: what verifies at its own address.
CS == INSTANCE ContentStore WITH
         objects <- {d \in Data : object[d] # None /\ bytes[object[d]] = d},
         manifests <- {m \in Snapshot : manifest[m] # None /\ bytes[manifest[m]] = m}

\* Every push step is invisible to a reader, or adds one whole object, or
\* commits a manifest all of whose objects are readable; only delete_manifest
\* takes anything away (FileStore::push, persist, write_manifest).
ImplementsContentStore == CS!Spec

\* A push ends (done, failed or crashed) although a copy may miscompare again
\* and again and the user edits the source meanwhile: persist's loop is bounded.
PushEnds == \A p \in Proc : <>(phase[p] \in Ended)

=============================================================================
