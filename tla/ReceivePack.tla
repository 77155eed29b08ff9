----------------------------- MODULE ReceivePack -----------------------------
(***************************************************************************)
(* The accelerated push: objects-needed, send-pack and receive-pack into a *)
(* file store (snapdir-stores/src/pack.rs, fsync.rs), on a machine that    *)
(* may lose power.                                                         *)
(*                                                                         *)
(* A session is one run of the push script: probe the manifest, ask which  *)
(* objects are missing, stream them, and let the receiver commit the       *)
(* manifest after the `end` trailer.  A session that is cut short is not   *)
(* resumed: the retry is another session.                                  *)
(*                                                                         *)
(* The directory tree is a journal of renames, as on the journaling file   *)
(* systems fsync.rs relies on: a power failure keeps a prefix of it that   *)
(* holds at least the first `stable` entries.  File data is not journaled: *)
(* a file that was not synced may survive with the wrong bytes.            *)
(***************************************************************************)
EXTENDS Naturals, Sequences, FiniteSetsExt, Functions

CONSTANTS
    Session,       \* runs of the push script
    File,          \* the file entries of a manifest
    Data,          \* object contents (an object is its own address)
    MaxPowerLoss   \* bound: power failures

ASSUME PowerAssumption == MaxPowerLoss \in Nat

Snapshot == [File -> Data]
ObjectsOf(m) == {m[f] : f \in File}

\* The store keeps objects and manifests in different directories.
ASSUME NamesAssumption == Data \cap Snapshot = {}

\* A file is named by its address, and a session files an address only once.
Name == Data \cup Snapshot
Inode == Session \X Name

VARIABLES
    journal,   \* the renames into the store: inodes, in the order they happened
    stable,    \* how many of them are known to be on disk
    synced,    \* inodes whose data is on stable storage
    bad,       \* inodes whose bytes do not hash to their name
    losses,    \* power failures so far
    batch,     \* the sessions whose receiver has SNAPDIR_FSYNC=batch, not off
    pc,        \* where each session is
    want,      \* the snapshot each session pushes
    todo,      \* the objects each session's sender has yet to stream
    staged,    \* the object each receiver has staged but not committed
    written    \* FileSink.written: the addresses the barrier will sync

disk == <<journal, stable, synced, bad, losses>>
vars == <<disk, batch, pc, want, todo, staged, written>>

Ended == {"done", "failed"}
Stage == {"probe", "diff", "stream", "commit", "barrier", "manifest", "syncdir"} \cup Ended

TypeOK ==
    /\ journal \in Seq(Inode)
    /\ stable \in 0..Len(journal)
    /\ synced \subseteq Inode
    /\ bad \subseteq Inode
    /\ losses \in 0..MaxPowerLoss
    /\ batch \subseteq Session
    /\ pc \in [Session -> Stage]
    /\ want \in [Session -> Snapshot]
    /\ todo \in [Session -> SUBSET Data]
    /\ staged \in [Session -> SUBSET Data]
    /\ written \in [Session -> SUBSET Data]

Init ==
    /\ journal = <<>>
    /\ stable = 0
    /\ synced = {}
    /\ bad = {}
    /\ losses = 0
    /\ batch \in SUBSET Session
    /\ pc = [c \in Session |-> "probe"]
    /\ want \in [Session -> Snapshot]
    /\ todo = [c \in Session |-> {}]
    /\ staged = [c \in Session |-> {}]
    /\ written = [c \in Session |-> {}]

-----------------------------------------------------------------------------
(* The directory tree.                                                     *)

Positions(n) == {k \in 1..Len(journal) : journal[k][2] = n}

\* has_object, test -f: an address is present whatever its bytes are.
Present(n) == Positions(n) # {}

\* The inode an address names: that of the last rename onto it.
At(n) == journal[Max(Positions(n))]

\* What a reader gets, since it verifies what it reads.
Readable(n) == Present(n) /\ At(n) \notin bad

Goto(c, stage) == pc' = [pc EXCEPT ![c] = stage]

-----------------------------------------------------------------------------
(* The push script.                                                        *)

\* combined_probe_block: a manifest that is already there ends the push.
Probe(c) ==
    /\ pc[c] = "probe"
    /\ Goto(c, IF Present(want[c]) THEN "done" ELSE "diff")
    /\ UNCHANGED <<disk, batch, want, todo, staged, written>>

\* snapdir objects-needed: the objects of the snapshot that are not present.
ObjectsNeeded(c) ==
    /\ pc[c] = "diff"
    /\ todo' = [todo EXCEPT ![c] = {d \in ObjectsOf(want[c]) : ~Present(d)}]
    /\ Goto(c, "stream")
    /\ UNCHANGED <<disk, batch, want, staged, written>>

-----------------------------------------------------------------------------
(* read_pack into a FileSink.                                              *)

\* read_obj_record, up to the hash check: a payload for an address that is
\* present is drained, another one is staged in a temporary sibling.  A
\* payload that was damaged on the way is known only by its hash.
ReadObjRecord(c, d) ==
    /\ pc[c] = "stream"
    /\ d \in todo[c]
    /\ todo' = [todo EXCEPT ![c] = @ \ {d}]
    /\ IF Present(d)
       THEN UNCHANGED <<bad, pc, staged>>
       ELSE /\ staged' = [staged EXCEPT ![c] = {d}]
            /\ bad' \in {bad, bad \cup {<<c, d>>}}
            /\ Goto(c, "commit")
    /\ UNCHANGED <<journal, stable, synced, losses, batch, want, written>>

\* commit_object: the staged bytes hash to their address and are renamed onto
\* it.  Under Batch the path is remembered for the barrier.
CommitObject(c) ==
    /\ pc[c] = "commit"
    /\ \E d \in staged[c] :
          /\ <<c, d>> \notin bad
          /\ journal' = Append(journal, <<c, d>>)
          /\ written' = [written EXCEPT ![c] = IF c \in batch THEN @ \cup {d} ELSE @]
    /\ staged' = [staged EXCEPT ![c] = {}]
    /\ Goto(c, "stream")
    /\ UNCHANGED <<stable, synced, bad, losses, batch, want, todo>>

\* Mutant: a stream that ends before `end` is taken for a complete one.
ReadEndEarly(c) ==
    /\ pc[c] = "stream"
    /\ Goto(c, "barrier")
    /\ UNCHANGED <<disk, batch, want, todo, staged, written>>

\* The `end` trailer, once every record has been read.
ReadEnd(c) ==
    /\ pc[c] = "stream"
    /\ todo[c] = {}
    /\ Goto(c, "barrier")
    /\ UNCHANGED <<disk, batch, want, todo, staged, written>>

\* Mutant: a decorating sink keeps the trait's default barrier, which does
\* nothing (what RecordingSink::flush_barrier is there to prevent).
FlushBarrierSwallowed(c) ==
    /\ pc[c] = "barrier"
    /\ Goto(c, "manifest")
    /\ UNCHANGED <<disk, batch, want, todo, staged, written>>

\* flush_barrier: barrier_objects syncs the file each written path names now.
FlushBarrier(c) ==
    /\ pc[c] = "barrier"
    /\ synced' = synced \cup {At(d) : d \in written[c]}
    /\ written' = [written EXCEPT ![c] = {}]
    /\ Goto(c, "manifest")
    /\ UNCHANGED <<journal, stable, bad, losses, batch, want, todo, staged>>

\* put_manifest: under Batch the temporary file is synced before the rename
\* (write_manifest_durable), otherwise it is not (write_manifest).
PutManifest(c) ==
    /\ pc[c] = "manifest"
    /\ journal' = Append(journal, <<c, want[c]>>)
    /\ synced' = IF c \in batch THEN synced \cup {<<c, want[c]>>} ELSE synced
    /\ Goto(c, IF c \in batch THEN "syncdir" ELSE "done")
    /\ UNCHANGED <<stable, bad, losses, batch, want, todo, staged, written>>

\* Mutant: the manifest's directory is not synced after the rename.
SyncDirSkipped(c) ==
    /\ pc[c] = "syncdir"
    /\ Goto(c, "done")
    /\ UNCHANGED <<disk, batch, want, todo, staged, written>>

\* sync_dir on the manifest's directory commits the journal so far.
SyncDir(c) ==
    /\ pc[c] = "syncdir"
    /\ stable' = Len(journal)
    /\ Goto(c, "done")
    /\ UNCHANGED <<journal, synced, bad, losses, batch, want, todo, staged, written>>

-----------------------------------------------------------------------------
(* Failures.                                                               *)

\* The session ends early: the connection drops, the stream is truncated or a
\* payload does not hash to its address, the sender lacks an object, a sync
\* reports an error, a process is killed.  The staged file is dropped; what
\* was committed stays.
Abort(c) ==
    /\ pc[c] \notin Ended
    /\ Goto(c, "failed")
    /\ staged' = [staged EXCEPT ![c] = {}]
    /\ UNCHANGED <<disk, batch, want, todo, written>>

\* Power fails: the sessions under way end, a prefix of the journal survives
\* and unsynced files may come back with the wrong bytes.
PowerLoss ==
    /\ losses < MaxPowerLoss
    /\ losses' = losses + 1
    /\ \E k \in stable..Len(journal) :
          /\ journal' = SubSeq(journal, 1, k)
          /\ stable' = k
          /\ LET survivors == {journal[j] : j \in 1..k}
             IN  \E lost \in SUBSET (survivors \ synced) :
                    /\ bad' = bad \cup lost
                    /\ synced' = synced \cup survivors
    /\ pc' = [c \in Session |-> IF pc[c] \in Ended \cup {"probe"} THEN pc[c] ELSE "failed"]
    /\ staged' = [c \in Session |-> {}]
    /\ UNCHANGED <<batch, want, todo, written>>

Next ==
    \/ \E c \in Session :
          \/ Probe(c)
          \/ ObjectsNeeded(c)
          \/ \E d \in Data : ReadObjRecord(c, d)
          \/ CommitObject(c)
          \/ ReadEnd(c)
          \/ FlushBarrier(c)
          \/ PutManifest(c)
          \/ SyncDir(c)
          \/ Abort(c)
    \/ PowerLoss

Spec == Init /\ [][Next]_vars

-----------------------------------------------------------------------------
(* Properties.                                                             *)

\* The store as its readers see it.
CS == INSTANCE ContentStore WITH
         objects <- {d \in Data : Readable(d)},
         manifests <- {m \in Snapshot : Readable(m)}

\* Until the first power failure a pack behaves as a content store: damaged or
\* truncated streams, racing receivers and interrupted sessions may file
\* verified objects, and a manifest only after all of its objects
\* (parse_body's commit-at-`end`).
ImplementsContentStore ==
    CS!Init /\ [][losses' = 0 => CS!Next \/ UNCHANGED CS!vars]_vars

\* In what survives any power failure, a manifest that a Batch receiver filed
\* is whole, has every one of its objects present, and those of them that this
\* receiver itself wrote are intact: the barrier comes before the manifest
\* (parse_body's `end` arm, FileSink::flush_barrier, write_manifest_durable).
\* With the types of the state.
PackSurvives ==
    /\ TypeOK
    /\ \A m \in Snapshot : (Present(m) /\ At(m)[1] \in batch) =>
           /\ Readable(m)
           /\ \A d \in ObjectsOf(m) :
                 Present(d) /\ (At(d)[1] = At(m)[1] => Readable(d))

\* Once a Batch receiver has filed its manifest and reported success, no power
\* failure takes that manifest back (write_manifest_durable's sync_dir).
SuccessIsDurable ==
    [][\A c \in batch : (pc[c] = "done" /\ <<c, want[c]>> \in Range(journal))
                            => <<c, want[c]>> \in Range(journal')]_vars

=============================================================================
