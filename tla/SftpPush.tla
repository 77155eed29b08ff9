------------------------------ MODULE SftpPush ------------------------------
(***************************************************************************)
(* The script that `snapdir push` runs for an sftp:// store                *)
(* (snapdir-ssh-store/src/sftp_engine.rs, get_push_script): a manifest     *)
(* probe, one `-ls` probe of the objects, the missing objects in parallel  *)
(* batches, and the manifest in a last batch.  Each file is `put` under a  *)
(* temporary name, the final name is removed with a tolerated `-rm`, and   *)
(* the temporary file is renamed onto it.                                  *)
(*                                                                         *)
(* A batch is a sequence of SFTP requests, so between the `-rm` and the    *)
(* `rename` another script, or the end of this one, may come.              *)
(***************************************************************************)
EXTENDS Scripts

CONSTANTS
    Jobs,         \* parallel upload batches
    PosixRename,  \* the server renames over an existing file
    OddListing    \* the `-ls` output may hold a line the script does not expect

ASSUME JobsAssumption == Jobs \in Nat \ {0}
ASSUME ServerAssumption == {PosixRename, OddListing} \subseteq BOOLEAN

VARIABLES
    chunk,      \* the batch that uploads each object, 0 for an object skipped
    st,         \* each object's place in its batch
    cut         \* history: a script was killed, or a request failed

sftpVars == <<remote, pc, want, chunk, st, cut>>

SftpStage == {"probe", "list", "upload", "manifest", "mput", "mremoved", "mrenamed"} \cup Ended

\* An object whose request failed before, or after, its final name was removed.
Broken == {"error", "lost"}

SftpTypeOK ==
    /\ objects \subseteq Data
    /\ manifests \subseteq Snapshot
    /\ pc \in [Pusher -> SftpStage]
    /\ want \in [Pusher -> Snapshot]
    /\ chunk \in [Pusher -> [Data -> 0..Jobs]]
    /\ st \in [Pusher -> [Data -> {"idle", "put", "removed", "renamed", "filed"} \cup Broken]]
    /\ cut \in BOOLEAN

SftpInit ==
    /\ objects = {}
    /\ manifests = {}
    /\ pc = [p \in Pusher |-> "probe"]
    /\ want \in [Pusher -> Snapshot]
    /\ chunk = [p \in Pusher |-> [d \in Data |-> 0]]
    /\ st = [p \in Pusher |-> [d \in Data |-> "idle"]]
    /\ cut = FALSE

Place(p, d, s) == st' = [st EXCEPT ![p][d] = s]

-----------------------------------------------------------------------------
\* probe_block: `ls` of the manifest; present means there is nothing to do.
Probe(p) ==
    /\ pc[p] = "probe"
    /\ Goto(p, IF want[p] \in manifests THEN "done" ELSE "list")
    /\ UNCHANGED <<remote, want, chunk, st, cut>>

\* What the script uploads: the objects the probe did not list, or all.
Uploads(p) == {ObjectsOf(want[p]) \ objects}
                 \cup (IF OddListing THEN {ObjectsOf(want[p])} ELSE {})

\* push_objects_runtime, first half: the objects the `-ls` probe did not list
\* are spread over the batches; a listing with an unexpected line makes the
\* script upload them all.
ListObjects(p) ==
    /\ pc[p] = "list"
    /\ \E upload \in Uploads(p) :
          \E spread \in [Data -> 0..Jobs] :
             /\ \A d \in Data : spread[d] = 0 <=> d \notin upload
             /\ chunk' = [chunk EXCEPT ![p] = spread]
    /\ Goto(p, "upload")
    /\ UNCHANGED <<remote, want, st, cut>>

-----------------------------------------------------------------------------
(* One batch.                                                              *)

Peers(p, d) == {e \in Data \ {d} : chunk[p][e] = chunk[p][d]}

\* put starts: the batch comes to this object when it is busy with no other.
Put(p, d) ==
    /\ pc[p] = "upload"
    /\ chunk[p][d] # 0
    /\ st[p][d] = "idle"
    /\ \A e \in Peers(p, d) : st[p][e] \in {"idle", "filed"}
    /\ Place(p, d, "put")
    /\ UNCHANGED <<remote, pc, want, chunk, cut>>

\* -rm: whatever is at the final name is removed; nothing there is tolerated.
Remove(p, d) ==
    /\ pc[p] = "upload"
    /\ st[p][d] = "put"
    /\ objects' = objects \ {d}
    /\ Place(p, d, "removed")
    /\ UNCHANGED <<manifests, pc, want, chunk, cut>>

\* Mutant: the temporary name is derived from the object alone, so that the
\* script which renames first takes the other's upload away.
RenameSharedTemp(p, d) ==
    /\ pc[p] = "upload"
    /\ st[p][d] = "removed"
    /\ IF \E q \in Pusher : st[q][d] \in {"renamed", "filed"}
       THEN Place(p, d, "error") /\ UNCHANGED objects
       ELSE Place(p, d, "renamed") /\ objects' = objects \cup {d}
    /\ UNCHANGED <<manifests, pc, want, chunk, cut>>

\* rename: without posix-rename an existing target is an error, which ends
\* the batch.
Rename(p, d) ==
    /\ pc[p] = "upload"
    /\ st[p][d] = "removed"
    /\ IF d \in objects /\ ~PosixRename
       THEN Place(p, d, "error") /\ UNCHANGED objects
       ELSE Place(p, d, "renamed") /\ objects' = objects \cup {d}
    /\ UNCHANGED <<manifests, pc, want, chunk, cut>>

\* chmod 600: an error, which ends the batch, if another script has removed
\* the file meanwhile.
Chmod(p, d) ==
    /\ pc[p] = "upload"
    /\ st[p][d] = "renamed"
    /\ Place(p, d, IF d \in objects THEN "filed" ELSE "error")
    /\ UNCHANGED <<remote, pc, want, chunk, cut>>

\* A batch has ended: all of its objects are filed, or one of them failed.
BatchEnded(p, k) ==
    LET batch == {d \in Data : chunk[p][d] = k}
    IN  (\A d \in batch : st[p][d] = "filed") \/ (\E d \in batch : st[p][d] \in Broken)

\* Mutant: the script waits for its batches but forgets their status.
WaitBatchesUnchecked(p) ==
    /\ pc[p] = "upload"
    /\ \A k \in 1..Jobs : BatchEnded(p, k)
    /\ Goto(p, "manifest")
    /\ UNCHANGED <<remote, want, chunk, st, cut>>

\* The per-pid waits: any batch that failed fails the push.
WaitBatches(p) ==
    /\ pc[p] = "upload"
    /\ \A k \in 1..Jobs : BatchEnded(p, k)
    /\ Goto(p, IF \E d \in Data : st[p][d] \in Broken THEN "failed" ELSE "manifest")
    /\ UNCHANGED <<remote, want, chunk, st, cut>>

-----------------------------------------------------------------------------
(* push_manifest_batch, with the same discipline.                          *)

PutManifest(p) ==
    /\ pc[p] = "manifest"
    /\ Goto(p, "mput")
    /\ UNCHANGED <<remote, want, chunk, st, cut>>

RemoveManifest(p) ==
    /\ pc[p] = "mput"
    /\ manifests' = manifests \ {want[p]}
    /\ Goto(p, "mremoved")
    /\ UNCHANGED <<objects, want, chunk, st, cut>>

RenameManifest(p) ==
    /\ pc[p] = "mremoved"
    /\ IF want[p] \in manifests /\ ~PosixRename
       THEN Goto(p, "failed") /\ UNCHANGED manifests
       ELSE Goto(p, "mrenamed") /\ manifests' = manifests \cup {want[p]}
    /\ UNCHANGED <<objects, want, chunk, st, cut>>

ChmodManifest(p) ==
    /\ pc[p] = "mrenamed"
    /\ Goto(p, IF want[p] \in manifests THEN "done" ELSE "failed")
    /\ UNCHANGED <<remote, want, chunk, st, cut>>

-----------------------------------------------------------------------------
\* The script is killed or loses its connection: what it has done stays, what
\* it was about to do is not done.
SftpStop(p) ==
    /\ pc[p] \notin Ended
    /\ Goto(p, "failed")
    /\ cut' = TRUE
    /\ UNCHANGED <<remote, want, chunk, st>>

\* One request of one batch fails (a full disk, a permission): put before the
\* final name is touched, rename after it was removed, chmod once it is back.
RequestFails(p, d) ==
    /\ pc[p] = "upload"
    /\ st[p][d] \in {"put", "removed", "renamed"}
    /\ Place(p, d, IF st[p][d] = "removed" THEN "lost" ELSE "error")
    /\ cut' = TRUE
    /\ UNCHANGED <<remote, pc, want, chunk>>

Step(p) ==
    \/ Probe(p)
    \/ ListObjects(p)
    \/ \E d \in Data : Put(p, d) \/ Remove(p, d) \/ Rename(p, d) \/ Chmod(p, d)
    \/ WaitBatches(p)
    \/ PutManifest(p)
    \/ RemoveManifest(p)
    \/ RenameManifest(p)
    \/ ChmodManifest(p)

SftpNext == \E p \in Pusher : Step(p) \/ SftpStop(p) \/ \E d \in Data : RequestFails(p, d)

SftpSpec == SftpInit /\ [][SftpNext]_sftpVars

\* The script is run by a live shell, and its requests are answered.
SftpFairSpec == SftpSpec /\ \A p \in Pusher : WF_sftpVars(Step(p))

-----------------------------------------------------------------------------
(* Properties.                                                             *)

Complete(m) == ObjectsOf(m) \subseteq objects

\* A filed manifest lacks an object only because some script has removed that
\* object and has not renamed its own upload into place: no out-of-date probe,
\* no failed batch and no interruption of any other kind leads there.  With the
\* types of the state.
GapIsARename ==
    /\ SftpTypeOK
    /\ \A m \in manifests : \A d \in ObjectsOf(m) \ objects :
           \E p \in Pusher : st[p][d] \in {"removed", "lost"}

\* Every script ends, and the gaps close unless one was cut off: however the
\* scripts remove and rename each other's files on the way (a rename or a chmod
\* may fail for it), every manifest then filed has all of its objects.
GapsClose ==
    <>[](/\ \A p \in Pusher : pc[p] \in Ended
         /\ cut \/ \A m \in manifests : Complete(m))

=============================================================================
