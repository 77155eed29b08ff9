------------------------------- MODULE SshPush -------------------------------
(***************************************************************************)
(* The script that `snapdir push` runs for an ssh:// store                 *)
(* (snapdir-ssh-store/src/ssh_engine.rs, get_push_script): one combined    *)
(* probe, the dispatch between the accelerated and the plain ("dumb")      *)
(* path, and both paths, against one remote store shared by several        *)
(* pushers.                                                                *)
(*                                                                         *)
(* The remote shell of the plain path moves the extracted objects into     *)
(* place one by one in a `while read` loop, whose status is that of its    *)
(* last turn.  The streaming of one record of the accelerated path is a    *)
(* single step here; ReceivePack models it in detail.                      *)
(***************************************************************************)
EXTENDS Scripts, FiniteSets

CONSTANT MaxMoveFailures  \* bound: moves that fail on the remote

ASSUME MoveAssumption == MaxMoveFailures \in Nat

VARIABLES
    caps,       \* the remote offers wire=1, objects-needed and receive-pack
    knob,       \* SNAPDIR_SSH_NO_ACCEL / FORCE_ACCEL (or no local snapdir)
    list,       \* objects a script has yet to stream, or yet to move
    status,     \* the exit status of the last turn of the move loop
    failures    \* the moves that failed so far: which script, which object

config == <<caps, knob, want>>
vars == <<remote, config, pc, list, status, failures>>

Stage == {"probe", "accel", "stream", "dumb", "extract", "move", "manifest"} \cup Ended

TypeOK ==
    /\ objects \subseteq Data
    /\ manifests \subseteq Snapshot
    /\ caps \in BOOLEAN
    /\ pc \in [Pusher -> Stage]
    /\ knob \in [Pusher -> {"no_accel", "auto", "force"}]
    /\ want \in [Pusher -> Snapshot]
    /\ list \in [Pusher -> SUBSET Data]
    /\ status \in [Pusher -> BOOLEAN]
    /\ failures \subseteq Pusher \X Data

Init ==
    /\ objects = {}
    /\ manifests = {}
    /\ caps \in BOOLEAN
    /\ pc = [p \in Pusher |-> "probe"]
    /\ knob \in [Pusher -> {"no_accel", "auto", "force"}]
    /\ want \in [Pusher -> Snapshot]
    /\ list = [p \in Pusher |-> {}]
    /\ status = [p \in Pusher |-> TRUE]
    /\ failures = {}

-----------------------------------------------------------------------------
\* The path the dispatch takes when the manifest is absent.
Dispatch(p) ==
    CASE knob[p] = "no_accel" -> "dumb"
      [] knob[p] # "no_accel" /\ caps -> "accel"
      [] knob[p] = "force" /\ ~caps -> "failed"
      [] knob[p] = "auto" /\ ~caps -> "dumb"

\* combined_probe_block and the dispatch on its answer.
CombinedProbe(p) ==
    /\ pc[p] = "probe"
    /\ Goto(p, IF want[p] \in manifests THEN "done" ELSE Dispatch(p))
    /\ UNCHANGED <<remote, config, list, status, failures>>

\* The script is killed, the connection drops, or a command of it fails: under
\* `set -e` with pipefail it exits, and what it has filed stays.
Stop(p) ==
    /\ pc[p] \notin Ended
    /\ Goto(p, "failed")
    /\ UNCHANGED <<remote, config, list, status, failures>>

-----------------------------------------------------------------------------
(* The accelerated path.                                                   *)

\* accel_push_fn: `snapdir objects-needed` on the remote.
ObjectsNeeded(p) ==
    /\ pc[p] = "accel"
    /\ list' = [list EXCEPT ![p] = ObjectsOf(want[p]) \ objects]
    /\ Goto(p, "stream")
    /\ UNCHANGED <<remote, config, status, failures>>

\* objects-needed exits nonzero: nothing is written yet, take the plain path.
ObjectsNeededFails(p) ==
    /\ pc[p] = "accel"
    /\ Goto(p, "dumb")
    /\ UNCHANGED <<remote, config, list, status, failures>>

\* One record of send-pack | receive-pack: filed whole, or skipped if present.
StreamObject(p, d) ==
    /\ pc[p] = "stream"
    /\ d \in list[p]
    /\ list' = [list EXCEPT ![p] = @ \ {d}]
    /\ objects' = objects \cup {d}
    /\ UNCHANGED <<manifests, config, pc, status, failures>>

\* Mutant: the connection's end is taken for the `end` trailer.
StreamEndEarly(p) ==
    /\ pc[p] = "stream"
    /\ manifests' = manifests \cup {want[p]}
    /\ Goto(p, "done")
    /\ UNCHANGED <<objects, config, list, status, failures>>

\* The `end` trailer: the receiver commits the manifest.
StreamEnd(p) ==
    /\ pc[p] = "stream"
    /\ list[p] = {}
    /\ manifests' = manifests \cup {want[p]}
    /\ Goto(p, "done")
    /\ UNCHANGED <<objects, config, list, status, failures>>

-----------------------------------------------------------------------------
(* The plain path.                                                         *)

\* (a) one batched existence probe; nothing missing goes straight to (c).
ProbeMissing(p) ==
    /\ pc[p] = "dumb"
    /\ list' = [list EXCEPT ![p] = ObjectsOf(want[p]) \ objects]
    /\ Goto(p, IF ObjectsOf(want[p]) \subseteq objects THEN "manifest" ELSE "extract")
    /\ UNCHANGED <<remote, config, status, failures>>

\* (b) tar | ssh 'tar -x' into .snapdir-incoming, whole or not at all.
Extract(p) ==
    /\ pc[p] = "extract"
    /\ Goto(p, "move")
    /\ UNCHANGED <<remote, config, list, status, failures>>

\* One turn of the remote loop: mkdir -p && mv -f.
MoveObject(p, d) ==
    /\ pc[p] = "move"
    /\ d \in list[p]
    /\ list' = [list EXCEPT ![p] = @ \ {d}]
    /\ objects' = objects \cup {d}
    /\ status' = [status EXCEPT ![p] = TRUE]
    /\ UNCHANGED <<manifests, config, pc, failures>>

\* A turn whose mkdir or mv fails (a shard directory another user owns, a full
\* disk): the loop goes on, and only remembers the status of this turn.
MoveFails(p, d) ==
    /\ pc[p] = "move"
    /\ d \in list[p]
    /\ Cardinality(failures) < MaxMoveFailures
    /\ failures' = failures \cup {<<p, d>>}
    /\ list' = [list EXCEPT ![p] = @ \ {d}]
    /\ status' = [status EXCEPT ![p] = FALSE]
    /\ UNCHANGED <<remote, config, pc>>

\* Mutant: `done; rm -rf` instead of `done && rm -rf`.
EndMovesUnchecked(p) ==
    /\ pc[p] = "move"
    /\ list[p] = {}
    /\ Goto(p, "manifest")
    /\ UNCHANGED <<remote, config, list, status, failures>>

\* The loop ends: `done && rm -rf` looks at the last turn's status.
EndMoves(p) ==
    /\ pc[p] = "move"
    /\ list[p] = {}
    /\ Goto(p, IF status[p] THEN "manifest" ELSE "failed")
    /\ UNCHANGED <<remote, config, list, status, failures>>

\* (c) the manifest, last, in a call of its own: mktemp, cat, mv -f.
CommitManifest(p) ==
    /\ pc[p] = "manifest"
    /\ manifests' = manifests \cup {want[p]}
    /\ Goto(p, "done")
    /\ UNCHANGED <<objects, config, list, status, failures>>

Next ==
    \E p \in Pusher :
        \/ CombinedProbe(p)
        \/ Stop(p)
        \/ ObjectsNeeded(p)
        \/ ObjectsNeededFails(p)
        \/ \E d \in Data : StreamObject(p, d) \/ MoveObject(p, d) \/ MoveFails(p, d)
        \/ StreamEnd(p)
        \/ ProbeMissing(p)
        \/ Extract(p)
        \/ EndMoves(p)
        \/ CommitManifest(p)

Spec == Init /\ [][Next]_vars

-----------------------------------------------------------------------------
(* Properties.                                                             *)

CS == INSTANCE ContentStore

\* As long as no move fails on the remote, the script writes the store as a
\* content store is written, on either path and on the way from one to the
\* other, whatever other pushers do and wherever it is cut off.
ImplementsContentStore ==
    CS!Init /\ [][failures' = {} => CS!Next \/ UNCHANGED CS!vars]_vars

\* The only way to a manifest that lacks an object: a script that was moving
\* that object for that very snapshot had the move fail, and had a later turn
\* of its loop succeed.  No probe that is out of date by the time it is used,
\* no fallback and no interruption leads there.  With the types of the state.
GapsExplained ==
    /\ TypeOK
    /\ \A m \in manifests : \A d \in ObjectsOf(m) \ objects :
           \E p \in Pusher : want[p] = m /\ <<p, d>> \in failures /\ ObjectsOf(m) # {d}

=============================================================================
