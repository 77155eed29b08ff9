------------------------------ MODULE SshFetch ------------------------------
(***************************************************************************)
(* The script that `snapdir fetch` runs for an ssh:// store                *)
(* (snapdir-ssh-store/src/ssh_engine.rs, get_manifest_script and           *)
(* get_fetch_files_script), beside the push scripts of SshPush: it fills   *)
(* one local cache, which other local commands may purge, from a remote    *)
(* whose objects may rot.                                                  *)
(*                                                                         *)
(* What to fetch is decided when the script is emitted, from what the      *)
(* cache holds then.  The accelerated path receives a verified pack; the   *)
(* plain path copies files out of a tar and looks only at their names.     *)
(***************************************************************************)
EXTENDS SshPush

CONSTANT MaxEvictions  \* bound: objects other commands purge from the cache

ASSUME EvictionAssumption == MaxEvictions \in Nat

VARIABLES
    rotten,   \* the remote objects whose bytes no longer match their address
    cache,    \* the local .objects: absent, whole or rotten
    fpc,      \* where the fetch script is
    fknob,    \* SNAPDIR_SSH_NO_ACCEL / FORCE_ACCEL (or no local snapdir)
    sendall,  \* SNAPDIR_SSH_PULL_SENDALL
    snap,     \* the snapshot it fetches, a singleton once it has a manifest
    pairs,    \* the objects the cache lacked when the script was emitted
    left,     \* the objects yet to be streamed, or yet to be moved
    tarball,  \* objects.tar: what the remote tar read of each object
    evicted   \* history: objects purged from the cache since the emission

fetcher == <<cache, fpc, snap, pairs, left, tarball, evicted>>
fconfig == <<fknob, sendall>>
fvars == <<vars, rotten, fetcher, fconfig>>

FEnded == {"fetched", "missing", "broken"}
Bytes == {"absent", "whole", "rotten"}

FTypeOK ==
    /\ TypeOK
    /\ rotten \subseteq objects
    /\ cache \in [Data -> Bytes]
    /\ fpc \in {"idle", "dispatch", "stream", "preflight", "tar", "move", "check"} \cup FEnded
    /\ snap \in SUBSET Snapshot /\ Cardinality(snap) < 2
    /\ pairs \subseteq Data /\ left \subseteq Data
    /\ tarball \in [pairs -> Bytes]
    /\ evicted \subseteq Data

FInit ==
    /\ Init
    /\ rotten = {}
    /\ cache \in [Data -> {"absent", "whole"}]
    /\ fpc = "idle"
    /\ fknob \in {"no_accel", "auto", "force"}
    /\ sendall \in BOOLEAN
    /\ snap = {} /\ pairs = {} /\ left = {} /\ tarball = << >>
    /\ evicted = {}

\* The script exits: its temporary directories, and the lists in them, go.
Exit(result) ==
    /\ fpc' = result
    /\ pairs' = {} /\ left' = {} /\ tarball' = << >>
    /\ UNCHANGED <<vars, rotten, snap, evicted, fconfig>>

Wanted == UNION {ObjectsOf(m) : m \in snap}
Cached(d) == cache[d] # "absent"

-----------------------------------------------------------------------------
\* Mutant: the filter on the cache is the wrong way round.
EmitCached ==
    /\ fpc = "idle"
    /\ \E m \in manifests :
          /\ snap' = {m}
          /\ pairs' = {d \in ObjectsOf(m) : Cached(d)}
    /\ tarball' = [d \in pairs' |-> "absent"]
    /\ fpc' = "dispatch"
    /\ UNCHANGED <<vars, rotten, cache, left, evicted, fconfig>>

\* get_manifest_script finds the manifest, and get_fetch_files_script bakes
\* the objects the cache lacks into the script it emits.
Emit ==
    /\ fpc = "idle"
    /\ \E m \in manifests :
          /\ snap' = {m}
          /\ pairs' = {d \in ObjectsOf(m) : ~Cached(d)}
    /\ tarball' = [d \in pairs' |-> "absent"]
    /\ fpc' = "dispatch"
    /\ UNCHANGED <<vars, rotten, cache, left, evicted, fconfig>>

\* The dispatch: the list of ids is the emit-time one or, with SENDALL, all of
\* the snapshot's; an empty list needs no remote, and takes the plain path.
DispatchFetch ==
    /\ fpc = "dispatch"
    /\ LET ids == IF sendall THEN Wanted ELSE pairs
       IN  \/ /\ fknob # "no_accel" /\ ids # {} /\ caps
              /\ left' = ids
              /\ fpc' = "stream"
              /\ UNCHANGED <<vars, rotten, snap, pairs, tarball, evicted, fconfig>>
           \/ /\ fknob = "force" /\ ids # {} /\ ~caps
              /\ Exit("broken")
           \/ /\ fknob = "no_accel" \/ ids = {} \/ (fknob = "auto" /\ ~caps)
              /\ fpc' = IF pairs = {} THEN "check" ELSE "preflight"
              /\ UNCHANGED <<vars, rotten, snap, pairs, left, tarball, evicted, fconfig>>
    /\ UNCHANGED cache

-----------------------------------------------------------------------------
(* The accelerated path: send-pack on the remote | receive-pack here.      *)

\* One record: an object the remote lacks, or whose bytes do not hash to its
\* name, ends the stream; one the cache holds is verified and skipped.
StreamRecord(d) ==
    /\ fpc = "stream" /\ d \in left
    /\ IF d \in objects \ rotten
       THEN /\ cache' = [cache EXCEPT ![d] = IF Cached(d) THEN @ ELSE "whole"]
            /\ left' = left \ {d}
            /\ UNCHANGED <<vars, rotten, fpc, snap, pairs, tarball, evicted, fconfig>>
       ELSE cache' = cache /\ Exit(IF d \in objects THEN "broken" ELSE "missing")

StreamDone ==
    /\ fpc = "stream" /\ left = {}
    /\ Exit("fetched")
    /\ UNCHANGED cache

-----------------------------------------------------------------------------
(* The plain path.                                                         *)

\* (b) every needed object is on the remote, or nothing is transferred.
Preflight ==
    /\ fpc = "preflight"
    /\ IF pairs \subseteq objects
       THEN fpc' = "tar" /\ UNCHANGED <<vars, rotten, snap, pairs, left, tarball, evicted, fconfig>>
       ELSE Exit("missing")
    /\ UNCHANGED cache

\* (c), (d) one remote tar, saved, and its names compared with the expected.
RemoteTar ==
    /\ fpc = "tar"
    /\ tarball' = [d \in pairs |-> IF d \in rotten THEN "rotten" ELSE "whole"]
    /\ left' = pairs
    /\ fpc' = "move"
    /\ UNCHANGED <<vars, rotten, cache, snap, pairs, evicted, fconfig>>

\* (e) one turn of the loop: mkdir -p and mv -f from the incoming directory.
MoveIn(d) ==
    /\ fpc = "move" /\ d \in left
    /\ cache' = [cache EXCEPT ![d] = tarball[d]]
    /\ left' = left \ {d}
    /\ UNCHANGED <<vars, rotten, fpc, snap, pairs, tarball, evicted, fconfig>>

EndMoveIn ==
    /\ fpc = "move" /\ left = {}
    /\ fpc' = "check"
    /\ UNCHANGED <<vars, rotten, cache, snap, pairs, left, tarball, evicted, fconfig>>

\* (f) the epilogue looks for every needed object in the cache.
Epilogue ==
    /\ fpc = "check"
    /\ Exit(IF \A d \in pairs : Cached(d) THEN "fetched" ELSE "missing")
    /\ UNCHANGED cache

-----------------------------------------------------------------------------
\* The script is killed, the connection drops or a command fails.
StopFetch ==
    /\ fpc \notin FEnded \cup {"idle"}
    /\ Exit("broken")
    /\ UNCHANGED cache

\* Another local command purges the cache meanwhile.
Evict(d) ==
    /\ Cached(d)
    /\ fpc \notin FEnded \cup {"idle"}
    /\ Cardinality(evicted) < MaxEvictions
    /\ cache' = [cache EXCEPT ![d] = "absent"]
    /\ evicted' = evicted \cup {d}
    /\ UNCHANGED <<vars, rotten, fpc, snap, pairs, left, tarball, fconfig>>

\* The remote disk damages an object (one at a time, as long as it is there).
Rot(d) ==
    /\ d \in objects /\ rotten = {}
    /\ rotten' = {d}
    /\ UNCHANGED <<vars, fetcher, fconfig>>

\* A step of a push script.  A plain one that moves an object into place
\* replaces what is there, and with it the damage.
Push ==
    /\ Next
    /\ rotten' = rotten \ {d \in Data : \E p \in Pusher : MoveObject(p, d)}
    /\ UNCHANGED <<fetcher, fconfig>>

FNext ==
    \/ Push
    \/ Emit
    \/ DispatchFetch
    \/ \E d \in Data : StreamRecord(d) \/ MoveIn(d) \/ Evict(d) \/ Rot(d)
    \/ StreamDone
    \/ Preflight
    \/ RemoteTar
    \/ EndMoveIn
    \/ Epilogue
    \/ StopFetch

FSpec == FInit /\ [][FNext]_fvars

-----------------------------------------------------------------------------
(* Properties.                                                             *)

\* A fetch script that succeeds leaves every object of the snapshot in the
\* cache, although the objects it asks for were chosen when it was emitted:
\* only what another command has purged since then may be missing.  It reports
\* an object of a committed snapshot missing only if a push of that very
\* snapshot filed the manifest over a failed move (SshPush), or a purge took
\* the object from under the epilogue: no push that is under way and no
\* fallback between the paths makes a fetch fail so.  And bytes that rotted on
\* the remote reach the cache by the plain path only, which looks at names:
\* never through the accelerated one, whatever rots while it streams.  With
\* the types of the state.
FetchExplained ==
    /\ FTypeOK
    /\ fpc = "fetched" => \A d \in Wanted : Cached(d) \/ d \in evicted
    /\ fpc = "missing" =>
           \/ evicted # {}
           \/ \E m \in snap, p \in Pusher, d \in Data :
                 want[p] = m /\ d \in ObjectsOf(m) /\ <<p, d>> \in failures
    /\ \A d \in Data : cache[d] = "rotten" => (fknob = "no_accel" \/ ~caps)

=============================================================================
