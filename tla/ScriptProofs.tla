---------------------------- MODULE ScriptProofs ----------------------------
(***************************************************************************)
(* The ssh and sftp scripts, for any number of pushers, batches, snapshots *)
(* and failures.  Over ssh, the masked failure of the move loop is the     *)
(* only way to a gap in a committed snapshot, until then the remote is a   *)
(* content store, and what a fetch script beside the pushes reports is     *)
(* what it found.  Over sftp, with posix-rename and without, a gap in a    *)
(* filed snapshot is a rename that has not happened yet, or never will.    *)
(***************************************************************************)
EXTENDS SshFetch, SftpPush, FiniteSetTheorems, TLAPS

Failed(p) == {d \in Data : <<p, d>> \in failures}

\* What a script may still count on.  Until it moves objects, none of its moves
\* has failed; while it streams or moves, an object of its snapshot is on the
\* remote, still in its list, or lost to a failed move; and once the last turn
\* of its loop has succeeded, that turn was about another object than any that
\* it lost.
ScriptInv(p) ==
    /\ pc[p] \in {"probe", "accel", "stream", "dumb", "extract"} => Failed(p) = {}
    /\ pc[p] \in {"stream", "extract", "move"} =>
          /\ list[p] \subseteq ObjectsOf(want[p])
          /\ ObjectsOf(want[p]) \subseteq objects \cup list[p] \cup Failed(p)
    /\ pc[p] = "move" => Failed(p) \cap list[p] = {}
    /\ pc[p] = "manifest" => ObjectsOf(want[p]) \subseteq objects \cup Failed(p)
    /\ Failed(p) \subseteq ObjectsOf(want[p])
    /\ (pc[p] = "move" /\ status[p]) \/ pc[p] = "manifest" =>
          \A d \in Failed(p) : ObjectsOf(want[p]) # {d}

\* The inductive invariant of the push scripts.
IInv ==
    /\ GapsExplained
    /\ \A p \in Pusher : ScriptInv(p)

-----------------------------------------------------------------------------
(* The push scripts.                                                       *)

LEMMA ObjectsOfData == \A m \in Snapshot : ObjectsOf(m) \subseteq Data
BY DEF Snapshot, ObjectsOf

\* A script that has not begun has no object on the remote and has lost none.
LEMMA InitInvariant == Init => IInv
BY DEF Init, IInv, ScriptInv, GapsExplained, TypeOK, Failed, Stage, Ended

\* The dispatch leads to one of the paths, whatever the knob and the remote.
LEMMA DispatchStage ==
    ASSUME TypeOK, NEW p \in Pusher
    PROVE  Dispatch(p) \in {"dumb", "accel", "failed"}
<1>1. knob[p] \in {"no_accel", "auto", "force"} /\ caps \in BOOLEAN
  BY DEF TypeOK
<1> QED
  BY <1>1 DEF Dispatch

\* No step of any script takes an object, a manifest or a failure back.
LEMMA RemoteGrows ==
    ASSUME TypeOK, [Next]_vars
    PROVE  /\ TypeOK'
           /\ objects \subseteq objects'
           /\ manifests \subseteq manifests'
           /\ failures \subseteq failures'
           /\ UNCHANGED config
<1> USE DEF TypeOK, Goto, remote, config
<1> DEFINE Grown == /\ TypeOK' /\ objects \subseteq objects' /\ manifests \subseteq manifests'
                    /\ failures \subseteq failures' /\ UNCHANGED config
<1>0. \A p \in Pusher : want[p] \in Snapshot /\ ObjectsOf(want[p]) \subseteq Data
  BY ObjectsOfData
<1>1. ASSUME NEW p \in Pusher, CombinedProbe(p) PROVE Grown
  BY <1>1, DispatchStage DEF CombinedProbe, Stage, Ended
<1>2. ASSUME NEW p \in Pusher, Stop(p) PROVE Grown
  BY <1>2 DEF Stop, Stage, Ended
<1>3. ASSUME NEW p \in Pusher, ObjectsNeeded(p) \/ ObjectsNeededFails(p) PROVE Grown
  BY <1>0, <1>3 DEF ObjectsNeeded, ObjectsNeededFails, Stage
<1>4. ASSUME NEW p \in Pusher, NEW d \in Data, StreamObject(p, d) PROVE Grown
  BY <1>4 DEF StreamObject
<1>5. ASSUME NEW p \in Pusher, NEW d \in Data, MoveObject(p, d) PROVE Grown
  BY <1>5 DEF MoveObject
<1>6. ASSUME NEW p \in Pusher, NEW d \in Data, MoveFails(p, d) PROVE Grown
  BY <1>6 DEF MoveFails
<1>7. ASSUME NEW p \in Pusher, StreamEnd(p) \/ CommitManifest(p) PROVE Grown
  BY <1>0, <1>7 DEF StreamEnd, CommitManifest, Stage, Ended
<1>8. ASSUME NEW p \in Pusher, ProbeMissing(p) PROVE Grown
  BY <1>0, <1>8 DEF ProbeMissing, Stage
<1>9. ASSUME NEW p \in Pusher, Extract(p) \/ EndMoves(p) PROVE Grown
  BY <1>9 DEF Extract, EndMoves, Stage, Ended
<1>10. CASE UNCHANGED vars
  BY <1>10 DEF vars
<1> QED
  BY <1>1, <1>2, <1>3, <1>4, <1>5, <1>6, <1>7, <1>8, <1>9, <1>10 DEF Next

\* A step that neither files nor loses an object keeps what every script counts
\* on ...
LEMMA QuietStep ==
    ASSUME IInv, [Next]_vars, NEW p \in Pusher, NEW q \in Pusher,
           \/ CombinedProbe(q) \/ Stop(q) \/ ObjectsNeeded(q) \/ ObjectsNeededFails(q)
           \/ StreamEnd(q) \/ CommitManifest(q) \/ ProbeMissing(q) \/ Extract(q) \/ EndMoves(q)
    PROVE  ScriptInv(p)'
<1>0. /\ TypeOK /\ ScriptInv(p) /\ Failed(p)' = Failed(p) /\ UNCHANGED want
      /\ objects' = objects
  BY DEF IInv, GapsExplained, Failed, CombinedProbe, Stop, ObjectsNeeded, ObjectsNeededFails,
         StreamEnd, CommitManifest, ProbeMissing, Extract, EndMoves, remote, config
<1> USE DEF ScriptInv, Goto
<1>1. CASE CombinedProbe(q)
  BY <1>0, <1>1, DispatchStage DEF CombinedProbe, TypeOK
<1>2. CASE Stop(q)
  BY <1>0, <1>2 DEF Stop, TypeOK
<1>3. CASE ObjectsNeeded(q)
  BY <1>0, <1>3 DEF ObjectsNeeded, TypeOK
<1>4. CASE ObjectsNeededFails(q)
  BY <1>0, <1>4 DEF ObjectsNeededFails, TypeOK
<1>5. CASE StreamEnd(q) \/ CommitManifest(q)
  BY <1>0, <1>5 DEF StreamEnd, CommitManifest, TypeOK
<1>6. CASE ProbeMissing(q)
  BY <1>0, <1>6 DEF ProbeMissing, TypeOK
<1>7. CASE Extract(q)
  BY <1>0, <1>7 DEF Extract, TypeOK
<1>8. CASE EndMoves(q)
  BY <1>0, <1>8 DEF EndMoves, TypeOK
<1> QED
  BY <1>1, <1>2, <1>3, <1>4, <1>5, <1>6, <1>7, <1>8

\* ... and so does one that files an object or fails to: the object leaves the
\* list for the remote or for the failures, and other scripts' objects stay.
LEMMA ObjectStep ==
    ASSUME IInv, NEW p \in Pusher, NEW q \in Pusher, NEW d \in Data,
           StreamObject(q, d) \/ MoveObject(q, d) \/ MoveFails(q, d)
    PROVE  ScriptInv(p)'
<1>0. TypeOK /\ ScriptInv(p) /\ UNCHANGED <<want, pc>>
  BY DEF IInv, GapsExplained, StreamObject, MoveObject, MoveFails, config, remote
<1>1. CASE StreamObject(q, d)
  <2>1. Failed(p)' = Failed(p) /\ UNCHANGED status
    BY <1>1 DEF StreamObject, Failed
  <2> QED
    BY <1>0, <1>1, <2>1 DEF StreamObject, ScriptInv, TypeOK
<1>2. CASE MoveObject(q, d)
  <2>1. Failed(p)' = Failed(p)
    BY <1>2 DEF MoveObject, Failed
  <2>2. CASE p = q
    <3>1. d \in ObjectsOf(want[p]) /\ d \notin Failed(p) /\ pc[p] = "move"
      BY <1>0, <1>2, <2>2 DEF MoveObject, ScriptInv
    <3>2. \A e \in Failed(p) : ObjectsOf(want[p]) # {e}
      BY <3>1
    <3> QED
      BY <1>0, <1>2, <2>1, <2>2, <3>1, <3>2 DEF MoveObject, ScriptInv, TypeOK
  <2>3. CASE p # q
    BY <1>0, <1>2, <2>1, <2>3 DEF MoveObject, ScriptInv, TypeOK
  <2> QED
    BY <2>2, <2>3
<1>3. CASE MoveFails(q, d)
  <2>1. CASE p = q
    <3>1. Failed(p)' = Failed(p) \cup {d} /\ d \in list[p] /\ pc[p] = "move"
      BY <1>3, <2>1 DEF MoveFails, Failed
    <3> QED
      BY <1>0, <1>3, <2>1, <3>1 DEF MoveFails, ScriptInv, TypeOK, remote
  <2>2. CASE p # q
    <3>1. Failed(p)' = Failed(p)
      BY <1>3, <2>2 DEF MoveFails, Failed
    <3> QED
      BY <1>0, <1>3, <2>2, <3>1 DEF MoveFails, ScriptInv, TypeOK, remote
  <2> QED
    BY <2>1, <2>2
<1> QED
  BY <1>1, <1>2, <1>3

\* A manifest is committed by a script that has every object of it on the
\* remote but those it has lost, and it has not lost the only one.
LEMMA CommitExplained ==
    ASSUME IInv, NEW q \in Pusher, StreamEnd(q) \/ CommitManifest(q),
           NEW d \in ObjectsOf(want[q]) \ objects
    PROVE  CommitManifest(q) /\ <<q, d>> \in failures /\ ObjectsOf(want[q]) # {d}
<1>1. TypeOK /\ ScriptInv(q)
  BY DEF IInv, GapsExplained
<1>2. CASE StreamEnd(q)
  BY <1>1, <1>2 DEF StreamEnd, ScriptInv
<1>3. CASE CommitManifest(q)
  <2>1. d \in Failed(q)
    BY <1>1, <1>3 DEF CommitManifest, ScriptInv
  <2> QED
    BY <1>1, <1>3, <2>1 DEF CommitManifest, ScriptInv, Failed
<1> QED
  BY <1>2, <1>3

\* Only the two commits write a manifest.
LEMMA Committers ==
    ASSUME [Next]_vars, manifests' # manifests
    PROVE  \E q \in Pusher : /\ StreamEnd(q) \/ CommitManifest(q)
                             /\ manifests' = manifests \cup {want[q]}
                             /\ UNCHANGED objects
BY DEF Next, vars, CombinedProbe, Stop, ObjectsNeeded, ObjectsNeededFails, StreamObject, MoveObject,
       MoveFails, StreamEnd, CommitManifest, ProbeMissing, Extract, EndMoves, remote

LEMMA IInvNext ==
    ASSUME IInv, [Next]_vars PROVE IInv'
<1>1. TypeOK
  BY DEF IInv, GapsExplained
<1>2. /\ TypeOK' /\ objects \subseteq objects' /\ failures \subseteq failures' /\ want' = want
  BY <1>1, RemoteGrows DEF config
<1>3. ASSUME NEW m \in manifests', NEW d \in ObjectsOf(m) \ objects'
      PROVE  \E p \in Pusher : want[p] = m /\ <<p, d>> \in failures /\ ObjectsOf(m) # {d}
  <2>1. CASE m \in manifests
    BY <1>2, <1>3, <2>1 DEF IInv, GapsExplained
  <2>2. CASE m \notin manifests
    <3>1. PICK q \in Pusher : /\ StreamEnd(q) \/ CommitManifest(q)
                             /\ manifests' = manifests \cup {want[q]}
                             /\ UNCHANGED objects
      BY <1>3, <2>2, Committers
    <3>2. want[q] = m /\ d \in ObjectsOf(want[q]) \ objects
      BY <1>3, <2>2, <3>1
    <3> QED
      BY <3>1, <3>2, CommitExplained
  <2> QED
    BY <2>1, <2>2
<1>4. GapsExplained'
  BY <1>2, <1>3 DEF GapsExplained, ObjectsOf
<1>5. ASSUME NEW p \in Pusher PROVE ScriptInv(p)'
  <2>1. CASE UNCHANGED vars
    BY <2>1 DEF IInv, vars, remote, config, ScriptInv, Failed
  <2>2. CASE Next
    BY <2>2, QuietStep, ObjectStep DEF Next
  <2> QED
    BY <2>1, <2>2
<1> QED
  BY <1>4, <1>5 DEF IInv

\* The push scripts alone, for any number of them: every gap in a committed
\* snapshot is an object whose move failed in a script for that very snapshot,
\* before a later move of the same loop succeeded (the `while read` loop of the
\* plain path; the accelerated path makes none).
THEOREM PushGapsExplained == Spec => []GapsExplained
<1>1. IInv => GapsExplained
  BY DEF IInv
<1> QED
  BY <1>1, InitInvariant, IInvNext, PTL DEF Spec

-----------------------------------------------------------------------------
(* The remote as a content store.                                          *)

\* As long as no move has failed, every step is one of a content store's.
LEMMA NextRefines ==
    ASSUME IInv, [Next]_vars, failures' = {}
    PROVE  CS!Next \/ UNCHANGED CS!vars
<1>1. failures = {} /\ TypeOK
  BY RemoteGrows DEF IInv, GapsExplained
<1>2. CASE manifests' # manifests
  <2>1. PICK q \in Pusher : /\ StreamEnd(q) \/ CommitManifest(q)
                           /\ manifests' = manifests \cup {want[q]}
                           /\ UNCHANGED objects
    BY <1>2, Committers
  <2>2. CS!ObjectsOf(want[q]) \subseteq objects
    BY <1>1, <2>1, CommitExplained DEF CS!ObjectsOf, ObjectsOf
  <2>3. want[q] \in CS!Snapshot
    BY <1>1 DEF TypeOK, Snapshot, CS!Snapshot
  <2> QED
    BY <1>2, <2>1, <2>2, <2>3 DEF CS!Next, CS!CommitManifest
<1>3. CASE manifests' = manifests /\ objects' # objects
  <2>1. PICK d \in Data : objects' = objects \cup {d}
    BY <1>3 DEF Next, vars, CombinedProbe, Stop, ObjectsNeeded, ObjectsNeededFails, StreamObject,
                MoveObject, MoveFails, StreamEnd, CommitManifest, ProbeMissing, Extract, EndMoves,
                remote
  <2> QED
    BY <1>3, <2>1 DEF CS!Next, CS!AddObject
<1>4. CASE UNCHANGED <<objects, manifests>>
  BY <1>4 DEF CS!vars
<1> QED
  BY <1>2, <1>3, <1>4

\* Until a remote move fails, the push scripts implement the abstract content
\* store: whole objects first and the manifest last, on the accelerated path,
\* on the plain one and through the fallback from one to the other.
THEOREM PushRefinement == Spec => ImplementsContentStore
<1>1. Init => CS!Init
  BY DEF Init, CS!Init
<1>2. IInv /\ [Next]_vars => [failures' = {} => CS!Next \/ UNCHANGED CS!vars]_vars
  BY NextRefines
<1> QED
  BY <1>1, <1>2, InitInvariant, IInvNext, PTL DEF Spec, ImplementsContentStore

-----------------------------------------------------------------------------
(* The fetch script beside them.                                           *)

Running == {"dispatch", "stream", "preflight", "tar", "move", "check"}
Held(d) == Cached(d) \/ d \in evicted

\* Some push of the snapshot being fetched filed its manifest over a lost move.
Masked ==
    \E m \in snap, p \in Pusher, d \in Data :
        want[p] = m /\ d \in ObjectsOf(m) /\ <<p, d>> \in failures

\* What the fetch script may still count on: the manifest it read stays
\* committed; what it did not list when it was emitted, and what it has
\* streamed or moved since, is in the cache or was purged from it; the plain
\* path is taken only where no acceleration is wanted or offered, and then
\* only with objects that the remote has.
FetchInv ==
    /\ snap \subseteq manifests
    /\ fpc \in {"idle", "dispatch", "preflight", "tar"} => left = {}
    /\ fpc \in Running =>
          /\ pairs \subseteq Wanted /\ left \subseteq Wanted
          /\ \A d \in Wanted \ pairs : Held(d)
    /\ fpc = "stream" => \A d \in Wanted \ left : Held(d)
    /\ fpc \in {"preflight", "tar", "move"} => fknob = "no_accel" \/ ~caps
    /\ fpc \in {"tar", "move"} => pairs \subseteq objects
    /\ fpc = "move" =>
          /\ left \subseteq pairs
          /\ \A d \in pairs : tarball[d] # "absent"
          /\ \A d \in Wanted \ left : Held(d)
    /\ fpc = "check" => \A d \in Wanted : Held(d)

FIInv == IInv /\ FetchExplained /\ FetchInv

LEMMA WantedData == ASSUME FTypeOK PROVE Wanted \subseteq Data
BY ObjectsOfData DEF FTypeOK, Wanted

LEMMA FInitInvariant == FInit => FIInv
<1> SUFFICES ASSUME FInit PROVE FIInv
  OBVIOUS
<1>1. IInv /\ TypeOK
  BY InitInvariant DEF FInit, IInv, GapsExplained
<1>2. Cardinality(snap) = 0 /\ tarball \in [{} -> Bytes]
  BY FS_EmptySet DEF FInit
<1>3. FTypeOK
  BY <1>1, <1>2 DEF FInit, FTypeOK, Bytes, FEnded
<1>4. FetchExplained
  BY <1>3 DEF FInit, FetchExplained
<1>5. FetchInv
  BY DEF FInit, FetchInv, Running
<1> QED
  BY <1>1, <1>4, <1>5 DEF FIInv

\* A step of the pair is a step of the push scripts or leaves them alone.
LEMMA FetchBesidePush == FNext => [Next]_vars
BY DEF FNext, Push, Emit, DispatchFetch, StreamRecord, MoveIn, Evict, Rot, StreamDone, Preflight,
       RemoteTar, EndMoveIn, Epilogue, StopFetch, Exit

\* An object of a committed snapshot that the remote lacks was lost to a move
\* that a push of that snapshot masked.
LEMMA LackingIsMasked ==
    ASSUME FIInv, NEW d \in Wanted \ objects PROVE Masked
<1>1. PICK m \in snap : d \in ObjectsOf(m)
  BY DEF Wanted
<1>2. m \in manifests /\ m \in Snapshot
  BY <1>1 DEF FIInv, FetchInv, FetchExplained, FTypeOK
<1>3. PICK p \in Pusher : want[p] = m /\ <<p, d>> \in failures
  BY <1>1, <1>2 DEF FIInv, IInv, GapsExplained
<1> QED
  BY <1>1, <1>2, <1>3, ObjectsOfData DEF Masked

\* The script's exit: its lists are gone, its result stands.
LEMMA ExitStep ==
    ASSUME FIInv, NEW result \in FEnded, Exit(result), UNCHANGED cache,
           result = "fetched" => \A d \in Wanted : Held(d),
           result = "missing" => evicted # {} \/ Masked
    PROVE  FetchExplained' /\ FetchInv'
<1>1. /\ UNCHANGED <<vars, rotten, snap, evicted, fconfig, cache>> /\ fpc' = result
      /\ pairs' = {} /\ left' = {} /\ tarball' = << >>
  BY DEF Exit
<1>2. tarball' \in [{} -> Bytes]
  BY <1>1
<1>3. TypeOK' /\ FTypeOK'
  BY <1>1, <1>2 DEF FIInv, FetchExplained, FTypeOK, TypeOK, vars, remote, config
<1>4. (Masked => Masked') /\ Wanted' = Wanted
  BY <1>1 DEF Masked, Wanted, vars, config
<1>5. FetchExplained'
  BY <1>1, <1>3, <1>4 DEF FIInv, FetchExplained, Held, Cached, Masked, vars, config, fconfig
<1>6. FetchInv'
  BY <1>1 DEF FIInv, FetchInv, Running, FEnded, vars, remote
<1> QED
  BY <1>5, <1>6

\* The emission: the manifest is committed, and what is not listed is cached.
LEMMA EmitStep ==
    ASSUME FIInv, Emit PROVE FetchExplained' /\ FetchInv'
<1>1. PICK m \in manifests : snap' = {m} /\ pairs' = {d \in ObjectsOf(m) : ~Cached(d)}
  BY DEF Emit
<1>2. m \in Snapshot /\ ObjectsOf(m) \subseteq Data /\ Wanted' = ObjectsOf(m)
  BY <1>1, ObjectsOfData DEF FIInv, FetchExplained, FTypeOK, TypeOK, Wanted
<1>3. Cardinality(snap') = 1
  BY <1>1, FS_Singleton
<1>4. /\ UNCHANGED <<vars, rotten, cache, left, evicted, fconfig>>
      /\ tarball' = [d \in pairs' |-> "absent"] /\ fpc' = "dispatch" /\ fpc = "idle"
  BY DEF Emit
<1>5. TypeOK' /\ FTypeOK'
  BY <1>1, <1>2, <1>3, <1>4 DEF FIInv, FetchExplained, FTypeOK, TypeOK, Bytes, vars, remote, config
<1>6. left = {}
  BY <1>4 DEF FIInv, FetchInv
<1>7. FetchExplained'
  BY <1>4, <1>5 DEF FIInv, FetchExplained, vars, config, fconfig
<1>8. FetchInv'
  BY <1>1, <1>2, <1>4, <1>6 DEF FetchInv, Running, Held, Cached, vars, remote
<1> QED
  BY <1>7, <1>8

\* The dispatch: with SENDALL or without, an empty list needs no remote, and the
\* plain path with objects to ask for is not taken where a pack is possible.
LEMMA DispatchStep ==
    ASSUME FIInv, DispatchFetch PROVE FetchExplained' /\ FetchInv'
<1> DEFINE ids == IF sendall THEN Wanted ELSE pairs
<1>1. /\ fpc = "dispatch" /\ UNCHANGED cache
      /\ \/ /\ fknob # "no_accel" /\ ids # {} /\ caps
            /\ left' = ids /\ fpc' = "stream"
            /\ UNCHANGED <<vars, rotten, snap, pairs, tarball, evicted, fconfig>>
         \/ Exit("broken")
         \/ /\ fknob = "no_accel" \/ ids = {} \/ (fknob = "auto" /\ ~caps)
            /\ fpc' = IF pairs = {} THEN "check" ELSE "preflight"
            /\ UNCHANGED <<vars, rotten, snap, pairs, left, tarball, evicted, fconfig>>
  BY DEF DispatchFetch
<1>2. /\ pairs \subseteq Wanted /\ left = {} /\ FTypeOK /\ ids \subseteq Wanted
      /\ \A d \in Wanted \ pairs : Held(d)
  BY <1>1 DEF FIInv, FetchInv, FetchExplained, Running
<1>3. CASE Exit("broken")
  BY <1>1, <1>3, ExitStep DEF FEnded
<1>4. CASE left' = ids /\ fpc' = "stream"
           /\ UNCHANGED <<vars, rotten, snap, pairs, tarball, evicted, fconfig>>
  <2>1. Wanted' = Wanted /\ \A d : Held(d)' = Held(d)
    BY <1>1, <1>4 DEF Wanted, Held, Cached
  <2>2. TypeOK' /\ FTypeOK'
    BY <1>1, <1>2, <1>4, WantedData DEF FTypeOK, TypeOK, vars, remote, config
  <2>3. FetchExplained'
    BY <1>1, <1>4, <2>2 DEF FIInv, FetchExplained, vars, config, fconfig
  <2>4. FetchInv'
    BY <1>1, <1>2, <1>4, <2>1 DEF FIInv, FetchInv, Running, vars, remote
  <2> QED
    BY <2>3, <2>4
<1>5. CASE /\ fknob = "no_accel" \/ ids = {} \/ (fknob = "auto" /\ ~caps)
           /\ fpc' = IF pairs = {} THEN "check" ELSE "preflight"
           /\ UNCHANGED <<vars, rotten, snap, pairs, left, tarball, evicted, fconfig>>
  <2>1. Wanted' = Wanted /\ \A d : Held(d)' = Held(d)
    BY <1>1, <1>5 DEF Wanted, Held, Cached
  <2>2. TypeOK' /\ FTypeOK'
    BY <1>1, <1>2, <1>5 DEF FTypeOK, TypeOK, vars, remote, config
  <2>3. pairs # {} => fknob = "no_accel" \/ ~caps
    BY <1>2, <1>5
  <2>4. FetchExplained'
    BY <1>1, <1>5, <2>2 DEF FIInv, FetchExplained, vars, config, fconfig
  <2>5. FetchInv'
    BY <1>1, <1>2, <1>5, <2>1, <2>3 DEF FIInv, FetchInv, Running, vars, remote, config, fconfig
  <2> QED
    BY <2>4, <2>5
<1> QED
  BY <1>1, <1>3, <1>4, <1>5

\* The accelerated path: a record fills the cache with whole bytes only.
LEMMA StreamStep ==
    ASSUME FIInv, StreamDone \/ \E d \in Data : StreamRecord(d)
    PROVE  FetchExplained' /\ FetchInv'
<1>0. FTypeOK /\ fpc = "stream" /\ left \subseteq Wanted /\ \A d \in Wanted \ left : Held(d)
  BY DEF FIInv, FetchInv, FetchExplained, StreamDone, StreamRecord, Running
<1>1. CASE StreamDone
  BY <1>0, <1>1, ExitStep DEF StreamDone, FEnded
<1>2. ASSUME NEW d \in Data, StreamRecord(d), d \notin objects \ rotten
      PROVE  FetchExplained' /\ FetchInv'
  <2>1. /\ Exit(IF d \in objects THEN "broken" ELSE "missing") /\ UNCHANGED cache
        /\ d \in left
    BY <1>2 DEF StreamRecord
  <2>2. d \notin objects => Masked
    BY <1>0, <2>1, LackingIsMasked
  <2> QED
    BY <2>1, <2>2, ExitStep DEF FEnded
<1>3. ASSUME NEW d \in Data, StreamRecord(d), d \in objects \ rotten
      PROVE  FetchExplained' /\ FetchInv'
  <2>1. /\ cache' = [cache EXCEPT ![d] = IF Cached(d) THEN @ ELSE "whole"]
        /\ left' = left \ {d}
        /\ UNCHANGED <<vars, rotten, fpc, snap, pairs, tarball, evicted, fconfig>>
    BY <1>3 DEF StreamRecord
  <2>2. cache \in [Data -> Bytes] /\ Wanted \subseteq Data /\ Wanted' = Wanted
    BY <1>0, <2>1, WantedData DEF FTypeOK, Wanted
  <2>3. cache'[d] # "absent" /\ cache'[d] \in Bytes /\ (cache'[d] = "rotten" => cache[d] = "rotten")
    BY <2>1, <2>2 DEF Cached, Bytes
  <2>4. \A e \in Data : e # d => cache'[e] = cache[e]
    BY <2>1, <2>2
  <2>5. \A e \in Data : Held(e) => Held(e)'
    BY <2>1, <2>3, <2>4 DEF Held, Cached
  <2>6. TypeOK' /\ FTypeOK'
    BY <1>0, <2>1, <2>2, <2>3, <2>4 DEF FTypeOK, TypeOK, vars, remote, config
  <2>7. FetchExplained'
    BY <1>0, <2>1, <2>3, <2>4, <2>6 DEF FIInv, FetchExplained, vars, config, fconfig
  <2>8. \A e \in Wanted \ left' : Held(e)'
    BY <1>0, <2>1, <2>2, <2>3, <2>5 DEF Held, Cached
  <2>9. \A e \in Wanted \ pairs : Held(e)'
    BY <1>0, <2>2, <2>5 DEF FIInv, FetchInv, Running
  <2>10. FetchInv'
    BY <1>0, <2>1, <2>2, <2>8, <2>9 DEF FIInv, FetchInv, Running, vars, remote
  <2> QED
    BY <2>7, <2>10
<1> QED
  BY <1>1, <1>2, <1>3

\* The plain path: what the remote lacks is masked, what it has is moved in
\* under its name, and the last look at the cache misses only what was purged.
LEMMA PlainStep ==
    ASSUME FIInv, \/ Preflight \/ RemoteTar \/ EndMoveIn \/ Epilogue \/ StopFetch
                  \/ \E d \in Data : MoveIn(d)
    PROVE  FetchExplained' /\ FetchInv'
<1>0. FTypeOK /\ TypeOK
  BY DEF FIInv, FetchExplained, FTypeOK
<1>1. CASE Preflight
  <2>1. fpc = "preflight" /\ UNCHANGED cache /\ pairs \subseteq Wanted
    BY <1>1 DEF Preflight, FIInv, FetchInv, Running
  <2>2. CASE pairs \subseteq objects
    <3>1. /\ fpc' = "tar"
          /\ UNCHANGED <<vars, rotten, snap, pairs, left, tarball, evicted, fconfig>>
      BY <1>1, <2>2 DEF Preflight
    <3>2. TypeOK' /\ FTypeOK'
      BY <1>0, <2>1, <3>1 DEF FTypeOK, TypeOK, vars, remote, config
    <3>3. FetchExplained'
      BY <2>1, <3>1, <3>2 DEF FIInv, FetchExplained, vars, config, fconfig
    <3>4. FetchInv'
      BY <2>1, <2>2, <3>1 DEF FIInv, FetchInv, Running, Wanted, Held, Cached, vars, remote,
                              config, fconfig
    <3> QED
      BY <3>3, <3>4
  <2>3. CASE ~(pairs \subseteq objects)
    <3>1. Exit("missing")
      BY <1>1, <2>3 DEF Preflight
    <3>2. Masked
      BY <2>1, <2>3, LackingIsMasked
    <3> QED
      BY <2>1, <3>1, <3>2, ExitStep DEF FEnded
  <2> QED
    BY <2>2, <2>3
<1>2. CASE RemoteTar
  <2>1. /\ fpc = "tar" /\ fpc' = "move" /\ left' = pairs
        /\ tarball' = [d \in pairs |-> IF d \in rotten THEN "rotten" ELSE "whole"]
        /\ UNCHANGED <<vars, rotten, cache, snap, pairs, evicted, fconfig>>
    BY <1>2 DEF RemoteTar
  <2>2. TypeOK' /\ FTypeOK'
    BY <1>0, <2>1 DEF FTypeOK, TypeOK, Bytes, vars, remote, config
  <2>3. FetchExplained'
    BY <2>1, <2>2 DEF FIInv, FetchExplained, vars, config, fconfig
  <2>4. FetchInv'
    BY <2>1 DEF FIInv, FetchInv, Running, Wanted, Held, Cached, vars, remote, config, fconfig
  <2> QED
    BY <2>3, <2>4
<1>3. ASSUME NEW d \in Data, MoveIn(d) PROVE FetchExplained' /\ FetchInv'
  <2>1. /\ fpc = "move" /\ d \in left /\ cache' = [cache EXCEPT ![d] = tarball[d]]
        /\ left' = left \ {d}
        /\ UNCHANGED <<vars, rotten, fpc, snap, pairs, tarball, evicted, fconfig>>
    BY <1>3 DEF MoveIn
  <2>2. d \in pairs /\ tarball[d] \in Bytes /\ tarball[d] # "absent"
    BY <1>0, <2>1 DEF FIInv, FetchInv, FTypeOK
  <2>3. cache \in [Data -> Bytes] /\ Wanted \subseteq Data /\ Wanted' = Wanted
    BY <1>0, <2>1, WantedData DEF FTypeOK, Wanted
  <2>4. \A e \in Data : Held(e) => Held(e)'
    BY <2>1, <2>2, <2>3 DEF Held, Cached
  <2>5. Held(d)'
    BY <2>1, <2>2, <2>3 DEF Held, Cached
  <2>6. TypeOK' /\ FTypeOK'
    BY <1>0, <2>1, <2>2, <2>3 DEF FTypeOK, TypeOK, vars, remote, config
  <2>7. FetchExplained'
    BY <2>1, <2>3, <2>6 DEF FIInv, FetchInv, FetchExplained, vars, config, fconfig
  <2>8. \A e \in Wanted \ left' : Held(e)'
    BY <2>1, <2>3, <2>4, <2>5 DEF FIInv, FetchInv
  <2>9. \A e \in Wanted \ pairs : Held(e)'
    BY <2>1, <2>3, <2>4 DEF FIInv, FetchInv, Running
  <2>10. FetchInv'
    BY <2>1, <2>3, <2>8, <2>9 DEF FIInv, FetchInv, Running, vars, remote, config, fconfig
  <2> QED
    BY <2>7, <2>10
<1>4. CASE EndMoveIn
  <2>1. /\ fpc = "move" /\ left = {} /\ fpc' = "check"
        /\ UNCHANGED <<vars, rotten, cache, snap, pairs, left, tarball, evicted, fconfig>>
    BY <1>4 DEF EndMoveIn
  <2>2. TypeOK' /\ FTypeOK'
    BY <1>0, <2>1 DEF FTypeOK, TypeOK, vars, remote, config
  <2>3. FetchExplained'
    BY <2>1, <2>2 DEF FIInv, FetchExplained, vars, config, fconfig
  <2>4. FetchInv'
    BY <2>1 DEF FIInv, FetchInv, Running, Wanted, Held, Cached, vars, remote
  <2> QED
    BY <2>3, <2>4
<1>5. CASE Epilogue
  <2>1. /\ fpc = "check" /\ UNCHANGED cache
        /\ Exit(IF \A d \in pairs : Cached(d) THEN "fetched" ELSE "missing")
    BY <1>5 DEF Epilogue
  <2>2. pairs \subseteq Wanted /\ \A d \in Wanted : Held(d)
    BY <2>1 DEF FIInv, FetchInv, Running
  <2>3. CASE \A d \in pairs : Cached(d)
    BY <2>1, <2>2, <2>3, ExitStep DEF FEnded
  <2>4. CASE ~\A d \in pairs : Cached(d)
    <3>1. evicted # {}
      BY <2>2, <2>4 DEF Held
    <3> QED
      BY <2>1, <2>4, <3>1, ExitStep DEF FEnded
  <2> QED
    BY <2>3, <2>4
<1>6. CASE StopFetch
  BY <1>6, ExitStep DEF StopFetch, FEnded
<1> QED
  BY <1>1, <1>2, <1>3, <1>4, <1>5, <1>6

\* What others do: a purge is remembered, rot stays on the remote, and the push
\* scripts take nothing away.
LEMMA OthersStep ==
    ASSUME FIInv, Push \/ \E d \in Data : Evict(d) \/ Rot(d)
    PROVE  FetchExplained' /\ FetchInv'
<1>0. FTypeOK /\ TypeOK /\ Wanted \subseteq Data
  BY WantedData DEF FIInv, FetchExplained, FTypeOK
<1>1. CASE Push
  <2>1. /\ Next /\ rotten' \subseteq rotten
        /\ UNCHANGED <<cache, fpc, snap, pairs, left, tarball, evicted, fknob, sendall>>
    BY <1>1 DEF Push, fetcher, fconfig
  <2>2. /\ TypeOK' /\ objects \subseteq objects' /\ manifests \subseteq manifests'
        /\ failures \subseteq failures' /\ UNCHANGED <<caps, want>>
    BY <1>0, <2>1, RemoteGrows DEF config
  <2>3. FTypeOK'
    BY <1>0, <2>1, <2>2 DEF FTypeOK
  <2>4. (Masked => Masked') /\ Wanted' = Wanted /\ \A d : Held(d)' = Held(d)
    BY <2>1, <2>2 DEF Masked, Wanted, Held, Cached
  <2>5. FetchExplained'
    BY <2>1, <2>2, <2>3, <2>4 DEF FIInv, FetchExplained, Masked, Held
  <2>6. FetchInv'
    BY <2>1, <2>2, <2>4 DEF FIInv, FetchInv
  <2> QED
    BY <2>5, <2>6
<1>2. ASSUME NEW d \in Data, Evict(d) PROVE FetchExplained' /\ FetchInv'
  <2>1. /\ cache' = [cache EXCEPT ![d] = "absent"] /\ evicted' = evicted \cup {d}
        /\ UNCHANGED <<vars, rotten, fpc, snap, pairs, left, tarball, fconfig>>
        /\ fpc \notin FEnded
    BY <1>2 DEF Evict
  <2>2. Wanted' = Wanted /\ \A e \in Data : Held(e) => Held(e)'
    BY <1>0, <2>1 DEF Wanted, Held, Cached, FTypeOK
  <2>3. TypeOK' /\ FTypeOK'
    BY <1>0, <2>1 DEF FTypeOK, TypeOK, Bytes, vars, remote, config
  <2>4. FetchExplained'
    BY <1>0, <2>1, <2>3 DEF FIInv, FetchExplained, FTypeOK, FEnded, vars, config, fconfig
  <2>5. FetchInv'
    BY <1>0, <2>1, <2>2 DEF FIInv, FetchInv, Running, vars, remote, config, fconfig
  <2> QED
    BY <2>4, <2>5
<1>3. ASSUME NEW d \in Data, Rot(d) PROVE FetchExplained' /\ FetchInv'
  <2>1. rotten' = {d} /\ d \in objects /\ UNCHANGED <<vars, fetcher, fconfig>>
    BY <1>3 DEF Rot
  <2>2. TypeOK' /\ FTypeOK'
    BY <1>0, <2>1 DEF FTypeOK, TypeOK, vars, remote, config, fetcher
  <2>3. FetchExplained'
    BY <2>1, <2>2 DEF FIInv, FetchExplained, Wanted, Cached, vars, config, fconfig, fetcher
  <2>4. FetchInv'
    BY <2>1 DEF FIInv, FetchInv, Wanted, Held, Cached, vars, remote, config, fconfig, fetcher
  <2> QED
    BY <2>3, <2>4
<1> QED
  BY <1>1, <1>2, <1>3

LEMMA FIInvNext ==
    ASSUME FIInv, [FNext]_fvars PROVE FIInv'
<1>1. CASE FNext
  <2>1. IInv'
    BY <1>1, FetchBesidePush, IInvNext DEF FIInv
  <2>2. FetchExplained' /\ FetchInv'
    BY <1>1, EmitStep, DispatchStep, StreamStep, PlainStep, OthersStep DEF FNext
  <2> QED
    BY <2>1, <2>2 DEF FIInv
<1>2. CASE UNCHANGED fvars
  <2>1. IInv'
    BY <1>2, IInvNext DEF FIInv, fvars
  <2>2. FetchExplained'
    BY <1>2 DEF FIInv, FetchExplained, FTypeOK, TypeOK, Wanted, Cached, fvars, fetcher, fconfig,
                vars, remote, config
  <2>3. FetchInv'
    BY <1>2 DEF FIInv, FetchInv, Wanted, Held, Cached, fvars, fetcher, fconfig, vars, remote, config
  <2> QED
    BY <2>1, <2>2, <2>3 DEF FIInv
<1> QED
  BY <1>1, <1>2

LEMMA FInvariance == FSpec => []FIInv
BY FInitInvariant, FIInvNext, PTL DEF FSpec

\* Beside a fetch, evictions and rot, the push scripts are still just the push
\* scripts, so the two results above hold of the composition too.
THEOREM FetchLeavesPush == FSpec => Spec
<1>1. FInit => Init
  BY DEF FInit
<1>2. [FNext]_fvars => [Next]_vars
  BY FetchBesidePush DEF fvars
<1> QED
  BY <1>1, <1>2, PTL DEF FSpec, Spec

\* What a fetch script reports is what it found: success means every object of
\* the snapshot is cached but what was purged meanwhile, a missing object is
\* one whose failed move a push of that snapshot masked, or a purge's, and
\* rotten bytes never come through the accelerated path.
THEOREM FetchIsExplained == FSpec => []FetchExplained
<1>1. FIInv => FetchExplained
  BY DEF FIInv
<1> QED
  BY <1>1, FInvariance, PTL

-----------------------------------------------------------------------------
(* The sftp push scripts.                                                  *)

\* An object is covered when it is filed, or some script has taken it away.
\* This is what a script can rely on: nobody can promise the object itself,
\* since another script's `-rm` may come at any time.
Covered(d) == d \in objects \/ \E q \in Pusher : st[q][d] \in {"removed", "lost"}

\* A script that uploads skips only what is covered, and what it has renamed
\* is; one that has come to its manifest has covered everything.
SftpScriptInv(p) ==
    /\ \A d \in Data : st[p][d] \in {"renamed", "filed"} => Covered(d)
    /\ pc[p] = "upload" => \A d \in ObjectsOf(want[p]) : chunk[p][d] = 0 => Covered(d)
    /\ pc[p] \in {"manifest", "mput", "mremoved", "mrenamed"} =>
          \A d \in ObjectsOf(want[p]) : Covered(d)

\* The inductive invariant of the sftp scripts.
SftpIInv ==
    /\ GapIsARename
    /\ \A p \in Pusher : SftpScriptInv(p)


\* Nothing is filed or removed before the scripts start.
LEMMA SftpInitInvariant == SftpInit => SftpIInv
<1> SUFFICES ASSUME SftpInit PROVE SftpIInv
  OBVIOUS
<1>1. chunk \in [Pusher -> [Data -> 0..Jobs]]
  BY JobsAssumption DEF SftpInit
<1>2. SftpTypeOK
  BY <1>1 DEF SftpInit, SftpTypeOK, SftpStage
<1> QED
  BY <1>2 DEF SftpInit, SftpIInv, GapIsARename, SftpScriptInv

\* A step keeps the types, and a script's snapshot.
LEMMA SftpTypeNext ==
    ASSUME SftpTypeOK, SftpNext PROVE SftpTypeOK' /\ want' = want
<1> USE DEF SftpTypeOK, Goto, Place, remote
<1> DEFINE Place1 == {"idle", "put", "removed", "renamed", "filed"} \cup Broken
<1>0. ASSUME NEW p \in Pusher, NEW d \in Data, NEW s \in Place1, Place(p, d, s)
      PROVE  st' \in [Pusher -> [Data -> Place1]]
  BY <1>0
<1>1. ASSUME NEW p \in Pusher, Probe(p) \/ PutManifest(p) \/ ChmodManifest(p)
      PROVE  SftpTypeOK' /\ want' = want
  BY <1>1 DEF Probe, PutManifest, ChmodManifest, SftpStage, Ended
<1>2. ASSUME NEW p \in Pusher, WaitBatches(p) \/ SftpStop(p) PROVE SftpTypeOK' /\ want' = want
  BY <1>2 DEF WaitBatches, SftpStop, SftpStage, Ended
<1>3. ASSUME NEW p \in Pusher, RemoveManifest(p) \/ RenameManifest(p) PROVE SftpTypeOK' /\ want' = want
  BY <1>3 DEF RemoveManifest, RenameManifest, SftpStage, Ended
<1>4. ASSUME NEW p \in Pusher, ListObjects(p) PROVE SftpTypeOK' /\ want' = want
  BY <1>4 DEF ListObjects, SftpStage
<1>5. ASSUME NEW p \in Pusher, NEW d \in Data, Put(p, d) \/ Remove(p, d) \/ Chmod(p, d)
      PROVE  SftpTypeOK' /\ want' = want
  <2>1. PICK s \in Place1 : Place(p, d, s)
    BY <1>5 DEF Put, Remove, Chmod, Broken
  <2> QED
    BY <1>0, <1>5, <2>1 DEF Put, Remove, Chmod
<1>6. ASSUME NEW p \in Pusher, NEW d \in Data, Rename(p, d) \/ RequestFails(p, d)
      PROVE  SftpTypeOK' /\ want' = want
  <2>1. PICK s \in Place1 : Place(p, d, s)
    BY <1>6 DEF Rename, RequestFails, Broken
  <2> QED
    BY <1>0, <1>6, <2>1 DEF Rename, RequestFails
<1> QED
  BY <1>1, <1>2, <1>3, <1>4, <1>5, <1>6 DEF SftpNext, Step

\* What is covered stays covered: a `-rm` is followed by a rename or by a
\* failure that is remembered.
LEMMA CoverStays ==
    ASSUME SftpTypeOK, SftpNext, NEW e \in Data, Covered(e) PROVE Covered(e)'
<1> USE DEF Covered, SftpTypeOK, Place, remote
<1>1. ASSUME NEW p \in Pusher, NEW d \in Data, Put(p, d) PROVE Covered(e)'
  BY <1>1 DEF Put
<1>2. ASSUME NEW p \in Pusher, NEW d \in Data, Remove(p, d) PROVE Covered(e)'
  BY <1>2 DEF Remove
<1>3. ASSUME NEW p \in Pusher, NEW d \in Data, Rename(p, d) PROVE Covered(e)'
  BY <1>3 DEF Rename
<1>4. ASSUME NEW p \in Pusher, NEW d \in Data, Chmod(p, d) PROVE Covered(e)'
  BY <1>4 DEF Chmod
<1>5. ASSUME NEW p \in Pusher, NEW d \in Data, RequestFails(p, d) PROVE Covered(e)'
  BY <1>5 DEF RequestFails
<1>6. ASSUME NEW p \in Pusher,
             \/ Probe(p) \/ ListObjects(p) \/ WaitBatches(p) \/ PutManifest(p) \/ RemoveManifest(p)
             \/ RenameManifest(p) \/ ChmodManifest(p) \/ SftpStop(p)
      PROVE  UNCHANGED <<objects, st>>
  BY <1>6 DEF Probe, ListObjects, WaitBatches, PutManifest, RemoveManifest, RenameManifest,
              ChmodManifest, SftpStop
<1> QED
  BY <1>1, <1>2, <1>3, <1>4, <1>5, <1>6 DEF SftpNext, Step

\* A script whose batches have all ended well has covered its snapshot.
LEMMA BatchesCover ==
    ASSUME SftpIInv, NEW p \in Pusher, WaitBatches(p), \A d \in Data : st[p][d] \notin Broken
    PROVE  \A d \in ObjectsOf(want[p]) : Covered(d)
<1> SUFFICES ASSUME NEW d \in ObjectsOf(want[p]) PROVE Covered(d)
  OBVIOUS
<1>0. d \in Data /\ chunk[p][d] \in 0..Jobs /\ SftpScriptInv(p) /\ pc[p] = "upload"
  BY ObjectsOfData DEF SftpIInv, GapIsARename, SftpTypeOK, WaitBatches
<1>1. CASE chunk[p][d] = 0
  BY <1>0, <1>1 DEF SftpScriptInv
<1>2. CASE chunk[p][d] # 0
  <2>1. BatchEnded(p, chunk[p][d])
    BY <1>0, <1>2, JobsAssumption DEF WaitBatches
  <2>2. st[p][d] = "filed"
    BY <1>0, <2>1 DEF BatchEnded
  <2> QED
    BY <1>0, <2>2 DEF SftpScriptInv
<1> QED
  BY <1>1, <1>2

\* What each script relies on survives its own steps and the others'.
LEMMA SftpScriptNext ==
    ASSUME SftpIInv, SftpNext, NEW p \in Pusher PROVE SftpScriptInv(p)'
<1>0. /\ SftpTypeOK /\ SftpTypeOK' /\ want' = want /\ SftpScriptInv(p)
      /\ ObjectsOf(want[p])' = ObjectsOf(want[p]) /\ ObjectsOf(want[p]) \subseteq Data
      /\ \A d \in Data : Covered(d) => Covered(d)'
  BY SftpTypeNext, CoverStays, ObjectsOfData DEF SftpIInv, GapIsARename, SftpTypeOK, ObjectsOf
<1>1. ASSUME NEW d \in Data, st'[p][d] \in {"renamed", "filed"} PROVE Covered(d)'
  <2>1. CASE st[p][d] \in {"renamed", "filed"}
    BY <1>0, <2>1 DEF SftpScriptInv
  <2>2. CASE st[p][d] \notin {"renamed", "filed"}
    <3>1. Rename(p, d)
      BY <1>0, <1>1, <2>2
         DEF SftpNext, Step, Probe, ListObjects, Put, Remove, Rename, Chmod, WaitBatches, PutManifest,
             RemoveManifest, RenameManifest, ChmodManifest, SftpStop, RequestFails, Place, SftpTypeOK
    <3> QED
      BY <1>0, <1>1, <3>1 DEF Rename, Place, SftpTypeOK, Covered
  <2> QED
    BY <2>1, <2>2
<1>2. ASSUME pc'[p] = "upload", NEW d \in ObjectsOf(want[p]), chunk'[p][d] = 0 PROVE Covered(d)'
  <2>1. CASE ListObjects(p)
    <3>1. PICK upload \in Uploads(p), spread \in [Data -> 0..Jobs] :
             /\ \A e \in Data : spread[e] = 0 <=> e \notin upload
             /\ chunk' = [chunk EXCEPT ![p] = spread]
      BY <2>1 DEF ListObjects
    <3>2. d \notin upload
      BY <1>0, <1>2, <3>1 DEF SftpTypeOK
    <3>3. upload \in {ObjectsOf(want[p]) \ objects, ObjectsOf(want[p])}
      BY <3>1 DEF Uploads
    <3>4. d \in objects
      BY <1>2, <3>2, <3>3
    <3>5. UNCHANGED objects
      BY <2>1 DEF ListObjects, remote
    <3> QED
      BY <3>4, <3>5 DEF Covered
  <2>2. CASE ~ListObjects(p)
    <3>1. ASSUME NEW q \in Pusher, ListObjects(q)
          PROVE  pc[p] = "upload" /\ chunk'[p] = chunk[p]
      <4>1. q # p
        BY <2>2, <3>1
      <4>2. PICK spread : chunk' = [chunk EXCEPT ![q] = spread]
        BY <3>1 DEF ListObjects
      <4> QED
        BY <1>0, <1>2, <3>1, <4>1, <4>2 DEF ListObjects, Goto, SftpTypeOK
    <3>2. ASSUME \A q \in Pusher : ~ListObjects(q)
          PROVE  pc[p] = "upload" /\ chunk'[p] = chunk[p]
      <4>1. UNCHANGED chunk
        BY <3>2 DEF SftpNext, Step, Probe, Put, Remove, Rename, Chmod, WaitBatches, PutManifest,
             RemoveManifest, RenameManifest, ChmodManifest, SftpStop, RequestFails
      <4>2. \/ pc'[p] = pc[p]
            \/ pc'[p] \in {"done", "list", "manifest", "mput", "mremoved", "mrenamed", "failed"}
        BY <1>0, <3>2 DEF SftpNext, Step, Probe, Put, Remove, Rename, Chmod, WaitBatches, PutManifest,
             RemoveManifest, RenameManifest, ChmodManifest, SftpStop, RequestFails, Goto, SftpTypeOK
      <4> QED
        BY <1>2, <4>1, <4>2
    <3> QED
      BY <1>0, <1>2, <3>1, <3>2 DEF SftpScriptInv
  <2> QED
    BY <2>1, <2>2
<1>3. ASSUME pc'[p] \in {"manifest", "mput", "mremoved", "mrenamed"}, NEW d \in ObjectsOf(want[p])
      PROVE  Covered(d)'
  <2>1. CASE WaitBatches(p)
    <3>1. \A e \in Data : st[p][e] \notin Broken
      BY <1>0, <1>3, <2>1 DEF WaitBatches, Goto, SftpTypeOK
    <3> QED
      BY <1>0, <1>3, <2>1, <3>1, BatchesCover
  <2>2. CASE ~WaitBatches(p)
    <3>1. pc[p] \in {"manifest", "mput", "mremoved", "mrenamed"}
      BY <1>0, <1>3, <2>2
         DEF SftpNext, Step, Probe, ListObjects, Put, Remove, Rename, Chmod, WaitBatches, PutManifest,
             RemoveManifest, RenameManifest, ChmodManifest, SftpStop, RequestFails, Goto, SftpTypeOK
    <3> QED
      BY <1>0, <1>3, <3>1 DEF SftpScriptInv
  <2> QED
    BY <2>1, <2>2
<1> QED
  BY <1>0, <1>1, <1>2, <1>3 DEF SftpScriptInv

\* A manifest is renamed into place by a script that has covered it.
LEMMA ManifestsCovered ==
    ASSUME SftpIInv, SftpNext, NEW m \in manifests', NEW d \in ObjectsOf(m) PROVE Covered(d)'
<1>0. SftpTypeOK /\ m \in Snapshot /\ d \in Data
  BY SftpTypeNext, ObjectsOfData DEF SftpIInv, GapIsARename, SftpTypeOK
<1>1. CASE m \in manifests
  BY <1>0, <1>1, CoverStays DEF SftpIInv, GapIsARename, Covered
<1>2. CASE m \notin manifests
  <2>1. PICK p \in Pusher : pc[p] = "mremoved" /\ want[p] = m
    BY <1>2 DEF SftpNext, Step, Probe, ListObjects, Put, Remove, Rename, Chmod, WaitBatches,
             PutManifest, RemoveManifest, RenameManifest, ChmodManifest, SftpStop, RequestFails, remote
  <2> QED
    BY <1>0, <2>1, CoverStays DEF SftpIInv, SftpScriptInv
<1> QED
  BY <1>1, <1>2

\* Every step keeps the invariant.
LEMMA SftpIInvNext ==
    ASSUME SftpIInv, [SftpNext]_sftpVars PROVE SftpIInv'
<1>1. CASE SftpNext
  <2>1. SftpTypeOK'
    BY <1>1, SftpTypeNext DEF SftpIInv, GapIsARename
  <2>2. GapIsARename'
    BY <1>1, <2>1, ManifestsCovered DEF GapIsARename, Covered, ObjectsOf
  <2> QED
    BY <1>1, <2>2, SftpScriptNext DEF SftpIInv
<1>2. CASE UNCHANGED sftpVars
  BY <1>2 DEF SftpIInv, GapIsARename, SftpTypeOK, SftpScriptInv, Covered, ObjectsOf, sftpVars, remote
<1> QED
  BY <1>1, <1>2

\* A filed manifest lacks an object only because some script has removed that
\* object (the tolerated `-rm`) and has not renamed its own upload into place:
\* for any number of scripts and batches, on a server with posix-rename or
\* without, and though a listing with an odd line makes a script upload all.
THEOREM SftpGapIsARename == SftpSpec => []GapIsARename
<1>1. SftpIInv => GapIsARename
  BY DEF SftpIInv
<1> QED
  BY <1>1, SftpInitInvariant, SftpIInvNext, PTL DEF SftpSpec

=============================================================================
