---------------------------- MODULE CommandsProofs ----------------------------
(***************************************************************************)
(* Proofs about Commands: for any commands, processes, snapshots and       *)
(* bounds, a manifest is filed after its objects, the user's files survive *)
(* a swap, a success of fetch, pull, checkout and verify-cache means what  *)
(* it says, and the catalog they log to tells one history of a location.   *)
(***************************************************************************)
EXTENDS Commands, TLAPS, SequenceTheorems, FiniteSetTheorems, WellFoundedInduction

Entries == {".objects", ".manifests", "catalog"}
Questions == [about : {"list", "read", "stat"}, id : Snap, object : Data \union {None}]
Work == Data \union DestPath \union Snap \union Entries \union Questions

\* The types of what the processes share.
SharedTypes ==
  /\ cobj \in [Data -> Data \union {Bad, None}] /\ cman \subseteq Snap /\ purged \subseteq Data
  /\ sobj \in [Side -> [Data -> Data \union {Bad, None}]] /\ sman \subseteq Snap
  /\ dest \in [DestPath -> Bytes] /\ links \subseteq DestPath
  /\ aside \in [Proc -> [files : [DestPath -> Bytes], links : SUBSET DestPath]]
  /\ adrift \subseteq [DestPath -> Bytes]
  /\ found \in [DestPath -> Bytes]
  /\ \A x \in links : dest[x] \in Data
  /\ \A p \in Proc : \A x \in aside[p].links : aside[p].files[x] \in Data
  /\ handle \in [Proc -> {"closed", "open", "orphan"}]

\* The types of what a process keeps for itself.
LocalTypes ==
  /\ queue \in [Proc -> Seq(Command)]
  /\ pc = [p \in Proc |-> pc[p]]
  /\ todo \in [Proc -> SUBSET Work]
  /\ flag \in [Proc -> BOOLEAN]
  /\ hand = [p \in Proc |-> hand[p]]
  /\ touched \in [Proc -> SUBSET (Data \union Snap)]
  /\ status \in [Proc -> {"ok", "failed"}]

\* The cache holds objects under their own addresses, sound or not.
CacheInv ==
  /\ \A d \in Data : cobj[d] \in {d, Bad, None}
  /\ \A s \in cman : \A d \in ObjectsOf(s) : cobj[d] = None => d \in purged

\* So does the store, where only an external script writes what it has not
\* verified; a snapshot it lists has all its objects on one side.
StoreInv ==
  /\ \A sd \in Side, d \in Data : sobj[sd][d] \in {d, None} \/ (shimmed /\ sobj[sd][d] = Bad)
  /\ \A s \in sman : \E sd \in Side : \A d \in ObjectsOf(s) : sobj[sd][d] # None

\* The user's own files are at paths no snapshot has.
OwnInv ==
  /\ OwnFilesSurvive
  /\ \A x \in DestPath : found[x] = Own => \A s \in Snap : x \notin DOMAIN Tree[s]

(***************************************************************************)
(* The invariant of a process p that is at l, with work left in its loop,  *)
(* file in hand and the flag f.                                            *)
(***************************************************************************)

\* Where a command may be.
May(c, l) ==
  \/ l \in {"cpush", "ccopy"} /\ c.cmd \in {"stage", "fetch", "pull"}
  \/ l \in {"cpush", "ccopy"} /\ c.cmd = "push" /\ c.store = "external"
  \/ l \in {"spush", "scopy", "scratch", "xpush", "xsend"} /\ c.cmd \in {"push", "push_id"}
  \/ l \in {"catalog", "log", "head", "insert", "close"} /\ c.cmd \in {"stage", "push", "push_id"}
  \/ l \in {"clear", "replay"} /\ c.cmd = "rebuild"
  \/ l \in {"get", "heal", "unlink", "xfetch"} /\ c.cmd \in {"fetch", "pull"}
  \/ l = "validate" /\ c.api /\ c.cmd \in {"fetch", "pull", "checkout"}
  \/ l = "checkout" /\ ~c.api /\ c.cmd = "pull"
  \/ /\ l \in {"collect", "copy", "link", "prune"} /\ c.cmd \in {"pull", "checkout"} /\ ~c.dryrun
     /\ l \in {"collect", "copy"} => ~c.linked
     /\ l = "link" => c.linked
  \/ l = "scan" /\ c.cmd = "verify_cache"
  \/ l = "gaps" /\ c.cmd = "verify_cache" /\ ~c.api
  \/ l = "flush" /\ c.cmd = "flush_cache"
  \/ l \in {"swap", "swapin", "dropold"} /\ c.cmd = "swap"

Kind(p, l) == l = "start" \/ (queue[p] # <<>> /\ May(cmd(p), l))

\* What its loop has to do, and what it has in hand.
Doing(p, l, work, file) ==
  /\ l \in {"ccopy", "scopy", "xsend", "xfetch"} => work \subseteq ObjectsOf(snap(p))
  /\ l \in {"copy", "link"} => work \subseteq DOMAIN Tree[snap(p)]
  /\ l = "copy" /\ file # Empty => file.name \in work /\ file.bytes \in Data \union {Bad}
  /\ l = "prune" =>
       /\ "prune" \in mirrored
       /\ \A x \in work : x \in DestPath \ Protected /\ x \notin DOMAIN Tree[snap(p)]
  /\ l = "scan" => work \subseteq Data /\ (file # Empty => file.name \in work)
  /\ l \notin {"swapin", "dropold"} => aside[p] = NoSwap
  /\ l = "dropold" => "swap" \in mirrored

\* What it has copied is there, or others have removed it since.
Filing(p, l, work) ==
  /\ l \in {"ccopy", "xfetch"} =>
       \A d \in ObjectsOf(snap(p)) \ work : cobj[d] = None => d \in purged /\ d \in touched[p]
  /\ l = "scopy" => \A d \in ObjectsOf(snap(p)) \ work : sobj[side(p)][d] # None
  /\ l = "xsend" => \A d \in ObjectsOf(snap(p)) \ work : sobj["main"][d] # None

\* A fetch goes to the cache with the manifest gone from it, or others have
\* filed it since; after that the cache has the snapshot, but for what others
\* have taken.
Cached(p) ==
  \/ snap(p) \in touched[p]
  \/ snap(p) \in cman /\ missing_cache_objects(snap(p)) \subseteq touched[p]

Fetching(p, l, f) ==
  l # "start" /\ Is(p, {"fetch", "pull"}) /\ ~cmd(p).dryrun =>
    /\ (l = "get" /\ ~f) \/ l = "cpush" =>
         cmd(p).api \/ snap(p) \notin cman \/ snap(p) \in touched[p]
    /\ l \in {"checkout", "collect", "copy", "link", "prune"} => Cached(p)

\* A manifest that verify-cache has to look at, and that nobody has filed or
\* removed since it began, is still to be listed or read, or what is missing of
\* its objects is still to be looked for.
Checked(p, work, f) ==
  /\ cmd(p).scoped => \/ Reading(snap(p)) \in work
                      \/ snap(p) \in cman \union touched[p]
  /\ \A s \in Snap : s \in cman /\ s \notin touched[p] =>
       \/ f
       \/ cmd(p).scoped /\ s # snap(p)
       \/ Listing(s) \in work
       \/ Reading(s) \in work
       \/ \A d \in ObjectsOf(s) : cobj[d] = None => d \in touched[p] \/ Stating(s, d) \in work

\* A scan has met what is corrupt behind it.
Scanning(p, l, work, file, f) ==
  /\ l \in {"scan", "gaps"} =>
       \A d \in Data : cobj[d] = Bad => (l = "scan" /\ d \in work) \/ d \in touched[p] \/ f
  /\ l = "scan" => (file # Empty => f)
  /\ l = "gaps" => Checked(p, work, f)

\* A file is in hand, and the catalog is open, only where TypeOK lets them be.
Holding(p, l, file) ==
  /\ file # Empty => l \in {"copy", "scan", "flush", "insert", "replay"}
  /\ handle[p] # "closed" => l \in Logging

ProcOK(p, l, work, file, f) ==
  /\ Kind(p, l) /\ Doing(p, l, work, file) /\ Filing(p, l, work)
  /\ Fetching(p, l, f) /\ Scanning(p, l, work, file, f) /\ Holding(p, l, file)

ProcInv(p) == ProcOK(p, pc[p], todo[p], hand[p], flag[p])

\* What a checkout has materialized so far.
Got(p, x) == Content(x) = Tree[snap(p)][x] \/ Tree[snap(p)][x] \in touched[p]
Tied(p, x) == x \in links /\ dest[x] = Tree[snap(p)][x]

Materializing(p) ==
  /\ pc[p] = "copy" =>
       /\ \A x \in DOMAIN Tree[snap(p)] \ todo[p] : Got(p, x)
       /\ hand[p] # Empty =>
            LET d == Tree[snap(p)][hand[p].name]
            IN  hand[p].bytes = d \/ cobj[d] = Bad \/ d \in touched[p]
  /\ pc[p] = "link" => \A x \in DOMAIN Tree[snap(p)] \ todo[p] : Tied(p, x)
  /\ pc[p] = "prune" =>
       /\ \A x \in DOMAIN Tree[snap(p)] : IF cmd(p).linked THEN Tied(p, x) ELSE Got(p, x)
       /\ \A x \in DestPath \ DOMAIN Tree[snap(p)] :
            dest[x] = None \/ x \in Protected \/ x \in todo[p]

\* The destination of a checkout is written by one process.
Alone ==
  \A p, q \in Proc : \A i \in DOMAIN queue[p], j \in DOMAIN queue[q] :
    queue[p][i].cmd # "swap" /\ Writes(queue[p][i]) /\ Writes(queue[q][j]) => p = q

IInv ==
  /\ SharedTypes /\ LocalTypes /\ CacheInv /\ StoreInv /\ OwnInv
  /\ \A p \in Proc : ProcInv(p)

ExclusiveInv == Alone /\ \A p \in Proc : Materializing(p)

-----------------------------------------------------------------------------
(* Steps of one process, as the others see them.                           *)

LEMMA ObjectsAreData == \A s \in Snap : ObjectsOf(s) \subseteq Data
  BY CommandsAssumption DEF ObjectsOf

\* What a process is asked to do is a command, of a snapshot there is.
LEMMA Asked ==
  ASSUME LocalTypes, NEW p \in Proc, queue[p] # <<>>
  PROVE  cmd(p) \in Command /\ snap(p) \in Snap /\ ObjectsOf(snap(p)) \subseteq Data
<1>1. queue[p] \in Seq(Command)
  BY DEF LocalTypes
<1>2. cmd(p) \in Command
  BY <1>1 DEF cmd
<1> QED BY <1>2, ObjectsAreData DEF snap, Command

SameFor(q, hit) ==
  /\ queue'[q] = queue[q] /\ pc'[q] = pc[q] /\ todo'[q] = todo[q]
  /\ flag'[q] = flag[q] /\ hand'[q] = hand[q]
  /\ pc[q] # "start" => touched'[q] = touched[q] \union hit

Left(p, outcome, hit) ==
  /\ LocalTypes'
  /\ \A q \in Proc \ {p} : SameFor(q, hit)
  /\ queue'[p] = Tail(queue[p]) /\ pc'[p] = "start" /\ hand'[p] = Empty
  /\ status'[p] = outcome

Moved(p, label, work, file, hit) ==
  /\ LocalTypes'
  /\ \A q \in Proc \ {p} : SameFor(q, hit)
  /\ queue' = queue /\ pc'[p] = label /\ todo'[p] = work /\ hand'[p] = file
  /\ flag'[p] = flag[p] /\ touched'[p] = touched[p]

\* A command that ends leaves its process as it was before the first.
LEMMA LeaveStep ==
  ASSUME LocalTypes, NEW p \in Proc, queue[p] # <<>>, NEW outcome \in {"ok", "failed"},
         NEW hit \in SUBSET (Data \union Snap), Leave(p, outcome, hit)
  PROVE  Left(p, outcome, hit)
<1>1. queue' \in [Proc -> Seq(Command)]
  BY DEF LocalTypes, Leave
<1>2. pc' = [q \in Proc |-> pc'[q]] /\ todo' \in [Proc -> SUBSET Work]
  BY DEF LocalTypes, Leave
<1>8. status' \in [Proc -> {"ok", "failed"}]
  BY DEF LocalTypes, Leave
<1>7. flag' \in [Proc -> BOOLEAN]
  BY DEF LocalTypes, Leave
<1>3. hand' = [q \in Proc |-> hand'[q]]
  BY DEF LocalTypes, Leave
<1>4. touched' \in [Proc -> SUBSET (Data \union Snap)]
  BY DEF LocalTypes, Leave, Touch
<1>5. \A q \in Proc \ {p} : SameFor(q, hit)
  BY DEF LocalTypes, Leave, Touch, SameFor
<1>6. /\ queue'[p] = Tail(queue[p]) /\ pc'[p] = "start" /\ hand'[p] = Empty
      /\ status'[p] = outcome
  BY DEF LocalTypes, Leave
<1> QED BY <1>1, <1>2, <1>3, <1>4, <1>5, <1>6, <1>7, <1>8 DEF LocalTypes, Left

\* A step within a command.
LEMMA MoveStep ==
  ASSUME LocalTypes, NEW p \in Proc, NEW label, NEW work \in SUBSET Work,
         NEW file, NEW hit \in SUBSET (Data \union Snap), Move(p, label, work, file, hit)
  PROVE  Moved(p, label, work, file, hit)
<1>1. /\ pc' = [q \in Proc |-> pc'[q]] /\ todo' \in [Proc -> SUBSET Work]
      /\ flag' = flag /\ status' = status /\ queue' = queue
  BY DEF LocalTypes, Move
<1>2. hand' = [q \in Proc |-> hand'[q]]
  BY DEF LocalTypes, Move
<1>3. touched' \in [Proc -> SUBSET (Data \union Snap)] /\ touched'[p] = touched[p]
  BY DEF LocalTypes, Move, Touch
<1>4. \A q \in Proc \ {p} : SameFor(q, hit)
  BY DEF LocalTypes, Move, Touch, SameFor
<1>5. pc'[p] = label /\ todo'[p] = work /\ hand'[p] = file
  BY DEF LocalTypes, Move
<1> QED BY <1>1, <1>2, <1>3, <1>4, <1>5 DEF LocalTypes, Moved

-----------------------------------------------------------------------------
(* What a step may do to what is shared, so that the others' invariants    *)
(* hold: an object changes only where hit says so, or is filed where there *)
(* was none; what is lost is on record; the store only grows.              *)

CacheKeeps(hit) ==
  /\ \A d \in Data : d \in hit \/ cobj'[d] = cobj[d] \/ (cobj[d] = None /\ cobj'[d] = d)
  /\ \A d \in Data : cobj'[d] = None /\ (cobj[d] # None \/ d \in purged) => d \in purged'
  /\ \A s \in Snap : s \in hit \/ (s \in cman' <=> s \in cman)

StoreKeeps == \A sd \in Side, d \in Data : sobj[sd][d] # None => sobj'[sd][d] # None

OthersKeep(p) ==
  /\ mirrored \subseteq mirrored'
  /\ \A q \in Proc \ {p} : /\ aside'[q] = aside[q]
                           /\ handle'[q] = "closed" <=> handle[q] = "closed"

\* A process keeps its invariant through a step of another.
LEMMA OtherProc ==
  ASSUME IInv, NEW p, NEW q \in Proc, q # p, NEW hit \in SUBSET (Data \union Snap),
         SameFor(q, hit), CacheKeeps(hit), StoreKeeps, OthersKeep(p)
  PROVE  ProcInv(q)'
<1> USE CommandsAssumption
<1>1. ProcInv(q)
  BY DEF IInv
<1>0. pc[q] # "start" => queue[q] # <<>> /\ ObjectsOf(snap(q)) \subseteq Data /\ snap(q) \in Snap
  BY <1>1, Asked DEF IInv, ProcInv, ProcOK, Kind, May
<1>2. Kind(q, pc[q])'
  BY <1>1 DEF ProcInv, ProcOK, Kind, SameFor, Is, cmd
<1>s. snap(q)' = snap(q) /\ cmd(q)' = cmd(q)
  BY DEF SameFor, snap, cmd
<1>3. Doing(q, pc[q], todo[q], hand[q])'
  <2>1. /\ pc'[q] = pc[q] /\ todo'[q] = todo[q] /\ hand'[q] = hand[q] /\ aside'[q] = aside[q]
        /\ mirrored \subseteq mirrored'
    BY DEF SameFor, OthersKeep
  <2>2. Doing(q, pc[q], todo[q], hand[q])
    BY <1>1 DEF ProcInv, ProcOK
  <2>3. Tree[snap(q)]' = Tree[snap(q)] /\ ObjectsOf(snap(q))' = ObjectsOf(snap(q))
    BY <1>s DEF ObjectsOf
  <2> QED BY <2>1, <2>2, <2>3, <1>s DEF Doing
<1>4. Filing(q, pc[q], todo[q])'
  BY <1>1, <1>0, <1>s DEF ProcInv, ProcOK, Filing, SameFor, CacheKeeps, StoreKeeps, side, Side
<1>5. Fetching(q, pc[q], flag[q])'
  <2>1. CASE pc[q] = "start"
    BY <2>1 DEF Fetching, SameFor
  <2>2. CASE pc[q] # "start"
    <3>1. Is(q, {"fetch", "pull"})' = Is(q, {"fetch", "pull"})
      BY <1>s DEF Is
    <3>2. touched'[q] = touched[q] \union hit /\ pc'[q] = pc[q] /\ flag'[q] = flag[q]
      BY <2>2 DEF SameFor
    <3>3. ASSUME missing_cache_objects(snap(q)) \subseteq touched[q]
          PROVE  missing_cache_objects(snap(q))' \subseteq touched'[q]
      BY <3>2, <3>3, <1>0, <1>s, <2>2 DEF missing_cache_objects, CacheKeeps
    <3>4. snap(q) \notin hit => (snap(q) \in cman' <=> snap(q) \in cman)
      BY <1>0, <2>2 DEF CacheKeeps
    <3> QED BY <1>1, <1>s, <3>1, <3>2, <3>3, <3>4 DEF ProcInv, ProcOK, Fetching, Cached
  <2> QED BY <2>1, <2>2
<1>6. Scanning(q, pc[q], todo[q], hand[q], flag[q])'
  <2>1. CASE pc[q] # "gaps"
    BY <1>1, <2>1 DEF ProcInv, ProcOK, Scanning, SameFor, CacheKeeps
  <2>2. CASE pc[q] = "gaps"
    <3>1. /\ todo'[q] = todo[q] /\ flag'[q] = flag[q] /\ touched'[q] = touched[q] \union hit
          /\ pc'[q] = pc[q] /\ hand'[q] = hand[q] /\ cmd(q)' = cmd(q) /\ snap(q)' = snap(q)
      BY <1>s, <2>2 DEF SameFor
    <3>2. Checked(q, todo[q], flag[q]) /\ snap(q) \in Snap
      BY <1>0, <1>1, <2>2 DEF ProcInv, ProcOK, Scanning
    <3>3. ASSUME NEW s \in Snap, NEW d \in ObjectsOf(s), cobj'[d] = None
          PROVE  cobj[d] = None \/ d \in hit
      BY <3>3, ObjectsAreData, CommandsAssumption DEF CacheKeeps
    <3>4. Checked(q, todo[q], flag[q])'
      <4>1. cmd(q).scoped => \/ Reading(snap(q)) \in todo[q]
                            \/ snap(q) \in cman' \union touched'[q]
        BY <3>1, <3>2 DEF Checked, CacheKeeps
      <4>2. ASSUME NEW s \in Snap, s \in cman', s \notin touched'[q]
            PROVE  \/ flag[q]
                   \/ cmd(q).scoped /\ s # snap(q)
                   \/ Listing(s) \in todo[q]
                   \/ Reading(s) \in todo[q]
                   \/ \A d \in ObjectsOf(s) :
                        cobj'[d] = None => d \in touched'[q] \/ Stating(s, d) \in todo[q]
        <5>1. s \in cman /\ s \notin touched[q]
          BY <3>1, <4>2 DEF CacheKeeps
        <5> QED BY <3>1, <3>2, <3>3, <5>1 DEF Checked
      <4> QED BY <3>1, <4>1, <4>2 DEF Checked, ObjectsOf, Listing, Reading, Stating
    <3>5. \A d \in Data : cobj'[d] = Bad => d \in touched'[q] \/ flag[q]
      BY <1>1, <2>2, <3>1, CommandsAssumption DEF ProcInv, ProcOK, Scanning, CacheKeeps
    <3> QED BY <2>2, <3>1, <3>4, <3>5 DEF Scanning
  <2> QED BY <2>1, <2>2
<1>7. Holding(q, pc[q], hand[q])'
  BY <1>1 DEF ProcInv, ProcOK, Holding, SameFor, OthersKeep
<1> QED BY <1>2, <1>3, <1>4, <1>5, <1>6, <1>7 DEF ProcInv, ProcOK

\* A step of p keeps the invariant when it keeps what is shared and p's own part.
LEMMA StepKeeps ==
  ASSUME IInv, NEW p \in Proc, NEW hit \in SUBSET (Data \union Snap), LocalTypes',
         \A q \in Proc \ {p} : SameFor(q, hit),
         SharedTypes', CacheInv', StoreInv', OwnInv', ProcInv(p)',
         CacheKeeps(hit), StoreKeeps, OthersKeep(p)
  PROVE  IInv'
<1>1. ASSUME NEW q \in Proc PROVE ProcInv(q)'
  <2>1. CASE q = p
    BY <2>1
  <2>2. CASE q # p
    BY <2>2, OtherProc
  <2> QED BY <2>1, <2>2
<1> QED BY <1>1 DEF IInv

Still == UNCHANGED <<cache, store, dest, links, aside, adrift, found>>

\* A step that leaves the cache, the store and the trees alone.
LEMMA QuietStep ==
  ASSUME IInv, NEW p \in Proc, NEW hit \in SUBSET (Data \union Snap), LocalTypes',
         \A q \in Proc \ {p} : SameFor(q, hit), Still, mirrored \subseteq mirrored',
         handle' \in [Proc -> {"closed", "open", "orphan"}],
         \A q \in Proc \ {p} : handle'[q] = "closed" <=> handle[q] = "closed",
         ProcInv(p)'
  PROVE  IInv'
<1>1. SharedTypes'
  BY DEF IInv, SharedTypes, Still, cache, store
<1>2. CacheInv' /\ StoreInv'
  BY DEF IInv, CacheInv, StoreInv, Still, cache, store
<1>3. OwnInv'
  BY DEF IInv, OwnInv, OwnFilesSurvive, Still
<1>4. CacheKeeps(hit) /\ StoreKeeps /\ OthersKeep(p)
  BY DEF CacheKeeps, StoreKeeps, OthersKeep, Still, cache, store
<1> QED BY <1>1, <1>2, <1>3, <1>4, StepKeeps

\* A process whose command has ended keeps nothing.
LEMMA EndedProc ==
  ASSUME NEW p, NEW outcome, NEW hit, Left(p, outcome, hit),
         handle'[p] = "closed", aside'[p] = NoSwap
  PROVE  LocalTypes' /\ (\A q \in Proc \ {p} : SameFor(q, hit)) /\ ProcInv(p)'
<1>1. /\ LocalTypes'
      /\ \A q \in Proc \ {p} : SameFor(q, hit)
      /\ pc'[p] = "start" /\ hand'[p] = Empty
  BY DEF Left
<1>2. ProcInv(p)'
  BY <1>1 DEF ProcInv, ProcOK, Kind, Doing, Filing, Fetching, Scanning, Holding
<1> QED BY <1>1, <1>2

\* A command that ends where it had neither the catalog nor a swap in hand.
LEMMA QuietEnd ==
  ASSUME IInv, NEW p \in Proc, queue[p] # <<>>, NEW outcome \in {"ok", "failed"},
         NEW hit \in SUBSET (Data \union Snap), Leave(p, outcome, hit),
         pc[p] \notin Logging \union {"swapin", "dropold"}, Still,
         mirrored \subseteq mirrored', UNCHANGED handle
  PROVE  IInv'
<1>1. Left(p, outcome, hit)
  BY LeaveStep DEF IInv
<1>2. handle'[p] = "closed" /\ aside'[p] = NoSwap
  BY DEF IInv, ProcInv, ProcOK, Holding, Doing, Still
<1>3. LocalTypes' /\ (\A q \in Proc \ {p} : SameFor(q, hit)) /\ ProcInv(p)'
  BY <1>1, <1>2, EndedProc
<1> QED BY <1>3, QuietStep DEF IInv, SharedTypes

\* A step within a command that changes nothing shared.
LEMMA QuietMove ==
  ASSUME IInv, NEW p \in Proc, NEW label, NEW work \in SUBSET Work, NEW file,
         NEW hit \in SUBSET (Data \union Snap), Move(p, label, work, file, hit),
         Still, UNCHANGED <<mirrored, handle>>, ProcOK(p, label, work, file, flag[p])
  PROVE  IInv'
<1>0. Moved(p, label, work, file, hit)
  BY MoveStep DEF IInv
<1>1. /\ LocalTypes'
      /\ \A q \in Proc \ {p} : SameFor(q, hit)
      /\ queue' = queue /\ pc'[p] = label /\ todo'[p] = work /\ hand'[p] = file
      /\ flag'[p] = flag[p] /\ touched'[p] = touched[p]
  BY <1>0 DEF Moved
<1>2. cmd(p)' = cmd(p) /\ snap(p)' = snap(p) /\ side(p)' = side(p)
  BY <1>1 DEF cmd, snap, side
<1>3. /\ cobj' = cobj /\ cman' = cman /\ purged' = purged /\ sobj' = sobj
      /\ mirrored' = mirrored /\ aside' = aside /\ handle' = handle
  BY DEF Still, cache, store
<1>4. Kind(p, pc[p])' /\ Holding(p, pc[p], hand[p])'
  BY <1>1, <1>2, <1>3 DEF ProcOK, Kind, Holding
<1>5. Doing(p, pc[p], todo[p], hand[p])' /\ Filing(p, pc[p], todo[p])'
  BY <1>1, <1>2, <1>3 DEF ProcOK, Doing, Filing, ObjectsOf
<1>6. Fetching(p, pc[p], flag[p])'
  BY <1>1, <1>2, <1>3 DEF ProcOK, Fetching, Cached, Is, missing_cache_objects, ObjectsOf
<1>7. Scanning(p, pc[p], todo[p], hand[p], flag[p])'
  <2>1. Checked(p, work, flag[p]) => Checked(p, todo[p], flag[p])'
    BY <1>1, <1>2, <1>3 DEF Checked, ObjectsOf, Listing, Reading, Stating
  <2> QED BY <1>1, <1>3, <2>1 DEF ProcOK, Scanning
<1>8. ProcInv(p)'
  BY <1>4, <1>5, <1>6, <1>7 DEF ProcInv, ProcOK
<1>9. handle' \in [Proc -> {"closed", "open", "orphan"}]
  BY <1>3 DEF IInv, SharedTypes
<1> QED BY <1>1, <1>3, <1>8, <1>9, QuietStep

\* To a step that asks nothing but that the command may be there.
LEMMA QuietGoto ==
  ASSUME IInv, NEW p \in Proc, queue[p] # <<>>, NEW label, Goto(p, label), May(cmd(p), label),
         label \notin {"ccopy", "scopy", "xsend", "xfetch", "copy", "link", "prune", "scan",
                       "gaps", "swapin", "dropold"},
         pc[p] \notin {"swapin", "dropold"}, pc[p] \notin Logging \/ label \in Logging,
         Fetching(p, label, flag[p]), Still, UNCHANGED <<mirrored, handle>>
  PROVE  IInv'
<1>1. ProcOK(p, label, {}, Empty, flag[p])
  BY DEF IInv, ProcInv, ProcOK, Kind, Doing, Filing, Scanning, Holding
<1> QED BY <1>1, QuietMove DEF Goto, GotoWith

-----------------------------------------------------------------------------
(* The steps that only read.                                               *)

LEMMA StageKeeps ==
  ASSUME IInv, NEW p \in Proc, run_stage(p) \/ run_push(p) \/ push_by_id(p) \/ Materialize(p)
  PROVE  IInv'
<1>1. queue[p] # <<>> /\ Still /\ UNCHANGED <<mirrored, handle>>
  BY DEF run_stage, run_push, push_by_id, Materialize, At, Still, tree, catalog
<1>2. pc[p] \in {"start", "scratch"} /\ Is(p, {"stage", "push", "push_id"})
  BY DEF IInv, ProcInv, ProcOK, Kind, May, Is, run_stage, run_push, push_by_id, Materialize, At
<1>3. CASE \E outcome \in {"ok", "failed"} : End(p, outcome)
  BY <1>1, <1>2, <1>3, QuietEnd DEF End, Logging
<1>4. ASSUME NEW label \in {"cpush", "spush", "xpush", "scratch"}, Goto(p, label),
             label = "cpush" => Is(p, {"stage"}) \/ (Is(p, {"push"}) /\ External(p)),
             label # "cpush" => Is(p, {"push", "push_id"})
      PROVE  IInv'
  BY <1>1, <1>2, <1>4, QuietGoto DEF May, Fetching, Is, External, Logging
<1>5. CASE run_stage(p)
  BY <1>3, <1>4, <1>5 DEF run_stage, Is
<1>6. CASE run_push(p)
  BY <1>3, <1>4, <1>6 DEF run_push, Is
<1>7. CASE push_by_id(p)
  BY <1>3, <1>4, <1>7 DEF push_by_id, Is
<1>8. CASE Materialize(p)
  <2>1. Is(p, {"push", "push_id"})
    BY <1>8 DEF IInv, ProcInv, ProcOK, Kind, May, Is, Materialize, At
  <2> QED BY <1>3, <1>4, <1>8, <2>1 DEF Materialize
<1> QED BY <1>5, <1>6, <1>7, <1>8

-----------------------------------------------------------------------------
(* Into the cache.                                                         *)

\* After the cache has the snapshot the command ends or goes on; a pull goes on
\* with the snapshot cached.
LEMMA AfterCacheStep ==
  ASSUME IInv, NEW p \in Proc, pc[p] \in {"cpush", "ccopy", "xfetch"},
         NEW hit \in SUBSET (Data \union Snap), AfterCache(p, hit),
         UNCHANGED <<aside, handle>>,
         Is(p, {"pull"}) /\ ~cmd(p).api /\ ~cmd(p).dryrun =>
           \/ snap(p) \in touched[p]
           \/ snap(p) \in cman' /\ \A d \in ObjectsOf(snap(p)) : cobj'[d] = None => d \in touched[p]
  PROVE  LocalTypes' /\ (\A q \in Proc \ {p} : SameFor(q, hit)) /\ ProcInv(p)'
<1>1. /\ queue[p] # <<>> /\ Is(p, {"stage", "push", "fetch", "pull"})
      /\ aside[p] = NoSwap /\ handle[p] = "closed"
  BY DEF IInv, ProcInv, ProcOK, Kind, May, Is, Doing, Holding, Logging
<1>2. CASE Leave(p, "ok", hit)
  <2>1. Left(p, "ok", hit)
    BY <1>1, <1>2, LeaveStep DEF IInv
  <2> QED BY <1>1, <2>1, EndedProc
<1>3. ASSUME NEW label \in {"validate", "catalog", "xpush", "checkout"},
             Move(p, label, {}, Empty, hit),
             label = "validate" => cmd(p).api /\ Is(p, {"fetch", "pull"}),
             label = "catalog" => Is(p, {"stage"}),
             label = "xpush" => Is(p, {"push"}),
             label = "checkout" => Is(p, {"pull"}) /\ ~cmd(p).api
      PROVE  LocalTypes' /\ (\A q \in Proc \ {p} : SameFor(q, hit)) /\ ProcInv(p)'
  <2>0. Moved(p, label, {}, Empty, hit)
    BY <1>3, MoveStep DEF IInv
  <2>1. /\ LocalTypes' /\ (\A q \in Proc \ {p} : SameFor(q, hit))
        /\ queue' = queue /\ pc'[p] = label /\ todo'[p] = {} /\ hand'[p] = Empty
        /\ flag'[p] = flag[p] /\ touched'[p] = touched[p]
    BY <2>0 DEF Moved
  <2>2. cmd(p)' = cmd(p) /\ snap(p)' = snap(p)
    BY <2>1 DEF cmd, snap
  <2>3. Kind(p, label)'
    BY <1>1, <1>3, <2>1, <2>2 DEF Kind, May, Is
  <2>4. Fetching(p, label, flag[p])'
    <3>1. CASE label = "checkout" /\ ~cmd(p).dryrun
      BY <1>3, <2>1, <2>2, <3>1 DEF Fetching, Cached, Is, missing_cache_objects, ObjectsOf
    <3>2. CASE label # "checkout" \/ cmd(p).dryrun
      BY <2>2, <3>2, <1>3 DEF Fetching
    <3> QED BY <3>1, <3>2
  <2>5. /\ Doing(p, label, {}, Empty)' /\ Filing(p, label, {})'
        /\ Scanning(p, label, {}, Empty, flag[p])' /\ Holding(p, label, Empty)'
    BY <1>1, <1>3 DEF Doing, Filing, Scanning, Holding
  <2> QED BY <2>1, <2>3, <2>4, <2>5 DEF ProcInv, ProcOK
<1>4. cmd(p).api => ~Is(p, {"push"})
  <2>1. cmd(p) \in Command
    BY <1>1, Asked DEF IInv
  <2> QED BY <2>1 DEF IInv, ProcInv, ProcOK, Kind, May, Is, Command
<1>5. CASE cmd(p).api /\ ~Is(p, {"stage"})
  BY <1>1, <1>3, <1>4, <1>5 DEF AfterCache, Is
<1>6. CASE ~cmd(p).api /\ ~Is(p, {"fetch"})
  BY <1>1, <1>3, <1>6 DEF AfterCache, Is
<1>7. CASE (cmd(p).api /\ Is(p, {"stage"})) \/ (~cmd(p).api /\ Is(p, {"fetch"}))
  BY <1>2, <1>7 DEF AfterCache, Is
<1> QED BY <1>5, <1>6, <1>7

\* A step that changes the cache and nothing else that is shared.
LEMMA CacheStep ==
  ASSUME IInv, NEW p \in Proc, NEW hit \in SUBSET (Data \union Snap), LocalTypes',
         \A q \in Proc \ {p} : SameFor(q, hit),
         UNCHANGED <<store, dest, links, aside, adrift, found, mirrored, handle>>,
         cobj' \in [Data -> Data \union {Bad, None}], cman' \subseteq Snap, purged' \subseteq Data,
         CacheKeeps(hit), CacheInv', ProcInv(p)'
  PROVE  IInv'
<1>1. SharedTypes'
  BY DEF IInv, SharedTypes, store
<1>2. StoreInv' /\ OwnInv'
  BY DEF IInv, StoreInv, OwnInv, OwnFilesSurvive, store
<1>3. StoreKeeps /\ OthersKeep(p)
  BY DEF StoreKeeps, OthersKeep, store
<1> QED BY <1>1, <1>2, <1>3, StepKeeps

\* One object is written, spoilt or lost; what is lost is recorded.
LEMMA ObjectSet ==
  ASSUME IInv, NEW d \in Data, NEW v \in {d, Bad, None}, NEW hit,
         cobj' = [cobj EXCEPT ![d] = v],
         d \in hit \/ v = cobj[d] \/ (cobj[d] = None /\ v = d),
         cman' = cman, purged' \subseteq Data, v = None => d \in purged',
         \A e \in Data \ {d} : e \in purged' <=> e \in purged
  PROVE  /\ cobj' \in [Data -> Data \union {Bad, None}] /\ cman' \subseteq Snap
         /\ CacheKeeps(hit) /\ CacheInv'
<1> USE CommandsAssumption
<1>1. cobj \in [Data -> Data \union {Bad, None}] /\ cman \subseteq Snap
  BY DEF IInv, SharedTypes
<1>2. cobj'[d] = v /\ \A e \in Data \ {d} : cobj'[e] = cobj[e]
  BY <1>1
<1>3. CacheKeeps(hit)
  BY <1>1, <1>2 DEF CacheKeeps
<1>4. \A e \in Data : cobj'[e] \in {e, Bad, None}
  BY <1>2 DEF IInv, CacheInv
<1>5. ASSUME NEW s \in cman', NEW e \in ObjectsOf(s), cobj'[e] = None PROVE e \in purged'
  <2>1. e \in Data /\ s \in cman
    BY <1>1, ObjectsAreData
  <2> QED BY <1>2, <1>5, <2>1 DEF IInv, CacheInv
<1>6. CacheInv'
  BY <1>4, <1>5 DEF CacheInv, ObjectsOf
<1> QED BY <1>1, <1>3, <1>6

\* A push into the cache stops at the manifest, or lists what the cache lacks.
LEMMA CachePushKeeps ==
  ASSUME IInv, NEW p \in Proc, CachePush(p)
  PROVE  IInv'
<1>1. queue[p] # <<>> /\ pc[p] = "cpush" /\ Still /\ UNCHANGED <<mirrored, handle>>
  BY DEF CachePush, At, Still, tree, catalog
<1>2. ProcOK(p, "cpush", todo[p], hand[p], flag[p])
  BY <1>1 DEF IInv, ProcInv
<1>3. CASE snap(p) \in cman
  <2>1. AfterCache(p, {})
    BY <1>3 DEF CachePush
  <2>2. LocalTypes' /\ (\A q \in Proc \ {p} : SameFor(q, {})) /\ ProcInv(p)'
    BY <1>1, <1>2, <1>3, <2>1, AfterCacheStep DEF ProcOK, Fetching, Is, Still, cache
  <2> QED BY <1>1, <2>2, QuietStep DEF IInv, SharedTypes
<1>4. CASE snap(p) \notin cman
  <2> DEFINE work == {d \in ObjectsOf(snap(p)) : cobj[d] = None}
  <2>1. Move(p, "ccopy", work, Empty, {}) /\ work \in SUBSET Work
    BY <1>1, <1>4, Asked DEF CachePush, GotoWith, IInv, Work
  <2>2. ProcOK(p, "ccopy", work, Empty, flag[p])
    BY <1>1, <1>2 DEF ProcOK, Kind, May, Doing, Filing, Fetching, Scanning, Holding, Logging
  <2> QED BY <1>1, <2>1, <2>2, QuietMove
<1> QED BY <1>3, <1>4

\* The turn of a loop that files objects in the cache: d is there afterwards.
LEMMA FiledOne ==
  ASSUME IInv, NEW p \in Proc, pc[p] \in {"ccopy", "xfetch"}, NEW d \in todo[p],
         NEW hit \in SUBSET (Data \union Snap), NEW v \in {d, Bad},
         d \in hit \/ v = cobj[d] \/ (cobj[d] = None /\ v = d),
         cobj' = [cobj EXCEPT ![d] = v], purged' = purged \ {d},
         Move(p, pc[p], todo[p] \ {d}, Empty, hit),
         UNCHANGED <<cman, store, tree, catalog>>
  PROVE  IInv'
<1> USE CommandsAssumption
<1>1. queue[p] # <<>> /\ UNCHANGED <<dest, links, aside, adrift, found, mirrored, handle>>
  BY DEF IInv, ProcInv, ProcOK, Kind, tree, catalog
<1>2. ObjectsOf(snap(p)) \subseteq Data /\ todo[p] \subseteq ObjectsOf(snap(p)) /\ d \in Data
  BY <1>1, Asked DEF IInv, ProcInv, ProcOK, Doing
<1>3. todo[p] \ {d} \in SUBSET Work /\ LocalTypes
  BY <1>2 DEF Work, IInv
<1>0. Moved(p, pc[p], todo[p] \ {d}, Empty, hit)
  BY <1>3, MoveStep
<1>4. /\ LocalTypes' /\ (\A q \in Proc \ {p} : SameFor(q, hit))
      /\ queue' = queue /\ pc'[p] = pc[p] /\ todo'[p] = todo[p] \ {d} /\ hand'[p] = Empty
      /\ flag'[p] = flag[p] /\ touched'[p] = touched[p]
  BY <1>0 DEF Moved
<1>5. purged \subseteq Data
  BY DEF IInv, SharedTypes
<1>6. /\ cobj' \in [Data -> Data \union {Bad, None}] /\ cman' \subseteq Snap
      /\ CacheKeeps(hit) /\ CacheInv'
  BY <1>2, <1>5, ObjectSet
<1>7. cobj'[d] # None /\ \A e \in Data \ {d} : cobj'[e] = cobj[e]
  BY <1>2 DEF IInv, SharedTypes
<1>8. snap(p)' = snap(p) /\ cmd(p)' = cmd(p)
  BY <1>4 DEF snap, cmd
<1>9. ProcOK(p, pc[p], todo[p], hand[p], flag[p])
  BY DEF IInv, ProcInv
<1>10. Filing(p, pc[p], todo[p])'
  BY <1>2, <1>4, <1>7, <1>8, <1>9 DEF ProcOK, Filing, ObjectsOf
<1>11. Kind(p, pc[p])' /\ Holding(p, pc[p], hand[p])'
  BY <1>1, <1>4, <1>8, <1>9 DEF ProcOK, Kind, Holding
<1>12. Doing(p, pc[p], todo[p], hand[p])'
  BY <1>1, <1>2, <1>4, <1>8, <1>9 DEF ProcOK, Doing, ObjectsOf
<1>13. Fetching(p, pc[p], flag[p])' /\ Scanning(p, pc[p], todo[p], hand[p], flag[p])'
  BY <1>4 DEF Fetching, Scanning
<1>14. ProcInv(p)'
  BY <1>10, <1>11, <1>12, <1>13 DEF ProcInv, ProcOK
<1> QED BY <1>1, <1>4, <1>5, <1>6, <1>14, CacheStep

LEMMA CacheCopyKeeps ==
  ASSUME IInv, NEW p \in Proc, NEW d, CacheCopy(p, d)
  PROVE  IInv'
<1>1. /\ pc[p] = "ccopy" /\ d \in todo[p]
      /\ Move(p, pc[p], todo[p] \ {d}, Empty, {d})
      /\ UNCHANGED <<cman, store, tree, catalog>>
      /\ cobj' = [cobj EXCEPT ![d] = d] /\ purged' = purged \ {d}
  BY DEF CacheCopy, At
<1>2. d \in Data
  BY <1>1, Asked DEF IInv, ProcInv, ProcOK, Kind, Doing
<1> QED BY <1>1, <1>2, FiledOne

\* A manifest is filed when every object of its snapshot has been.
LEMMA FiledAll ==
  ASSUME IInv, NEW p \in Proc, pc[p] \in {"ccopy", "xfetch"}, todo[p] = {},
         cman' = cman \union {snap(p)}, AfterCache(p, {snap(p)}),
         UNCHANGED <<cobj, purged, store, tree, catalog>>
  PROVE  IInv'
<1>1. queue[p] # <<>> /\ UNCHANGED <<dest, links, aside, adrift, found, mirrored, handle>>
  BY DEF IInv, ProcInv, ProcOK, Kind, tree, catalog
<1>2. ObjectsOf(snap(p)) \subseteq Data /\ snap(p) \in Snap
  BY <1>1, Asked DEF IInv
<1>3. \A d \in ObjectsOf(snap(p)) : cobj[d] = None => d \in purged /\ d \in touched[p]
  BY DEF IInv, ProcInv, ProcOK, Filing
<1>4. LocalTypes' /\ (\A q \in Proc \ {p} : SameFor(q, {snap(p)})) /\ ProcInv(p)'
  BY <1>1, <1>2, <1>3, AfterCacheStep
<1>5. /\ cobj' \in [Data -> Data \union {Bad, None}] /\ cman' \subseteq Snap
      /\ purged' \subseteq Data
  BY <1>2 DEF IInv, SharedTypes
<1>6. CacheInv'
  BY <1>3 DEF IInv, CacheInv, ObjectsOf
<1>7. CacheKeeps({snap(p)})
  BY DEF CacheKeeps
<1> QED BY <1>1, <1>2, <1>4, <1>5, <1>6, <1>7, CacheStep

LEMMA ManifestKeeps ==
  ASSUME IInv, NEW p \in Proc, CacheManifest(p) \/ ExternalFetched(p)
  PROVE  IInv'
  BY FiledAll DEF CacheManifest, ExternalFetched, At

\* A command that ends in the step that writes, spoils or removes an object.
LEMMA ObjectEnd ==
  ASSUME IInv, NEW p \in Proc, queue[p] # <<>>, NEW outcome \in {"ok", "failed"},
         NEW d \in Data, NEW v \in {d, Bad, None}, Leave(p, outcome, {d}),
         pc[p] \notin Logging \union {"swapin", "dropold"},
         cobj' = [cobj EXCEPT ![d] = v], v = None => d \in purged', purged' \subseteq Data,
         \A e \in Data \ {d} : e \in purged' <=> e \in purged,
         UNCHANGED <<cman, store, tree, catalog>>
  PROVE  IInv'
<1>1. UNCHANGED <<dest, links, aside, adrift, found, mirrored, handle>>
  BY DEF tree, catalog
<1>2. Left(p, outcome, {d})
  BY LeaveStep DEF IInv
<1>3. handle'[p] = "closed" /\ aside'[p] = NoSwap
  BY <1>1 DEF IInv, ProcInv, ProcOK, Holding, Doing
<1>4. LocalTypes' /\ (\A q \in Proc \ {p} : SameFor(q, {d})) /\ ProcInv(p)'
  BY <1>2, <1>3, EndedProc
<1>5. /\ cobj' \in [Data -> Data \union {Bad, None}] /\ cman' \subseteq Snap
      /\ CacheKeeps({d}) /\ CacheInv'
  BY ObjectSet
<1> QED BY <1>1, <1>4, <1>5, CacheStep

LEMMA ExternalFetchKeeps ==
  ASSUME IInv, NEW p \in Proc, NEW d, ExternalFetch(p, d) \/ TornGet(p, d)
  PROVE  IInv'
<1>1. /\ queue[p] # <<>> /\ pc[p] = "xfetch" /\ d \in todo[p]
      /\ UNCHANGED <<cman, store, tree, catalog>>
  BY DEF ExternalFetch, TornGet, At
<1>2. d \in Data /\ purged \subseteq Data /\ (purged \ {d}) \subseteq Data
  BY <1>1, Asked DEF IInv, ProcInv, ProcOK, Doing, SharedTypes
<1>3. ASSUME sobj.main[d] # None, cobj' = [cobj EXCEPT ![d] = sobj.main[d]], purged' = purged \ {d},
             Move(p, "xfetch", todo[p] \ {d}, Empty,
                  IF cobj[d] \in {None, d} /\ sobj.main[d] = d THEN {} ELSE {d})
      PROVE  IInv'
  <2> DEFINE hit == IF cobj[d] \in {None, d} /\ sobj.main[d] = d THEN {} ELSE {d}
  <2>1. sobj.main[d] \in {d, Bad}
    BY <1>2, <1>3 DEF IInv, StoreInv, Side
  <2>2. hit \in SUBSET (Data \union Snap)
    BY <1>2
  <2>3. d \in hit \/ sobj.main[d] = cobj[d] \/ (cobj[d] = None /\ sobj.main[d] = d)
    BY <2>1
  <2>4. Move(p, pc[p], todo[p] \ {d}, Empty, hit)
    BY <1>1, <1>3
  <2> QED BY <1>1, <1>3, <2>1, <2>2, <2>3, <2>4, FiledOne
<1>4. ASSUME End(p, "failed"), UNCHANGED <<cobj, purged, faults>>
      PROVE  IInv'
  BY <1>1, <1>4, QuietEnd DEF End, Logging, Still, cache, tree, catalog
<1>5. ASSUME cobj' = [cobj EXCEPT ![d] = Bad], purged' = purged \ {d}, Leave(p, "failed", {d})
      PROVE  IInv'
  BY <1>1, <1>2, <1>5, ObjectEnd, CommandsAssumption DEF Logging
<1>6. ASSUME cobj' = [cobj EXCEPT ![d] = Bad], purged' = purged \ {d},
             Move(p, "xfetch", todo[p] \ {d}, Empty, {d})
      PROVE  IInv'
  BY <1>1, <1>2, <1>6, FiledOne
<1>7. CASE ExternalFetch(p, d)
  BY <1>3, <1>4, <1>5, <1>7 DEF ExternalFetch
<1>8. CASE TornGet(p, d)
  BY <1>6, <1>8 DEF TornGet
<1> QED BY <1>7, <1>8

-----------------------------------------------------------------------------
(* fetch and pull.                                                         *)

LEMMA FetchInnerKeeps ==
  ASSUME IInv, NEW p \in Proc, fetch_inner(p)
  PROVE  IInv'
<1>1. queue[p] # <<>> /\ pc[p] = "start" /\ Still /\ UNCHANGED <<mirrored, handle, catalog>>
  BY DEF fetch_inner, At, Still, tree, catalog
<1>2. Is(p, {"fetch", "pull"}) /\ cmd(p) \in Command /\ snap(p) \in Snap
  BY <1>1, Asked DEF fetch_inner, IInv
<1>3. CASE \E outcome \in {"ok", "failed"} : End(p, outcome)
  BY <1>1, <1>3, QuietEnd DEF End, Logging
<1>4. ASSUME Is(p, {"pull"}), snap(p) \in cman, missing_cache_objects(snap(p)) = {}, ~cmd(p).api,
             Goto(p, "checkout")
      PROVE  IInv'
  BY <1>1, <1>4, QuietGoto DEF May, Fetching, Cached, Is, Logging
<1>5. ASSUME pc' = [pc EXCEPT ![p] = "get"],
             flag' = [flag EXCEPT ![p] = snap(p) \in cman /\ ~cmd(p).api],
             UNCHANGED <<queue, todo, hand, status, touched>>
      PROVE  IInv'
  <2>1. LocalTypes'
    BY <1>5 DEF IInv, LocalTypes
  <2>2. \A q \in Proc \ {p} : SameFor(q, {})
    BY <1>5 DEF IInv, LocalTypes, SameFor
  <2>3. pc'[p] = "get" /\ (flag'[p] <=> snap(p) \in cman /\ ~cmd(p).api)
    BY <1>5 DEF IInv, LocalTypes
  <2>4. /\ queue' = queue /\ hand' = hand /\ touched' = touched /\ cman' = cman
        /\ handle' = handle /\ aside' = aside
    BY <1>1, <1>5 DEF Still, cache
  <2>5. ProcOK(p, "start", todo[p], hand[p], flag[p])
    BY <1>1 DEF IInv, ProcInv
  <2>6. Kind(p, pc[p])' /\ Holding(p, pc[p], hand[p])'
    BY <1>1, <1>2, <2>3, <2>4, <2>5 DEF ProcOK, Kind, Holding, May, Is, cmd, Logging
  <2>7. /\ Doing(p, pc[p], todo[p], hand[p])' /\ Filing(p, pc[p], todo[p])'
        /\ Scanning(p, pc[p], todo[p], hand[p], flag[p])'
    BY <2>3, <2>4, <2>5 DEF ProcOK, Doing, Filing, Scanning
  <2>8. Fetching(p, pc[p], flag[p])'
    BY <2>3, <2>4 DEF Fetching, Is, cmd, snap
  <2>9. ProcInv(p)'
    BY <2>6, <2>7, <2>8 DEF ProcInv, ProcOK
  <2> QED BY <1>1, <2>1, <2>2, <2>9, QuietStep DEF IInv, SharedTypes
<1> QED BY <1>2, <1>3, <1>4, <1>5 DEF fetch_inner, Is

LEMMA GetManifestKeeps ==
  ASSUME IInv, NEW p \in Proc, GetManifest(p)
  PROVE  IInv'
<1>1. queue[p] # <<>> /\ pc[p] = "get" /\ Still /\ UNCHANGED <<mirrored, handle, catalog>>
  BY DEF GetManifest, At, Still, tree, catalog
<1>2. /\ cmd(p) \in Command /\ ObjectsOf(snap(p)) \subseteq Data
      /\ ProcOK(p, "get", todo[p], hand[p], flag[p])
  BY <1>1, Asked DEF IInv, ProcInv
<1>3. Is(p, {"fetch", "pull"})
  BY <1>2 DEF ProcOK, Kind, May, Is
<1>4. CASE \E outcome \in {"ok", "failed"} : End(p, outcome)
  BY <1>1, <1>4, QuietEnd DEF End, Logging
<1>5. ASSUME cmd(p).dryrun, Is(p, {"pull"}), Goto(p, "checkout")
      PROVE  IInv'
  <2>1. ~cmd(p).api
    BY <1>2, <1>5 DEF Command
  <2> QED BY <1>1, <1>5, <2>1, QuietGoto DEF May, Fetching, Is, Logging
<1>6. ASSUME GotoWith(p, "xfetch", missing_cache_objects(snap(p)))
      PROVE  IInv'
  <2> DEFINE work == missing_cache_objects(snap(p))
  <2>1. Move(p, "xfetch", work, Empty, {}) /\ work \in SUBSET Work
    BY <1>2, <1>6 DEF GotoWith, missing_cache_objects, Work
  <2>2. ProcOK(p, "xfetch", work, Empty, flag[p])
    BY <1>1, <1>2 DEF ProcOK, Kind, May, Doing, Filing, Fetching, Scanning, Holding, Logging,
                      missing_cache_objects
  <2> QED BY <1>1, <2>1, <2>2, QuietMove
<1>7. ASSUME flag[p], Goto(p, "heal")
      PROVE  IInv'
  BY <1>1, <1>3, <1>7, QuietGoto DEF May, Fetching, Is, Logging
<1>8. ASSUME ~flag[p], Goto(p, "cpush")
      PROVE  IInv'
  <2>1. Fetching(p, "cpush", flag[p])
    BY <1>2, <1>8 DEF ProcOK, Fetching
  <2> QED BY <1>1, <1>3, <1>8, <2>1, QuietGoto DEF May, Is, Logging
<1> QED BY <1>3, <1>4, <1>5, <1>6, <1>7, <1>8 DEF GetManifest, Is

LEMMA HealKeeps ==
  ASSUME IInv, NEW p \in Proc, HealCache(p)
  PROVE  IInv'
<1>1. queue[p] # <<>> /\ pc[p] = "heal" /\ Still /\ UNCHANGED <<mirrored, handle>>
  BY DEF HealCache, At, Still, tree, catalog
<1>2. Is(p, {"fetch", "pull"})
  BY <1>1 DEF IInv, ProcInv, ProcOK, Kind, May, Is
<1>3. CASE snap(p) \in cman
  BY <1>1, <1>2, <1>3, QuietGoto DEF HealCache, May, Fetching, Is, Logging
<1>4. CASE snap(p) \notin cman
  BY <1>1, <1>2, <1>4, QuietGoto DEF HealCache, May, Fetching, Is, Logging
<1> QED BY <1>3, <1>4

\* A manifest is removed.
LEMMA ManifestGone ==
  ASSUME IInv, NEW s \in Snap, cman' = cman \ {s}, UNCHANGED <<cobj, purged>>
  PROVE  /\ cobj' \in [Data -> Data \union {Bad, None}] /\ cman' \subseteq Snap
         /\ purged' \subseteq Data /\ CacheKeeps({s}) /\ CacheInv'
<1>1. /\ cobj' \in [Data -> Data \union {Bad, None}] /\ cman' \subseteq Snap
      /\ purged' \subseteq Data
  BY DEF IInv, SharedTypes
<1>2. CacheInv'
  BY DEF IInv, CacheInv, ObjectsOf
<1>3. CacheKeeps({s})
  BY DEF CacheKeeps
<1> QED BY <1>1, <1>2, <1>3

LEMMA RemoveStaleKeeps ==
  ASSUME IInv, NEW p \in Proc, RemoveStale(p)
  PROVE  IInv'
<1>1. /\ queue[p] # <<>> /\ pc[p] = "unlink" /\ cman' = cman \ {snap(p)}
      /\ UNCHANGED <<cobj, purged, store, dest, links, aside, adrift, found, mirrored, handle>>
  BY DEF RemoveStale, At, tree, catalog
<1>2. snap(p) \in Snap /\ ProcOK(p, "unlink", todo[p], hand[p], flag[p])
  BY <1>1, Asked DEF IInv, ProcInv
<1>3. CASE snap(p) \notin cman
  BY <1>1, <1>3, QuietEnd DEF RemoveStale, End, Logging, Still, cache
<1>4. CASE snap(p) \in cman
  <2>1. Moved(p, "cpush", {}, Empty, {snap(p)})
    BY <1>2, <1>4, MoveStep DEF RemoveStale, IInv
  <2>2. /\ LocalTypes' /\ (\A q \in Proc \ {p} : SameFor(q, {snap(p)}))
        /\ queue' = queue /\ pc'[p] = "cpush" /\ todo'[p] = {} /\ hand'[p] = Empty
        /\ flag'[p] = flag[p] /\ touched'[p] = touched[p]
    BY <2>1 DEF Moved
  <2>3. cmd(p)' = cmd(p) /\ snap(p)' = snap(p)
    BY <2>2 DEF cmd, snap
  <2>4. /\ cobj' \in [Data -> Data \union {Bad, None}] /\ cman' \subseteq Snap
        /\ purged' \subseteq Data /\ CacheKeeps({snap(p)}) /\ CacheInv'
    BY <1>1, <1>2, ManifestGone
  <2>5. Kind(p, pc[p])' /\ Holding(p, pc[p], hand[p])'
    BY <1>1, <1>2, <2>2, <2>3 DEF ProcOK, Kind, May, Holding, Logging
  <2>6. Fetching(p, pc[p], flag[p])'
    BY <1>1, <2>2, <2>3 DEF Fetching
  <2>7. /\ Doing(p, pc[p], todo[p], hand[p])' /\ Filing(p, pc[p], todo[p])'
        /\ Scanning(p, pc[p], todo[p], hand[p], flag[p])'
    BY <1>1, <1>2, <2>2 DEF ProcOK, Doing, Filing, Scanning
  <2>8. ProcInv(p)'
    BY <2>5, <2>6, <2>7 DEF ProcInv, ProcOK
  <2> QED BY <1>1, <1>2, <2>2, <2>4, <2>8, CacheStep
<1> QED BY <1>3, <1>4

LEMMA ValidateKeeps ==
  ASSUME IInv, NEW p \in Proc, Validate(p)
  PROVE  IInv'
<1>1. queue[p] # <<>> /\ pc[p] = "validate" /\ Still /\ UNCHANGED <<mirrored, handle>>
  BY DEF Validate, At, Still, tree, catalog
<1>2. cmd(p) \in Command /\ cmd(p).api /\ Is(p, {"fetch", "pull", "checkout"})
  BY <1>1, Asked DEF IInv, ProcInv, ProcOK, Kind, May, Is
<1>3. CASE \E outcome \in {"ok", "failed"} : End(p, outcome)
  BY <1>1, <1>3, QuietEnd DEF End, Logging
<1>4. ASSUME ~Is(p, {"fetch"}), Goto(p, "collect"), snap(p) \in cman,
             \A d \in ObjectsOf(snap(p)) : cobj[d] = d
      PROVE  IInv'
  <2>1. ~cmd(p).dryrun /\ ~cmd(p).linked
    BY <1>2 DEF Command
  <2>2. missing_cache_objects(snap(p)) = {}
    BY <1>1, <1>4, Asked, CommandsAssumption DEF missing_cache_objects, IInv
  <2> QED BY <1>1, <1>2, <1>4, <2>1, <2>2, QuietGoto DEF May, Fetching, Cached, Is, Logging
<1> QED BY <1>3, <1>4 DEF Validate

-----------------------------------------------------------------------------
(* Into the store.                                                         *)

\* A step that changes the store and nothing else that is shared.
LEMMA StoreStep ==
  ASSUME IInv, NEW p \in Proc, LocalTypes', \A q \in Proc \ {p} : SameFor(q, {}),
         UNCHANGED <<cache, tree, handle>>,
         sobj' \in [Side -> [Data -> Data \union {Bad, None}]], sman' \subseteq Snap,
         StoreKeeps, StoreInv', ProcInv(p)'
  PROVE  IInv'
<1>1. SharedTypes'
  BY DEF IInv, SharedTypes, cache, tree
<1>2. CacheInv' /\ OwnInv'
  BY DEF IInv, CacheInv, OwnInv, OwnFilesSurvive, cache, tree
<1>3. CacheKeeps({}) /\ OthersKeep(p)
  BY DEF CacheKeeps, OthersKeep, cache, tree
<1> QED BY <1>1, <1>2, <1>3, StepKeeps

\* When the store has the snapshot the command ends, or goes on to the catalog.
LEMMA AfterStoreStep ==
  ASSUME IInv, NEW p \in Proc, queue[p] # <<>>, pc[p] \in {"spush", "scopy", "xpush", "xsend"},
         AfterStore(p), UNCHANGED <<aside, handle>>
  PROVE  LocalTypes' /\ (\A q \in Proc \ {p} : SameFor(q, {})) /\ ProcInv(p)'
<1>1. /\ Is(p, {"push", "push_id"}) /\ aside[p] = NoSwap /\ handle[p] = "closed"
      /\ LocalTypes
  BY DEF IInv, ProcInv, ProcOK, Kind, May, Is, Doing, Holding, Logging
<1>2. CASE End(p, "ok")
  <2>1. Left(p, "ok", {})
    BY <1>1, <1>2, LeaveStep DEF End
  <2> QED BY <1>1, <2>1, EndedProc
<1>3. CASE Goto(p, "catalog")
  <2>1. Move(p, "catalog", {}, Empty, {})
    BY <1>3 DEF Goto, GotoWith
  <2>2. Moved(p, "catalog", {}, Empty, {})
    BY <1>1, <2>1, MoveStep
  <2>3. /\ LocalTypes' /\ (\A q \in Proc \ {p} : SameFor(q, {}))
        /\ queue' = queue /\ pc'[p] = "catalog" /\ hand'[p] = Empty
    BY <2>2 DEF Moved
  <2>4. ProcInv(p)'
    BY <1>1, <2>3 DEF ProcInv, ProcOK, Kind, May, Is, cmd, Doing, Filing, Fetching, Scanning, Holding
  <2> QED BY <2>3, <2>4
<1> QED BY <1>2, <1>3 DEF AfterStore

LEMMA StorePushKeeps ==
  ASSUME IInv, NEW p \in Proc, StorePush(p) \/ ExternalPush(p)
  PROVE  IInv'
<1>1. queue[p] # <<>> /\ pc[p] \in {"spush", "xpush"} /\ Still /\ UNCHANGED <<mirrored, handle>>
  BY DEF StorePush, ExternalPush, At, Still, tree, catalog
<1>2. ProcOK(p, pc[p], todo[p], hand[p], flag[p]) /\ ObjectsOf(snap(p)) \subseteq Data
  BY <1>1, Asked DEF IInv, ProcInv
<1>3. CASE snap(p) \in sman
  <2>1. AfterStore(p) /\ UNCHANGED aside
    BY <1>1, <1>3 DEF StorePush, ExternalPush, Still
  <2>2. LocalTypes' /\ (\A q \in Proc \ {p} : SameFor(q, {})) /\ ProcInv(p)'
    BY <1>1, <2>1, AfterStoreStep
  <2> QED BY <1>1, <2>2, QuietStep DEF IInv, SharedTypes
<1>4. ASSUME GotoWith(p, "scopy", {d \in ObjectsOf(snap(p)) : sobj[side(p)][d] = None}), pc[p] = "spush"
      PROVE  IInv'
  <2> DEFINE work == {d \in ObjectsOf(snap(p)) : sobj[side(p)][d] = None}
  <2>1. Move(p, "scopy", work, Empty, {}) /\ work \in SUBSET Work
    BY <1>2, <1>4 DEF GotoWith, Work
  <2>2. ProcOK(p, "scopy", work, Empty, flag[p])
    BY <1>1, <1>2, <1>4 DEF ProcOK, Kind, May, Doing, Filing, Fetching, Is, Scanning, Holding, Logging
  <2> QED BY <1>1, <2>1, <2>2, QuietMove
<1>5. ASSUME GotoWith(p, "xsend", {d \in ObjectsOf(snap(p)) : sobj.main[d] = None}), pc[p] = "xpush"
      PROVE  IInv'
  <2> DEFINE work == {d \in ObjectsOf(snap(p)) : sobj.main[d] = None}
  <2>1. Move(p, "xsend", work, Empty, {}) /\ work \in SUBSET Work
    BY <1>2, <1>5 DEF GotoWith, Work
  <2>2. ProcOK(p, "xsend", work, Empty, flag[p])
    BY <1>1, <1>2, <1>5 DEF ProcOK, Kind, May, Doing, Filing, Fetching, Is, Scanning, Holding, Logging
  <2> QED BY <1>1, <2>1, <2>2, QuietMove
<1> QED BY <1>3, <1>4, <1>5 DEF StorePush, ExternalPush, At

\* A turn of a loop that writes objects to the store.
LEMMA StoreTurn ==
  ASSUME IInv, NEW p \in Proc, queue[p] # <<>>, pc[p] \in {"scopy", "xsend"}, NEW d \in todo[p],
         NEW sd \in Side, sd = IF pc[p] = "scopy" THEN side(p) ELSE "main",
         NEW v \in {d, Bad}, v # d => shimmed', shimmed => shimmed',
         sobj' = [sobj EXCEPT ![sd][d] = v], Drop(p, d), UNCHANGED <<cache, sman, tree, handle>>
  PROVE  IInv'
<1> USE CommandsAssumption
<1>1. /\ ProcOK(p, pc[p], todo[p], hand[p], flag[p])
      /\ ObjectsOf(snap(p)) \subseteq Data /\ todo[p] \subseteq ObjectsOf(snap(p)) /\ d \in Data
  BY Asked DEF IInv, ProcInv, ProcOK, Doing
<1>2. todo[p] \ {d} \in SUBSET Work /\ Move(p, pc[p], todo[p] \ {d}, Empty, {})
  BY <1>1 DEF Work, Drop, GotoWith
<1>3. Moved(p, pc[p], todo[p] \ {d}, Empty, {})
  BY <1>2, MoveStep DEF IInv
<1>4. /\ LocalTypes' /\ (\A q \in Proc \ {p} : SameFor(q, {}))
      /\ queue' = queue /\ pc'[p] = pc[p] /\ todo'[p] = todo[p] \ {d} /\ hand'[p] = Empty
  BY <1>3 DEF Moved
<1>5. cmd(p)' = cmd(p) /\ snap(p)' = snap(p) /\ side(p)' = side(p) /\ aside' = aside /\ handle' = handle
  BY <1>4 DEF cmd, snap, side, tree
<1>6. sobj \in [Side -> [Data -> Data \union {Bad, None}]] /\ sman \subseteq Snap
  BY DEF IInv, SharedTypes
<1>7. /\ sobj' \in [Side -> [Data -> Data \union {Bad, None}]]
      /\ sobj'[sd][d] = v
      /\ \A e \in Data : e # d => sobj'[sd][e] = sobj[sd][e]
      /\ \A sx \in Side : sx # sd => sobj'[sx] = sobj[sx]
  BY <1>1, <1>6
<1>8. v # None
  BY <1>1
<1>9. StoreKeeps
  BY <1>7, <1>8 DEF StoreKeeps
<1>10. \A sx \in Side, e \in Data : sobj'[sx][e] \in {e, None} \/ (shimmed' /\ sobj'[sx][e] = Bad)
  BY <1>7 DEF IInv, StoreInv
<1>11. ASSUME NEW s \in sman' PROVE \E sx \in Side : \A e \in ObjectsOf(s) : sobj'[sx][e] # None
  <2>1. s \in sman /\ ObjectsOf(s) \subseteq Data
    BY <1>6, ObjectsAreData
  <2>2. PICK sx \in Side : \A e \in ObjectsOf(s) : sobj[sx][e] # None
    BY <2>1 DEF IInv, StoreInv
  <2> QED BY <1>9, <2>1, <2>2 DEF StoreKeeps
<1>12. StoreInv'
  BY <1>10, <1>11 DEF StoreInv, ObjectsOf
<1>13. Filing(p, pc[p], todo[p])'
  BY <1>1, <1>4, <1>5, <1>7, <1>8 DEF ProcOK, Filing, ObjectsOf
<1>14. Kind(p, pc[p])' /\ Holding(p, pc[p], hand[p])'
  BY <1>1, <1>4, <1>5 DEF ProcOK, Kind, Holding
<1>15. Doing(p, pc[p], todo[p], hand[p])'
  BY <1>1, <1>4, <1>5 DEF ProcOK, Doing, ObjectsOf
<1>16. Fetching(p, pc[p], flag[p])' /\ Scanning(p, pc[p], todo[p], hand[p], flag[p])'
  BY <1>4 DEF Fetching, Scanning
<1>17. ProcInv(p)'
  BY <1>13, <1>14, <1>15, <1>16 DEF ProcInv, ProcOK
<1> QED BY <1>4, <1>6, <1>7, <1>9, <1>12, <1>17, StoreStep

LEMMA StoreCopyKeeps ==
  ASSUME IInv, NEW p \in Proc, NEW d, StoreCopy(p, d) \/ ExternalSend(p, d)
  PROVE  IInv'
<1> USE CommandsAssumption
<1>1. /\ queue[p] # <<>> /\ pc[p] \in {"scopy", "xsend"} /\ d \in todo[p]
      /\ UNCHANGED <<cache, sman, tree, handle>>
  BY DEF StoreCopy, ExternalSend, At, catalog
<1>2. d \in Data
  BY <1>1, Asked DEF IInv, ProcInv, ProcOK, Doing
<1>3. ASSUME End(p, "failed"), UNCHANGED <<sobj, shimmed>>
      PROVE  IInv'
  BY <1>1, <1>3, QuietEnd DEF End, Logging, Still, store, tree
<1>4. CASE StoreCopy(p, d)
  <2>1. side(p) \in Side
    BY DEF side, Side
  <2>2. ASSUME sobj' = [sobj EXCEPT ![side(p)][d] = d], Drop(p, d), UNCHANGED shimmed, pc[p] = "scopy"
        PROVE  IInv'
    BY <1>1, <2>1, <2>2, StoreTurn
  <2> QED BY <1>3, <1>4, <2>2 DEF StoreCopy, At
<1>5. CASE ExternalSend(p, d)
  <2>1. ASSUME cobj[d] # None, sobj' = [sobj EXCEPT !["main"][d] = cobj[d]], Drop(p, d), shimmed' = TRUE,
               pc[p] = "xsend"
        PROVE  IInv'
    <3>1. cobj[d] \in {d, Bad}
      BY <1>2, <2>1 DEF IInv, CacheInv
    <3>2. "main" \in Side
      BY DEF Side
    <3> QED BY <1>1, <2>1, <3>1, <3>2, StoreTurn
  <2> QED BY <1>3, <1>5, <2>1 DEF ExternalSend, At
<1> QED BY <1>4, <1>5

\* A snapshot is listed when one side has every object of it.
LEMMA StoreListed ==
  ASSUME IInv, NEW p \in Proc, queue[p] # <<>>, pc[p] \in {"scopy", "xsend"}, todo[p] = {},
         sman' = sman \union {snap(p)}, AfterStore(p),
         UNCHANGED <<cache, sobj, shimmed, tree, handle>>
  PROVE  IInv'
<1>1. snap(p) \in Snap /\ ProcOK(p, pc[p], todo[p], hand[p], flag[p])
  BY Asked DEF IInv, ProcInv
<1>2. side(p) \in Side /\ "main" \in Side
  BY DEF side, Side
<1>3. \E sd \in Side : \A d \in ObjectsOf(snap(p)) : sobj[sd][d] # None
  BY <1>1, <1>2 DEF ProcOK, Filing
<1>4. StoreInv'
  BY <1>3 DEF IInv, StoreInv, ObjectsOf
<1>5. StoreKeeps
  BY DEF StoreKeeps
<1>6. LocalTypes' /\ (\A q \in Proc \ {p} : SameFor(q, {})) /\ ProcInv(p)'
  BY AfterStoreStep DEF tree
<1> QED BY <1>1, <1>4, <1>5, <1>6, StoreStep DEF IInv, SharedTypes

LEMMA StoreManifestKeeps ==
  ASSUME IInv, NEW p \in Proc, StoreManifest(p) \/ ExternalManifest(p)
  PROVE  IInv'
<1>1. /\ queue[p] # <<>> /\ pc[p] \in {"scopy", "xsend"} /\ todo[p] = {}
      /\ UNCHANGED <<cache, sobj, shimmed, tree, handle>>
  BY DEF StoreManifest, ExternalManifest, At, catalog
<1>2. CASE sman' = sman \union {snap(p)} /\ AfterStore(p)
  BY <1>1, <1>2, StoreListed
<1>3. CASE UNCHANGED sman /\ End(p, "failed")
  BY <1>1, <1>3, QuietEnd DEF End, Logging, Still, store, tree
<1> QED BY <1>2, <1>3 DEF StoreManifest, ExternalManifest

-----------------------------------------------------------------------------
(* The destination.                                                        *)

\* A step that changes the destination, or what a swap has put aside.
LEMMA TreeStep ==
  ASSUME IInv, NEW p \in Proc, NEW hit \in SUBSET (Data \union Snap), LocalTypes',
         \A q \in Proc \ {p} : SameFor(q, hit), UNCHANGED <<cache, store, found>>,
         dest' \in [DestPath -> Bytes], links' \subseteq DestPath, \A x \in links' : dest'[x] \in Data,
         aside' \in [Proc -> [files : [DestPath -> Bytes], links : SUBSET DestPath]],
         \A x \in aside'[p].links : aside'[p].files[x] \in Data,
         \A q \in Proc \ {p} : aside'[q] = aside[q],
         adrift' \subseteq [DestPath -> Bytes], mirrored \subseteq mirrored',
         handle' \in [Proc -> {"closed", "open", "orphan"}],
         \A q \in Proc \ {p} : handle'[q] = "closed" <=> handle[q] = "closed",
         OwnFilesSurvive', ProcInv(p)'
  PROVE  IInv'
<1>1. ASSUME NEW q \in Proc PROVE \A x \in aside'[q].links : aside'[q].files[x] \in Data
  <2>1. CASE q = p
    BY <2>1
  <2>2. CASE q # p
    BY <2>2 DEF IInv, SharedTypes
  <2> QED BY <2>1, <2>2
<1>2. SharedTypes'
  BY <1>1 DEF IInv, SharedTypes, cache, store
<1>3. CacheInv' /\ StoreInv' /\ CacheKeeps(hit) /\ StoreKeeps
  BY DEF IInv, CacheInv, StoreInv, CacheKeeps, StoreKeeps, cache, store
<1>4. OwnInv'
  BY DEF IInv, OwnInv
<1>5. OthersKeep(p)
  BY DEF OthersKeep
<1> QED BY <1>2, <1>3, <1>4, <1>5, StepKeeps

\* A turn of a loop that writes, links or removes one path: it is in the
\* snapshot, or the command mirrors and the path is not protected.
LEMMA TreeTurn ==
  ASSUME IInv, NEW p \in Proc, queue[p] # <<>>, pc[p] \in {"copy", "link", "prune"},
         NEW x \in todo[p], NEW bytes \in Bytes, dest' = [dest EXCEPT ![x] = bytes],
         links' = links \ {x} \/ (links' = links \union {x} /\ bytes \in Data),
         Drop(p, x), UNCHANGED <<cache, store, aside, adrift, found, mirrored, handle>>
  PROVE  IInv'
<1>1. /\ ProcOK(p, pc[p], todo[p], hand[p], flag[p])
      /\ cmd(p) \in Command /\ snap(p) \in Snap
  BY Asked DEF IInv, ProcInv
<1>2. todo[p] \subseteq DestPath
  BY <1>1, CommandsAssumption DEF ProcOK, Doing
<1>3. todo[p] \ {x} \in SUBSET Work /\ Move(p, pc[p], todo[p] \ {x}, Empty, {})
  BY <1>2 DEF Work, Drop, GotoWith
<1>4. Moved(p, pc[p], todo[p] \ {x}, Empty, {})
  BY <1>3, MoveStep DEF IInv
<1>5. /\ LocalTypes' /\ (\A q \in Proc \ {p} : SameFor(q, {}))
      /\ queue' = queue /\ pc'[p] = pc[p] /\ todo'[p] = todo[p] \ {x} /\ hand'[p] = Empty
      /\ flag'[p] = flag[p] /\ touched'[p] = touched[p]
  BY <1>4 DEF Moved
<1>6. cmd(p)' = cmd(p) /\ snap(p)' = snap(p)
  BY <1>5 DEF cmd, snap
<1>7. dest \in [DestPath -> Bytes] /\ links \subseteq DestPath /\ \A y \in links : dest[y] \in Data
  BY DEF IInv, SharedTypes
<1>8. /\ dest' \in [DestPath -> Bytes] /\ links' \subseteq DestPath
      /\ dest'[x] = bytes /\ \A y \in DestPath : y # x => dest'[y] = dest[y]
  BY <1>2, <1>7
<1>9. \A y \in links' : dest'[y] \in Data
  BY <1>2, <1>7, <1>8
<1>10. found[x] = Own => "prune" \in mirrored /\ x \notin Protected
  BY <1>1, <1>2 DEF IInv, OwnInv, ProcOK, Doing
<1>11. OwnFilesSurvive'
  BY <1>8, <1>10 DEF IInv, OwnInv, OwnFilesSurvive
<1>12. Kind(p, pc[p])' /\ Holding(p, pc[p], hand[p])' /\ Filing(p, pc[p], todo[p])'
  BY <1>1, <1>5, <1>6 DEF ProcOK, Kind, Holding, Filing
<1>13. Doing(p, pc[p], todo[p], hand[p])'
  BY <1>1, <1>5, <1>6 DEF ProcOK, Doing
<1>14. Fetching(p, pc[p], flag[p])'
  BY <1>1, <1>5, <1>6 DEF ProcOK, Fetching, Cached, Is, missing_cache_objects, ObjectsOf, cache
<1>15. Scanning(p, pc[p], todo[p], hand[p], flag[p])'
  BY <1>5 DEF Scanning
<1>16. ProcInv(p)'
  BY <1>12, <1>13, <1>14, <1>15 DEF ProcInv, ProcOK
<1> QED BY <1>5, <1>8, <1>9, <1>11, <1>16, TreeStep DEF IInv, SharedTypes

LEMMA CheckoutInnerKeeps ==
  ASSUME IInv, NEW p \in Proc, checkout_inner(p)
  PROVE  IInv'
<1>1. /\ queue[p] # <<>> /\ pc[p] \in {"checkout", "start"} /\ Is(p, {"checkout", "pull"}) /\ Still
      /\ UNCHANGED <<mirrored, handle>>
  BY DEF IInv, ProcInv, ProcOK, Kind, May, Is, checkout_inner, At, Still, tree, catalog
<1>2. /\ ProcOK(p, pc[p], todo[p], hand[p], flag[p])
      /\ cmd(p) \in Command /\ snap(p) \in Snap
  BY <1>1, Asked DEF IInv, ProcInv
<1>3. CASE \E outcome \in {"ok", "failed"} : End(p, outcome)
  BY <1>1, <1>3, QuietEnd DEF End, Logging
<1>4. ASSUME cmd(p).api, Goto(p, "validate")
      PROVE  IInv'
  <2>1. Is(p, {"checkout"})
    BY <1>1, <1>2, <1>4 DEF checkout_inner, At, ProcOK, Kind, May, Is
  <2> QED BY <1>1, <1>4, <2>1, QuietGoto DEF May, Fetching, Is, Logging
<1>5. pc[p] = "checkout" => Fetching(p, "checkout", flag[p])
  BY <1>2 DEF ProcOK
<1>6. Fetching(p, "collect", flag[p]) /\ Fetching(p, "link", flag[p])
  BY <1>1, <1>5 DEF checkout_inner, At, Fetching, Is
<1>7. ASSUME ~cmd(p).dryrun, ~cmd(p).linked, Goto(p, "collect")
      PROVE  IInv'
  BY <1>1, <1>6, <1>7, QuietGoto DEF May, Is, Logging
<1>8. ASSUME ~cmd(p).dryrun, cmd(p).linked, GotoWith(p, "link", DOMAIN Tree[snap(p)])
      PROVE  IInv'
  <2> DEFINE work == DOMAIN Tree[snap(p)]
  <2>1. Move(p, "link", work, Empty, {}) /\ work \in SUBSET Work
    BY <1>2, <1>8, CommandsAssumption DEF GotoWith, Work
  <2>2. ProcOK(p, "link", work, Empty, flag[p])
    BY <1>1, <1>2, <1>6, <1>8 DEF ProcOK, Kind, May, Is, Doing, Filing, Scanning, Holding, Logging
  <2> QED BY <1>1, <2>1, <2>2, QuietMove
<1> QED BY <1>3, <1>4, <1>7, <1>8 DEF checkout_inner

LEMMA CollectKeeps ==
  ASSUME IInv, NEW p \in Proc, Collect(p)
  PROVE  IInv'
<1>1. queue[p] # <<>> /\ pc[p] = "collect" /\ Still /\ UNCHANGED <<mirrored, handle>>
  BY DEF Collect, At, Still, tree, catalog
<1>2. ProcOK(p, "collect", todo[p], hand[p], flag[p]) /\ snap(p) \in Snap
  BY <1>1, Asked DEF IInv, ProcInv
<1>3. CASE End(p, "failed")
  BY <1>1, <1>3, QuietEnd DEF End, Logging
<1> DEFINE work == {x \in DOMAIN Tree[snap(p)] : Content(x) # Tree[snap(p)][x]}
<1>4. CASE GotoWith(p, "copy", work)
  <2>1. Move(p, "copy", work, Empty, {}) /\ work \in SUBSET Work
    BY <1>2, <1>4, CommandsAssumption DEF GotoWith, Work
  <2>2. ProcOK(p, "copy", work, Empty, flag[p])
    BY <1>1, <1>2 DEF ProcOK, Kind, May, Is, Doing, Filing, Fetching, Scanning, Holding, Logging
  <2> QED BY <1>1, <2>1, <2>2, QuietMove
<1> QED BY <1>3, <1>4 DEF Collect

LEMMA CopyFileKeeps ==
  ASSUME IInv, NEW p \in Proc, NEW x, CopyFile(p, x)
  PROVE  IInv'
<1> USE CommandsAssumption
<1>1. queue[p] # <<>> /\ pc[p] = "copy" /\ x \in todo[p] /\ Still /\ UNCHANGED <<mirrored, handle>>
  BY DEF CopyFile, At, Still, tree, catalog
<1>2. /\ ProcOK(p, "copy", todo[p], hand[p], flag[p]) /\ snap(p) \in Snap
      /\ todo[p] \in SUBSET Work
  BY <1>1, Asked DEF IInv, ProcInv, LocalTypes
<1>3. CASE End(p, "failed")
  BY <1>1, <1>3, QuietEnd DEF End, Logging
<1> DEFINE bytes == cobj[Tree[snap(p)][x]]
<1>4. ASSUME bytes # None, NEW cloned \in BOOLEAN,
             Hold(p, [name |-> x, bytes |-> bytes, cloned |-> cloned])
      PROVE  IInv'
  <2> DEFINE file == [name |-> x, bytes |-> bytes, cloned |-> cloned]
  <2>1. bytes \in Data \union {Bad}
    BY <1>1, <1>2, <1>4 DEF ProcOK, Doing, IInv, SharedTypes
  <2>2. Move(p, "copy", todo[p], file, {})
    BY <1>1, <1>4 DEF Hold
  <2>3. file.name = x /\ file.bytes = bytes
    OBVIOUS
  <2>4. Doing(p, "copy", todo[p], file)
    BY <1>1, <1>2, <2>1, <2>3 DEF ProcOK, Doing
  <2>5. ProcOK(p, "copy", todo[p], file, flag[p])
    BY <1>2, <2>4 DEF ProcOK, Scanning, Holding
  <2> QED BY <1>1, <1>2, <2>2, <2>5, QuietMove
<1> QED BY <1>3, <1>4 DEF CopyFile

LEMMA CheckAndRenameKeeps ==
  ASSUME IInv, NEW p \in Proc, CheckAndRename(p)
  PROVE  IInv'
<1>1. /\ queue[p] # <<>> /\ pc[p] = "copy" /\ hand[p] # Empty
      /\ UNCHANGED <<cache, store, aside, adrift, found, mirrored, handle>>
  BY DEF CheckAndRename, At, catalog
<1>2. ProcOK(p, "copy", todo[p], hand[p], flag[p]) /\ todo[p] \in SUBSET Work
  BY <1>1 DEF IInv, ProcInv, LocalTypes
<1>3. CASE End(p, "failed") /\ UNCHANGED <<dest, links>>
  BY <1>1, <1>3, QuietEnd DEF End, Logging, Still
<1>4. CASE Hold(p, Empty) /\ UNCHANGED <<dest, links>>
  <2>1. Move(p, "copy", todo[p], Empty, {})
    BY <1>1, <1>4 DEF Hold
  <2>2. ProcOK(p, "copy", todo[p], Empty, flag[p])
    BY <1>2 DEF ProcOK, Doing, Scanning, Holding
  <2> QED BY <1>1, <1>2, <1>4, <2>1, <2>2, QuietMove DEF Still
<1>5. ASSUME dest' = [dest EXCEPT ![hand[p].name] = hand[p].bytes],
             links' = links \ {hand[p].name}, Drop(p, hand[p].name)
      PROVE  IInv'
  <2>1. hand[p].name \in todo[p] /\ hand[p].bytes \in Bytes
    BY <1>1, <1>2 DEF ProcOK, Doing, Bytes
  <2> QED BY <1>1, <1>5, <2>1, TreeTurn
<1> QED BY <1>3, <1>4, <1>5 DEF CheckAndRename

LEMMA LinkKeeps ==
  ASSUME IInv, NEW p \in Proc, NEW x, Link(p, x)
  PROVE  IInv'
<1>1. /\ queue[p] # <<>> /\ pc[p] = "link" /\ x \in todo[p]
      /\ UNCHANGED <<cache, store, aside, adrift, found, mirrored, handle>>
  BY DEF Link, At, catalog
<1>2. Tree[snap(p)][x] \in Data
  BY <1>1, Asked, CommandsAssumption DEF IInv, ProcInv, ProcOK, Doing
<1>3. CASE End(p, "failed") /\ UNCHANGED <<dest, links>>
  BY <1>1, <1>3, QuietEnd DEF End, Logging, Still
<1>4. ASSUME dest' = [dest EXCEPT ![x] = Tree[snap(p)][x]], links' = links \union {x}, Drop(p, x)
      PROVE  IInv'
  BY <1>1, <1>2, <1>4, TreeTurn DEF Bytes
<1> QED BY <1>3, <1>4 DEF Link

LEMMA PruneKeeps ==
  ASSUME IInv, NEW p \in Proc, NEW x, Prune(p, x)
  PROVE  IInv'
<1>1. /\ queue[p] # <<>> /\ pc[p] = "prune" /\ x \in todo[p]
      /\ UNCHANGED <<cache, store, aside, adrift, found, mirrored, handle>>
  BY DEF Prune, At, catalog
<1>2. CASE End(p, "failed") /\ UNCHANGED <<dest, links>>
  BY <1>1, <1>2, QuietEnd DEF End, Logging, Still
<1>3. ASSUME dest' = [dest EXCEPT ![x] = None], links' = links \ {x}, Drop(p, x)
      PROVE  IInv'
  BY <1>1, <1>3, TreeTurn DEF Bytes
<1> QED BY <1>2, <1>3 DEF Prune

LEMMA MaterializedKeeps ==
  ASSUME IInv, NEW p \in Proc, Materialized(p)
  PROVE  IInv'
<1>1. queue[p] # <<>> /\ pc[p] \in {"copy", "link"} /\ todo[p] = {} /\ Still /\ UNCHANGED handle
  BY DEF Materialized, Still, cache, store, catalog
<1>2. ProcOK(p, pc[p], todo[p], hand[p], flag[p])
  BY DEF IInv, ProcInv
<1>3. CASE End(p, "ok") /\ UNCHANGED mirrored
  BY <1>1, <1>3, QuietEnd DEF End, Logging
<1>4. CASE GotoWith(p, "prune", prune_set(snap(p))) /\ mirrored' = mirrored \union {"prune"}
  <2>1. /\ Move(p, "prune", prune_set(snap(p)), Empty, {})
        /\ prune_set(snap(p)) \in SUBSET Work
    BY <1>4 DEF GotoWith, Work, prune_set
  <2>2. Moved(p, "prune", prune_set(snap(p)), Empty, {})
    BY <2>1, MoveStep DEF IInv
  <2>3. /\ LocalTypes' /\ (\A q \in Proc \ {p} : SameFor(q, {}))
        /\ queue' = queue /\ pc'[p] = "prune" /\ todo'[p] = prune_set(snap(p)) /\ hand'[p] = Empty
        /\ flag'[p] = flag[p] /\ touched'[p] = touched[p]
    BY <2>2 DEF Moved
  <2>4. cmd(p)' = cmd(p) /\ snap(p)' = snap(p) /\ aside' = aside
    BY <1>1, <2>3 DEF cmd, snap, Still
  <2>5. Kind(p, pc[p])' /\ Holding(p, pc[p], hand[p])'
    BY <1>1, <1>2, <2>3, <2>4 DEF ProcOK, Kind, May, Holding, Logging
  <2>6. Doing(p, pc[p], todo[p], hand[p])'
    BY <1>1, <1>2, <1>4, <2>3, <2>4 DEF ProcOK, Doing, prune_set
  <2>7. Fetching(p, pc[p], flag[p])'
    BY <1>1, <1>2, <2>3, <2>4
    DEF ProcOK, Fetching, Cached, Is, missing_cache_objects, ObjectsOf, Still, cache
  <2>8. Filing(p, pc[p], todo[p])' /\ Scanning(p, pc[p], todo[p], hand[p], flag[p])'
    BY <2>3 DEF Filing, Scanning
  <2>9. ProcInv(p)'
    BY <2>5, <2>6, <2>7, <2>8 DEF ProcInv, ProcOK
  <2> QED BY <1>1, <1>4, <2>3, <2>9, QuietStep DEF IInv, SharedTypes
<1> QED BY <1>3, <1>4 DEF Materialized

LEMMA PrunedKeeps ==
  ASSUME IInv, NEW p \in Proc, Pruned(p)
  PROVE  IInv'
  BY QuietEnd DEF Pruned, At, End, Logging, Still, tree, catalog

-----------------------------------------------------------------------------
(* The swap.                                                               *)

LEMMA BuildStagingKeeps ==
  ASSUME IInv, NEW p \in Proc, BuildStaging(p)
  PROVE  IInv'
<1>1. /\ queue[p] # <<>> /\ pc[p] = "start" /\ Is(p, {"swap"}) /\ Still
      /\ UNCHANGED <<mirrored, handle>>
  BY DEF BuildStaging, At, Still, tree, catalog
<1>2. CASE End(p, "failed")
  BY <1>1, <1>2, QuietEnd DEF End, Logging
<1>3. CASE Goto(p, "swap")
  BY <1>1, <1>3, QuietGoto DEF May, Fetching, Is, Logging
<1> QED BY <1>2, <1>3 DEF BuildStaging

\* The empty tree holds no file of the user's.
LEMMA NoTreeTyped ==
  /\ NoTree \in [DestPath -> Bytes] /\ \A x \in DestPath : NoTree[x] # Own
  /\ NoSwap \in [files : [DestPath -> Bytes], links : SUBSET DestPath]
  /\ NoSwap.files = NoTree /\ NoSwap.links = {}
<1>1. NoTree \in [DestPath -> Bytes] /\ \A x \in DestPath : NoTree[x] # Own
  BY CommandsAssumption DEF NoTree, Bytes
<1>2. NoSwap.files = NoTree /\ NoSwap.links = {}
  BY DEF NoSwap
<1> QED BY <1>1, <1>2 DEF NoSwap

\* Between its two renames a swap has the old tree aside.
LEMMA SwapMove ==
  ASSUME IInv, NEW p \in Proc, queue[p] # <<>>, NEW label \in {"swapin", "dropold"}, Goto(p, label),
         pc[p] \in {"swap", "swapin"}, label = "dropold" => "swap" \in mirrored', UNCHANGED handle
  PROVE  LocalTypes' /\ (\A q \in Proc \ {p} : SameFor(q, {})) /\ ProcInv(p)'
<1>1. cmd(p).cmd = "swap" /\ handle[p] = "closed"
  BY DEF IInv, ProcInv, ProcOK, Kind, May, Holding, Logging
<1>2. Moved(p, label, {}, Empty, {})
  BY MoveStep DEF Goto, GotoWith, IInv
<1>3. /\ LocalTypes' /\ (\A q \in Proc \ {p} : SameFor(q, {}))
      /\ queue' = queue /\ pc'[p] = label /\ todo'[p] = {} /\ hand'[p] = Empty
  BY <1>2 DEF Moved
<1>4. cmd(p)' = cmd(p)
  BY <1>3 DEF cmd
<1>5. ProcInv(p)'
  BY <1>1, <1>3, <1>4 DEF ProcInv, ProcOK, Kind, May, Doing, Filing, Fetching, Is, Scanning, Holding
<1> QED BY <1>3, <1>5

LEMMA RenameAsideKeeps ==
  ASSUME IInv, NEW p \in Proc, RenameAside(p)
  PROVE  IInv'
<1> USE NoTreeTyped
<1>1. /\ queue[p] # <<>> /\ pc[p] = "swap" /\ Goto(p, "swapin")
      /\ UNCHANGED <<cache, store, adrift, found, mirrored, handle>>
  BY DEF RenameAside, At, catalog
<1>2. LocalTypes' /\ (\A q \in Proc \ {p} : SameFor(q, {})) /\ ProcInv(p)'
  BY <1>1, SwapMove
<1>3. CASE UNCHANGED <<dest, links, aside>>
  BY <1>1, <1>2, <1>3, QuietStep DEF Still, IInv, SharedTypes
<1>4. ASSUME aside' = [aside EXCEPT ![p] = [files |-> dest, links |-> links]],
             dest' = NoTree, links' = {}
      PROVE  IInv'
  <2>1. /\ dest \in [DestPath -> Bytes] /\ links \subseteq DestPath /\ \A x \in links : dest[x] \in Data
        /\ aside \in [Proc -> [files : [DestPath -> Bytes], links : SUBSET DestPath]]
        /\ adrift \subseteq [DestPath -> Bytes]
        /\ handle \in [Proc -> {"closed", "open", "orphan"}]
    BY DEF IInv, SharedTypes
  <2>2. /\ aside' \in [Proc -> [files : [DestPath -> Bytes], links : SUBSET DestPath]]
        /\ aside'[p].files = dest /\ aside'[p].links = links
        /\ \A q \in Proc \ {p} : aside'[q] = aside[q]
    BY <1>4, <2>1
  <2>3. aside[p] = NoSwap
    BY <1>1 DEF IInv, ProcInv, ProcOK, Doing
  <2>4. OwnFilesSurvive'
    BY <1>1, <1>4, <2>2, <2>3 DEF IInv, OwnInv, OwnFilesSurvive
  <2> QED BY <1>1, <1>2, <1>4, <2>1, <2>2, <2>4, TreeStep
<1> QED BY <1>3, <1>4 DEF RenameAside

\* A swap that breaks off leaves the tree it had put aside where it is.
LEMMA LeftAside ==
  ASSUME IInv, NEW p \in Proc, LeaveAside(p), UNCHANGED <<dest, found, mirrored>>
  PROVE  /\ aside' \in [Proc -> [files : [DestPath -> Bytes], links : SUBSET DestPath]]
         /\ adrift' \subseteq [DestPath -> Bytes]
         /\ aside'[p] = NoSwap /\ \A q \in Proc \ {p} : aside'[q] = aside[q]
         /\ OwnFilesSurvive'
<1> USE NoTreeTyped
<1>1. /\ aside \in [Proc -> [files : [DestPath -> Bytes], links : SUBSET DestPath]]
      /\ adrift \subseteq [DestPath -> Bytes]
  BY DEF IInv, SharedTypes
<1>2. /\ aside' \in [Proc -> [files : [DestPath -> Bytes], links : SUBSET DestPath]]
      /\ aside'[p] = NoSwap /\ \A q \in Proc \ {p} : aside'[q] = aside[q]
  BY <1>1 DEF LeaveAside
<1>3. adrift' \subseteq [DestPath -> Bytes] /\ adrift \subseteq adrift'
  BY <1>1 DEF LeaveAside
<1>4. aside[p] # NoSwap => aside[p].files \in adrift'
  BY DEF LeaveAside
<1>5. OwnFilesSurvive'
  BY <1>2, <1>3, <1>4 DEF IInv, OwnInv, OwnFilesSurvive
<1> QED BY <1>2, <1>3, <1>5

LEMMA SwapInKeeps ==
  ASSUME IInv, NEW p \in Proc, SwapIn(p)
  PROVE  IInv'
<1> USE NoTreeTyped
<1>1. queue[p] # <<>> /\ pc[p] = "swapin" /\ UNCHANGED <<cache, store, found, handle>>
  BY DEF SwapIn, At, catalog
<1>2. /\ dest \in [DestPath -> Bytes] /\ links \subseteq DestPath /\ \A x \in links : dest[x] \in Data
      /\ aside \in [Proc -> [files : [DestPath -> Bytes], links : SUBSET DestPath]]
      /\ \A x \in aside[p].links : aside[p].files[x] \in Data
      /\ adrift \subseteq [DestPath -> Bytes]
      /\ handle \in [Proc -> {"closed", "open", "orphan"}]
  BY DEF IInv, SharedTypes
<1>3. snap(p) \in Snap /\ handle[p] = "closed"
  BY <1>1, Asked DEF IInv, ProcInv, ProcOK, Holding, Logging
<1>4. ASSUME dest = NoTree, dest' = NewTree(snap(p)), mirrored' = mirrored \union {"swap"},
             Goto(p, "dropold"), UNCHANGED <<links, aside, adrift>>
      PROVE  IInv'
  <2>1. LocalTypes' /\ (\A q \in Proc \ {p} : SameFor(q, {})) /\ ProcInv(p)'
    BY <1>1, <1>4, SwapMove
  <2>2. NewTree(snap(p)) \in [DestPath -> Bytes]
    BY <1>3, CommandsAssumption DEF NewTree, Bytes
  <2>3. links = {}
    BY <1>2, <1>4, CommandsAssumption DEF NoTree
  <2>4. OwnFilesSurvive'
    BY <1>4 DEF OwnFilesSurvive
  <2> QED BY <1>1, <1>2, <1>4, <2>1, <2>2, <2>3, <2>4, TreeStep
<1>5. ASSUME dest = NoTree, dest' = aside[p].files, links' = aside[p].links,
             aside' = [aside EXCEPT ![p] = NoSwap], End(p, "failed"), UNCHANGED <<adrift, mirrored>>
      PROVE  IInv'
  <2>1. /\ aside' \in [Proc -> [files : [DestPath -> Bytes], links : SUBSET DestPath]]
        /\ aside'[p] = NoSwap /\ \A q \in Proc \ {p} : aside'[q] = aside[q]
    BY <1>2, <1>5
  <2>2. Left(p, "failed", {})
    BY <1>1, <1>5, LeaveStep DEF End, IInv
  <2>3. LocalTypes' /\ (\A q \in Proc \ {p} : SameFor(q, {})) /\ ProcInv(p)'
    BY <1>1, <1>3, <2>1, <2>2, EndedProc
  <2>4. OwnFilesSurvive'
    BY <1>1, <1>5, <2>1 DEF IInv, OwnInv, OwnFilesSurvive
  <2>5. dest' \in [DestPath -> Bytes] /\ links' \subseteq DestPath
    BY <1>2, <1>5
  <2> QED BY <1>1, <1>2, <1>5, <2>1, <2>3, <2>4, <2>5, TreeStep
<1>6. ASSUME LeaveAside(p), End(p, "failed"), UNCHANGED <<dest, links, mirrored>>
      PROVE  IInv'
  <2>1. /\ aside' \in [Proc -> [files : [DestPath -> Bytes], links : SUBSET DestPath]]
        /\ adrift' \subseteq [DestPath -> Bytes]
        /\ aside'[p] = NoSwap /\ \A q \in Proc \ {p} : aside'[q] = aside[q]
        /\ OwnFilesSurvive'
    BY <1>1, <1>6, LeftAside
  <2>2. Left(p, "failed", {})
    BY <1>1, <1>6, LeaveStep DEF End, IInv
  <2>3. LocalTypes' /\ (\A q \in Proc \ {p} : SameFor(q, {})) /\ ProcInv(p)'
    BY <1>1, <1>3, <2>1, <2>2, EndedProc
  <2> QED BY <1>1, <1>2, <1>6, <2>1, <2>3, TreeStep
<1> QED BY <1>4, <1>5, <1>6 DEF SwapIn

LEMMA DropOldKeeps ==
  ASSUME IInv, NEW p \in Proc, DropOld(p)
  PROVE  IInv'
<1> USE NoTreeTyped
<1>1. /\ queue[p] # <<>> /\ pc[p] = "dropold" /\ aside' = [aside EXCEPT ![p] = NoSwap]
      /\ Leave(p, "ok", {})
      /\ UNCHANGED <<cache, store, dest, links, adrift, found, mirrored, handle>>
  BY DEF DropOld, At, End, catalog
<1>2. /\ aside' \in [Proc -> [files : [DestPath -> Bytes], links : SUBSET DestPath]]
      /\ aside'[p] = NoSwap /\ \A q \in Proc \ {p} : aside'[q] = aside[q]
  BY <1>1 DEF IInv, SharedTypes
<1>3. handle[p] = "closed" /\ "swap" \in mirrored
  BY <1>1 DEF IInv, ProcInv, ProcOK, Holding, Doing, Logging
<1>4. Left(p, "ok", {})
  BY <1>1, LeaveStep DEF IInv
<1>5. LocalTypes' /\ (\A q \in Proc \ {p} : SameFor(q, {})) /\ ProcInv(p)'
  BY <1>1, <1>2, <1>3, <1>4, EndedProc
<1>6. OwnFilesSurvive'
  BY <1>1, <1>3 DEF OwnFilesSurvive
<1> QED BY <1>1, <1>2, <1>5, <1>6, TreeStep DEF IInv, SharedTypes

-----------------------------------------------------------------------------
(* verify, verify-cache and flush-cache.                                   *)

LEMMA VerifyKeeps ==
  ASSUME IInv, NEW p \in Proc, run_verify(p) \/ CacheVerified(p) \/ Flushed(p)
  PROVE  IInv'
<1>1. /\ queue[p] # <<>> /\ pc[p] \in {"start", "gaps", "flush"} /\ Still
      /\ UNCHANGED <<mirrored, handle>>
  BY DEF run_verify, CacheVerified, Flushed, At, Still, tree, catalog
<1>2. End(p, "ok") \/ End(p, "failed")
  BY DEF run_verify, CacheVerified, Flushed, Outcome
<1> QED BY <1>1, <1>2, QuietEnd DEF End, Logging

LEMMA VerifyCacheKeeps ==
  ASSUME IInv, NEW p \in Proc, run_verify_cache(p)
  PROVE  IInv'
<1> DEFINE work == {d \in Data : cobj[d] # None}
<1>1. /\ queue[p] # <<>> /\ pc[p] = "start" /\ Is(p, {"verify_cache"}) /\ Still
      /\ UNCHANGED <<mirrored, handle>> /\ Move(p, "scan", work, Empty, {})
  BY DEF run_verify_cache, GotoWith, At, Still, tree, catalog
<1>2. work \in SUBSET Work
  BY DEF Work
<1>3. ProcOK(p, "scan", work, Empty, flag[p])
  BY <1>1, CommandsAssumption
  DEF IInv, ProcInv, ProcOK, Kind, May, Is, Doing, Filing, Fetching, Scanning, Holding, Logging
<1> QED BY <1>1, <1>2, <1>3, QuietMove

\* A step of the search for what is missing: it leaves the cache alone, and what
\* it has still to find out covers what it has not.
LEMMA GapsMove ==
  ASSUME IInv, NEW p \in Proc, queue[p] # <<>>, pc[p] \in {"scan", "gaps"}, ~cmd(p).api,
         NEW work \in SUBSET Work, GotoWith(p, "gaps", work), Still,
         UNCHANGED <<mirrored, handle>>,
         pc[p] = "scan" => todo[p] = {} /\ hand[p] = Empty,
         Checked(p, work, flag[p])
  PROVE  IInv'
<1>1. ProcOK(p, pc[p], todo[p], hand[p], flag[p])
  BY DEF IInv, ProcInv
<1>2. Scanning(p, "gaps", work, Empty, flag[p])
  BY <1>1 DEF ProcOK, Scanning
<1>3. ProcOK(p, "gaps", work, Empty, flag[p])
  BY <1>1, <1>2 DEF ProcOK, Kind, May, Doing, Filing, Fetching, Is, Holding, Logging
<1> QED BY <1>3, QuietMove DEF GotoWith

LEMMA ScannedKeeps ==
  ASSUME IInv, NEW p \in Proc, Scanned(p)
  PROVE  IInv'
<1> DEFINE work == IF cmd(p).scoped THEN {Reading(snap(p))} ELSE {Listing(s) : s \in Snap}
<1>1. /\ queue[p] # <<>> /\ pc[p] = "scan" /\ todo[p] = {} /\ Still
      /\ UNCHANGED <<mirrored, handle>>
  BY DEF Scanned, At, Still, tree, catalog
<1>2. CASE cmd(p).api
  <2>1. End(p, "ok") \/ End(p, "failed")
    BY <1>2 DEF Scanned, Outcome
  <2> QED BY <1>1, <2>1, QuietEnd DEF End, Logging
<1>3. CASE ~cmd(p).api
  <2>1. GotoWith(p, "gaps", work)
    BY <1>3 DEF Scanned
  <2>2. work \in SUBSET Work
    <3>1. snap(p) \in Snap
      BY <1>1, Asked DEF IInv
    <3> QED BY <3>1 DEF Work, Questions, Reading, Listing
  <2>3. hand[p] = Empty
    BY <1>1 DEF IInv, ProcInv, ProcOK, Doing
  <2>4. Checked(p, work, flag[p])
    BY DEF Checked
  <2> HIDE DEF work
  <2> QED BY <1>1, <1>3, <2>1, <2>2, <2>3, <2>4, GapsMove
<1> QED BY <1>2, <1>3

LEMMA GapsKeep ==
  ASSUME IInv, NEW p \in Proc, NEW s \in Snap, ListManifest(p, s) \/ ReadListed(p, s)
  PROVE  IInv'
<1>1. /\ queue[p] # <<>> /\ pc[p] = "gaps" /\ Still /\ UNCHANGED <<mirrored, handle>>
  BY DEF ListManifest, ReadListed, At, Still, tree, catalog
<1>2. ~cmd(p).api /\ Checked(p, todo[p], flag[p]) /\ todo[p] \in SUBSET Work
  BY <1>1 DEF IInv, LocalTypes, ProcInv, ProcOK, Kind, May, Scanning
<1>3. CASE ListManifest(p, s)
  <2> DEFINE work == (todo[p] \ {Listing(s)}) \union (IF s \in cman THEN {Reading(s)} ELSE {})
  <2>1. GotoWith(p, "gaps", work)
    BY <1>3 DEF ListManifest
  <2>2. work \in SUBSET Work
    BY <1>2 DEF Work, Questions, Reading
  <2>3. \A q \in todo[p] : q \in work \/ q = Listing(s)
    OBVIOUS
  <2>4. s \in cman => Reading(s) \in work
    OBVIOUS
  <2>5. ASSUME NEW r, NEW d
        PROVE  Listing(s) # Reading(r) /\ Listing(s) # Stating(r, d) /\ (r # s => Listing(s) # Listing(r))
    BY DEF Listing, Reading, Stating
  <2> HIDE DEF work
  <2>6. Checked(p, work, flag[p])
    BY <1>2, <2>3, <2>4, <2>5 DEF Checked
  <2> QED BY <1>1, <1>2, <2>1, <2>2, <2>6, GapsMove
<1>4. CASE ReadListed(p, s)
  <2> DEFINE work == (todo[p] \ {Reading(s)}) \union {Stating(s, d) : d \in ObjectsOf(s)}
  <2>1. CASE s \notin cman
    <3>1. End(p, "failed")
      BY <1>4, <2>1 DEF ReadListed
    <3> QED BY <1>1, <3>1, QuietEnd DEF End, Logging
  <2>2. CASE s \in cman
    <3>1. GotoWith(p, "gaps", work)
      BY <1>4, <2>2 DEF ReadListed
    <3>2. work \in SUBSET Work
      BY <1>2, ObjectsAreData DEF Work, Questions, Stating
    <3>3. \A q \in todo[p] : q \in work \/ q = Reading(s)
      OBVIOUS
    <3>4. \A d \in ObjectsOf(s) : Stating(s, d) \in work
      OBVIOUS
    <3>5. ASSUME NEW r, NEW d
          PROVE  Reading(s) # Listing(r) /\ Reading(s) # Stating(r, d) /\ (r # s => Reading(s) # Reading(r))
      BY DEF Listing, Reading, Stating
    <3> HIDE DEF work
    <3>6. Checked(p, work, flag[p])
      BY <1>2, <2>2, <3>3, <3>4, <3>5 DEF Checked
    <3> QED BY <1>1, <1>2, <3>1, <3>2, <3>6, GapsMove
  <2> QED BY <2>1, <2>2
<1> QED BY <1>3, <1>4

LEMMA StatObjectKeeps ==
  ASSUME IInv, NEW p \in Proc, NEW s \in Snap, NEW d, StatObject(p, s, d)
  PROVE  IInv'
<1>1. /\ queue[p] # <<>> /\ pc[p] = "gaps" /\ Stating(s, d) \in todo[p] /\ Still
      /\ UNCHANGED <<mirrored, handle, queue, pc, hand, status, touched>>
      /\ todo' = [todo EXCEPT ![p] = @ \ {Stating(s, d)}]
      /\ flag' = [flag EXCEPT ![p] = @ \/ cobj[d] = None]
  BY DEF StatObject, At, Still, tree, catalog
<1>2. ProcOK(p, "gaps", todo[p], hand[p], flag[p])
  BY <1>1 DEF IInv, ProcInv
<1>3. /\ todo' \in [Proc -> SUBSET Work] /\ todo'[p] = todo[p] \ {Stating(s, d)}
      /\ \A q \in Proc \ {p} : todo'[q] = todo[q]
  BY <1>1 DEF IInv, LocalTypes
<1>4. /\ flag' \in [Proc -> BOOLEAN] /\ flag'[p] = (flag[p] \/ cobj[d] = None)
      /\ \A q \in Proc \ {p} : flag'[q] = flag[q]
  BY <1>1 DEF IInv, LocalTypes
<1>5. LocalTypes'
  BY <1>1, <1>3, <1>4 DEF IInv, LocalTypes
<1>6. \A q \in Proc \ {p} : SameFor(q, {})
  BY <1>1, <1>3, <1>4 DEF SameFor
<1>7. cmd(p)' = cmd(p) /\ snap(p)' = snap(p) /\ cobj' = cobj /\ cman' = cman /\ purged' = purged
      /\ aside' = aside /\ sobj' = sobj
  BY <1>1 DEF cmd, snap, Still, cache, store
<1>8. ASSUME NEW r, NEW e
      PROVE  /\ Stating(s, d) # Reading(r) /\ Stating(s, d) # Listing(r)
             /\ Stating(s, d) = Stating(r, e) => d = e
  BY DEF Listing, Reading, Stating
<1>9. Checked(p, todo'[p], flag'[p])
  <2>1. Checked(p, todo[p], flag[p])
    BY <1>2 DEF ProcOK, Scanning
  <2>2. \A q \in todo[p] : q \in todo'[p] \/ q = Stating(s, d)
    BY <1>3
  <2>3. CASE flag'[p]
    BY <1>8, <2>1, <2>2, <2>3 DEF Checked
  <2>4. CASE ~flag'[p]
    <3>1. ~flag[p] /\ cobj[d] # None
      BY <1>4, <2>4
    <3> QED BY <1>8, <2>1, <2>2, <3>1 DEF Checked
  <2> QED BY <2>3, <2>4
<1>10. Scanning(p, pc[p], todo[p], hand[p], flag[p])'
  <2>1. Checked(p, todo[p], flag[p])'
    BY <1>1, <1>7, <1>9 DEF Checked, ObjectsOf, Listing, Reading, Stating
  <2> QED BY <1>1, <1>2, <1>4, <1>7, <2>1 DEF ProcOK, Scanning
<1>11. /\ Kind(p, pc[p])' /\ Doing(p, pc[p], todo[p], hand[p])' /\ Filing(p, pc[p], todo[p])'
       /\ Fetching(p, pc[p], flag[p])' /\ Holding(p, pc[p], hand[p])'
  BY <1>1, <1>2, <1>7 DEF ProcOK, Kind, Doing, Filing, Fetching, Is, Holding, Logging, May
<1>12. ProcInv(p)'
  BY <1>10, <1>11 DEF ProcInv, ProcOK
<1> QED BY <1>1, <1>5, <1>6, <1>12, QuietStep DEF IInv, SharedTypes

LEMMA ScanKeeps ==
  ASSUME IInv, NEW p \in Proc, NEW d, Scan(p, d)
  PROVE  IInv'
<1>1. /\ queue[p] # <<>> /\ pc[p] = "scan" /\ d \in todo[p] /\ hand[p] = Empty /\ Still
      /\ UNCHANGED <<mirrored, handle>>
  BY DEF Scan, At, Still, tree, catalog
<1>2. /\ ProcOK(p, "scan", todo[p], hand[p], flag[p])
      /\ todo[p] \in SUBSET Data /\ todo[p] \ {d} \in SUBSET Work /\ d \in Data
  BY <1>1 DEF IInv, ProcInv, ProcOK, Doing, Work
<1>3. CASE End(p, "failed")
  BY <1>1, <1>3, QuietEnd DEF End, Logging
<1>4. ASSUME cobj[d] = d, Drop(p, d)
      PROVE  IInv'
  <2>1. Move(p, "scan", todo[p] \ {d}, Empty, {})
    BY <1>1, <1>4 DEF Drop, GotoWith
  <2>2. Scanning(p, "scan", todo[p] \ {d}, Empty, flag[p])
    BY <1>2, <1>4, CommandsAssumption DEF ProcOK, Scanning
  <2>3. ProcOK(p, "scan", todo[p] \ {d}, Empty, flag[p])
    BY <1>2, <2>2 DEF ProcOK, Doing, Filing, Fetching, Holding
  <2> QED BY <1>1, <1>2, <2>1, <2>3, QuietMove
<1>5. ASSUME flag' = [flag EXCEPT ![p] = TRUE], UNCHANGED <<queue, pc, status, touched>>,
             \/ hand' = [hand EXCEPT ![p] = Named(d)] /\ todo' = todo
             \/ todo' = [todo EXCEPT ![p] = @ \ {d}] /\ hand' = hand
      PROVE  IInv'
  <2>1. /\ todo' \in [Proc -> SUBSET Work] /\ todo'[p] \subseteq todo[p]
        /\ \A q \in Proc \ {p} : todo'[q] = todo[q]
    BY <1>2, <1>5 DEF IInv, LocalTypes
  <2>2. /\ hand' = [q \in Proc |-> hand'[q]] /\ \A q \in Proc \ {p} : hand'[q] = hand[q]
        /\ hand'[p] = Empty \/ (hand'[p] = Named(d) /\ todo' = todo)
    BY <1>1, <1>5 DEF IInv, LocalTypes
  <2>3. flag' \in [Proc -> BOOLEAN] /\ flag'[p] = TRUE /\ \A q \in Proc \ {p} : flag'[q] = flag[q]
    BY <1>5 DEF IInv, LocalTypes
  <2>4. LocalTypes'
    BY <1>5, <2>1, <2>2, <2>3 DEF IInv, LocalTypes
  <2>5. \A q \in Proc \ {p} : SameFor(q, {})
    BY <1>5, <2>1, <2>2, <2>3 DEF SameFor
  <2>6. hand'[p] # Empty => hand'[p].name \in todo'[p]
    BY <1>1, <2>2 DEF Named, Empty
  <2>7. pc'[p] = "scan" /\ queue' = queue /\ aside' = aside /\ handle' = handle
    BY <1>1, <1>5 DEF Still
  <2>8. Doing(p, pc[p], todo[p], hand[p])' /\ Scanning(p, pc[p], todo[p], hand[p], flag[p])'
    BY <1>2, <2>1, <2>3, <2>6, <2>7 DEF ProcOK, Doing, Scanning
  <2>9. /\ Kind(p, pc[p])' /\ Filing(p, pc[p], todo[p])' /\ Fetching(p, pc[p], flag[p])'
        /\ Holding(p, pc[p], hand[p])'
    BY <1>2, <2>7 DEF ProcOK, Kind, May, cmd, Filing, Fetching, Is, Holding
  <2>10. ProcInv(p)'
    BY <2>8, <2>9 DEF ProcInv, ProcOK
  <2> QED BY <1>1, <2>4, <2>5, <2>10, QuietStep DEF IInv, SharedTypes
<1> QED BY <1>3, <1>4, <1>5 DEF Scan

\* A step of flush-cache or of a purge, with the cache changed under hit.
LEMMA LoopMove ==
  ASSUME IInv, NEW p \in Proc, queue[p] # <<>>, pc[p] = "flush", NEW work \in SUBSET Work, NEW file,
         NEW hit \in SUBSET (Data \union Snap), Move(p, "flush", work, file, hit),
         UNCHANGED aside, handle[p] = "closed" => handle'[p] = "closed"
  PROVE  LocalTypes' /\ (\A q \in Proc \ {p} : SameFor(q, hit)) /\ ProcInv(p)'
<1>1. Moved(p, "flush", work, file, hit)
  BY MoveStep DEF IInv
<1>2. /\ LocalTypes' /\ (\A q \in Proc \ {p} : SameFor(q, hit))
      /\ queue' = queue /\ pc'[p] = "flush"
  BY <1>1 DEF Moved
<1>3. ProcOK(p, "flush", todo[p], hand[p], flag[p])
  BY DEF IInv, ProcInv
<1>4. Kind(p, pc[p])' /\ Fetching(p, pc[p], flag[p])'
  BY <1>2, <1>3 DEF ProcOK, Kind, May, cmd, Fetching, Is
<1>5. /\ Doing(p, pc[p], todo[p], hand[p])' /\ Filing(p, pc[p], todo[p])'
      /\ Scanning(p, pc[p], todo[p], hand[p], flag[p])' /\ Holding(p, pc[p], hand[p])'
  BY <1>2, <1>3 DEF ProcOK, Doing, Filing, Scanning, Holding, Logging
<1> QED BY <1>2, <1>4, <1>5 DEF ProcInv, ProcOK

LEMMA PurgeKeeps ==
  ASSUME IInv, NEW p \in Proc, Purge(p)
  PROVE  IInv'
<1> DEFINE d == hand[p].name
<1>1. /\ queue[p] # <<>> /\ pc[p] = "scan" /\ hand[p] # Empty
      /\ UNCHANGED <<cman, store, dest, links, aside, adrift, found, mirrored, handle>>
  BY DEF Purge, At, tree, catalog
<1>2. /\ ProcOK(p, "scan", todo[p], hand[p], flag[p]) /\ flag[p]
      /\ todo[p] \in SUBSET Data /\ todo[p] \ {d} \in SUBSET Work /\ d \in Data
  BY <1>1 DEF IInv, ProcInv, ProcOK, Doing, Scanning, Work
<1>3. CASE End(p, "failed") /\ UNCHANGED <<cobj, purged>>
  BY <1>1, <1>3, QuietEnd DEF End, Logging, Still, cache
<1>4. ASSUME cobj' = [cobj EXCEPT ![d] = None], purged' = purged \union {d},
             Move(p, "scan", todo[p] \ {d}, Empty, {d})
      PROVE  IInv'
  <2>1. Moved(p, "scan", todo[p] \ {d}, Empty, {d})
    BY <1>2, <1>4, MoveStep DEF IInv
  <2>2. /\ LocalTypes' /\ (\A q \in Proc \ {p} : SameFor(q, {d}))
        /\ queue' = queue /\ pc'[p] = "scan" /\ todo'[p] = todo[p] \ {d} /\ hand'[p] = Empty
        /\ flag'[p] = flag[p]
    BY <2>1 DEF Moved
  <2>3. purged' \subseteq Data
    BY <1>2, <1>4 DEF IInv, SharedTypes
  <2>4. /\ cobj' \in [Data -> Data \union {Bad, None}] /\ cman' \subseteq Snap
        /\ CacheKeeps({d}) /\ CacheInv'
    BY <1>1, <1>2, <1>4, <2>3, ObjectSet
  <2>5. /\ Kind(p, pc[p])' /\ Filing(p, pc[p], todo[p])' /\ Fetching(p, pc[p], flag[p])'
        /\ Holding(p, pc[p], hand[p])'
    BY <1>1, <1>2, <2>2 DEF ProcOK, Kind, May, cmd, Filing, Fetching, Is, Holding
  <2>6. Doing(p, pc[p], todo[p], hand[p])' /\ Scanning(p, pc[p], todo[p], hand[p], flag[p])'
    BY <1>1, <1>2, <2>2 DEF ProcOK, Doing, Scanning
  <2>7. ProcInv(p)'
    BY <2>5, <2>6 DEF ProcInv, ProcOK
  <2> QED BY <1>1, <1>2, <2>2, <2>3, <2>4, <2>7, CacheStep
<1> QED BY <1>3, <1>4 DEF Purge

LEMMA FlushKeeps ==
  ASSUME IInv, NEW p \in Proc, run_flush_cache(p)
  PROVE  IInv'
<1>1. /\ queue[p] # <<>> /\ pc[p] = "start" /\ Is(p, {"flush_cache"}) /\ Still
      /\ UNCHANGED <<mirrored, handle>>
  BY DEF run_flush_cache, At, Still, tree, catalog
<1>2. CASE End(p, "ok")
  BY <1>1, <1>2, QuietEnd DEF End, Logging
<1>3. CASE GotoWith(p, "flush", Entries)
  <2>1. Move(p, "flush", Entries, Empty, {}) /\ Entries \in SUBSET Work
    BY <1>3 DEF GotoWith, Work
  <2>2. ProcOK(p, "flush", Entries, Empty, flag[p])
    BY <1>1 DEF IInv, ProcInv, ProcOK, Kind, May, Is, Doing, Filing, Fetching, Scanning, Holding, Logging
  <2> QED BY <1>1, <2>1, <2>2, QuietMove
<1> QED BY <1>2, <1>3 DEF run_flush_cache, Entries

LEMMA FlushEntryKeeps ==
  ASSUME IInv, NEW p \in Proc, NEW e, FlushEntry(p, e)
  PROVE  IInv'
<1>1. /\ queue[p] # <<>> /\ pc[p] = "flush"
      /\ UNCHANGED <<store, dest, links, aside, adrift, found, mirrored>>
  BY DEF FlushEntry, At, tree
<1>2. /\ todo[p] \in SUBSET Work /\ todo[p] \ {e} \in SUBSET Work /\ handle[p] = "closed"
      /\ handle \in [Proc -> {"closed", "open", "orphan"}]
  BY <1>1 DEF IInv, LocalTypes, SharedTypes, ProcInv, ProcOK, Holding, Logging
<1>3. ASSUME Drop(p, e), UNCHANGED cache, handle'[p] = "closed",
             handle' \in [Proc -> {"closed", "open", "orphan"}],
             \A q \in Proc \ {p} : handle'[q] = "closed" <=> handle[q] = "closed"
      PROVE  IInv'
  <2>1. Move(p, "flush", todo[p] \ {e}, Empty, {}) /\ {} \in SUBSET (Data \union Snap) /\ UNCHANGED aside
    BY <1>1, <1>3 DEF Drop, GotoWith
  <2>2. LocalTypes' /\ (\A q \in Proc \ {p} : SameFor(q, {})) /\ ProcInv(p)'
    BY <1>1, <1>2, <1>3, <2>1, LoopMove
  <2> QED BY <1>1, <1>3, <2>2, QuietStep DEF Still
<1>4. ASSUME NEW d \in Data, cobj' = [cobj EXCEPT ![d] = None], purged' = purged \union {d},
             Move(p, "flush", todo[p], Named(e), {d}), UNCHANGED <<cman, handle>>
      PROVE  IInv'
  <2>1. LocalTypes' /\ (\A q \in Proc \ {p} : SameFor(q, {d})) /\ ProcInv(p)'
    BY <1>1, <1>2, <1>4, LoopMove
  <2>2. purged' \subseteq Data
    BY <1>4 DEF IInv, SharedTypes
  <2>3. /\ cobj' \in [Data -> Data \union {Bad, None}] /\ cman' \subseteq Snap
        /\ CacheKeeps({d}) /\ CacheInv'
    BY <1>4, <2>2, ObjectSet
  <2> QED BY <1>1, <1>4, <2>1, <2>2, <2>3, CacheStep
<1>5. ASSUME NEW s \in cman, cman' = cman \ {s}, Move(p, "flush", todo[p], Named(e), {s}),
             UNCHANGED <<cobj, purged, handle>>
      PROVE  IInv'
  <2>1. s \in Snap /\ {s} \in SUBSET (Data \union Snap) /\ UNCHANGED aside /\ handle'[p] = "closed"
    BY <1>1, <1>2, <1>5 DEF IInv, SharedTypes
  <2>2. LocalTypes' /\ (\A q \in Proc \ {p} : SameFor(q, {s})) /\ ProcInv(p)'
    BY <1>1, <1>2, <1>5, <2>1, LoopMove
  <2>3. /\ cobj' \in [Data -> Data \union {Bad, None}] /\ cman' \subseteq Snap
        /\ purged' \subseteq Data /\ CacheKeeps({s}) /\ CacheInv'
    BY <1>5, <2>1, ManifestGone
  <2> QED BY <1>1, <1>5, <2>1, <2>2, <2>3, CacheStep
<1>6. CASE unlink /\ Drop(p, e) /\ UNCHANGED cache
  <2>1. /\ handle' \in [Proc -> {"closed", "open", "orphan"}] /\ handle'[p] = "closed"
        /\ \A q \in Proc \ {p} : handle'[q] = "closed" <=> handle[q] = "closed"
    BY <1>2, <1>6 DEF unlink
  <2> QED BY <1>3, <1>6, <2>1
<1> QED BY <1>2, <1>3, <1>4, <1>5, <1>6 DEF FlushEntry, cache, catalog

-----------------------------------------------------------------------------
(* The catalog.                                                            *)

CatalogOf(p) ==
  /\ handle' \in [Proc -> {"closed", "open", "orphan"}]
  /\ \A q \in Proc \ {p} : handle'[q] = handle[q]

\* A step of logging, with the file open.
LEMMA LogMove ==
  ASSUME IInv, NEW p \in Proc, queue[p] # <<>>, NEW label \in Logging, NEW work \in SUBSET Work, NEW file,
         pc[p] \in {"start", "catalog"} \union Logging, Move(p, label, work, file, {}),
         May(cmd(p), label), file # Empty => label \in {"insert", "replay"},
         Still, UNCHANGED mirrored, CatalogOf(p)
  PROVE  IInv'
<1>1. Moved(p, label, work, file, {})
  BY MoveStep DEF IInv
<1>2. /\ LocalTypes' /\ (\A q \in Proc \ {p} : SameFor(q, {}))
      /\ queue' = queue /\ pc'[p] = label /\ hand'[p] = file
  BY <1>1 DEF Moved
<1>3. aside'[p] = NoSwap
  BY DEF IInv, ProcInv, ProcOK, Doing, Still, Logging
<1>4. cmd(p)' = cmd(p)
  BY <1>2 DEF cmd
<1>5. Kind(p, pc[p])' /\ Fetching(p, pc[p], flag[p])'
  BY <1>2, <1>4 DEF Kind, May, Fetching, Is, Logging
<1>6. /\ Doing(p, pc[p], todo[p], hand[p])' /\ Filing(p, pc[p], todo[p])'
      /\ Scanning(p, pc[p], todo[p], hand[p], flag[p])' /\ Holding(p, pc[p], hand[p])'
  BY <1>2, <1>3 DEF Doing, Filing, Scanning, Holding, Logging
<1>7. ProcInv(p)'
  BY <1>5, <1>6 DEF ProcInv, ProcOK
<1> QED BY <1>2, <1>7, QuietStep DEF CatalogOf

\* The command ends with the file closed.
LEMMA LogEnd ==
  ASSUME IInv, NEW p \in Proc, queue[p] # <<>>, NEW outcome \in {"ok", "failed"}, End(p, outcome),
         pc[p] \in {"start", "catalog"} \union Logging, Still, UNCHANGED mirrored, CatalogOf(p),
         handle'[p] = "closed"
  PROVE  IInv'
<1>1. Left(p, outcome, {})
  BY LeaveStep DEF IInv, End
<1>2. aside'[p] = NoSwap
  BY DEF IInv, ProcInv, ProcOK, Doing, Still, Logging
<1>3. LocalTypes' /\ (\A q \in Proc \ {p} : SameFor(q, {})) /\ ProcInv(p)'
  BY <1>1, <1>2, EndedProc
<1> QED BY <1>3, QuietStep DEF CatalogOf

LEMMA CatalogKeeps ==
  ASSUME IInv, NEW p \in Proc,
         \/ log_event(p) \/ LogEvent(p) \/ ReadHead(p) \/ Save(p) \/ CloseCatalog(p)
         \/ ClearLocation(p) \/ Rebuilt(p)
  PROVE  IInv'
<1>1. /\ queue[p] # <<>> /\ pc[p] \in {"start", "catalog"} \union Logging
      /\ Still /\ UNCHANGED mirrored
  BY DEF log_event, LogEvent, ReadHead, Save, CloseCatalog, ClearLocation, Rebuilt, At, Still, tree, Logging
<1>2. /\ ProcOK(p, pc[p], todo[p], hand[p], flag[p]) /\ sman \subseteq Snap
      /\ handle \in [Proc -> {"closed", "open", "orphan"}]
  BY DEF IInv, ProcInv, SharedTypes
<1>3. UNCHANGED handle => CatalogOf(p)
  BY <1>2 DEF CatalogOf
<1>4. close(p) => CatalogOf(p) /\ handle'[p] = "closed"
  BY <1>2 DEF CatalogOf, close
<1>5. open(p) => CatalogOf(p)
  BY <1>2 DEF CatalogOf, open
<1>6. ASSUME NEW label \in {"clear", "log", "head", "close"}, Goto(p, label), May(cmd(p), label),
             CatalogOf(p)
      PROVE  IInv'
  BY <1>1, <1>6, LogMove DEF Goto, GotoWith, Logging
<1>7. CASE log_event(p)
  <2>1. pc[p] \in {"start", "catalog"}
    BY <1>7 DEF log_event, At
  <2>2. CASE End(p, "ok") /\ UNCHANGED catalog
    BY <1>1, <2>1, <2>2, QuietEnd DEF End, Logging, catalog
  <2>3. CASE End(p, "failed") /\ UNCHANGED catalog
    BY <1>1, <2>1, <2>3, QuietEnd DEF End, Logging, catalog
  <2>4. CASE open(p) /\ Goto(p, IF Is(p, {"rebuild"}) THEN "clear" ELSE "log")
    BY <1>2, <1>5, <1>6, <1>7, <2>4 DEF log_event, At, ProcOK, Kind, May, Is
  <2> QED BY <1>7, <2>2, <2>3, <2>4 DEF log_event
<1>8. CASE LogEvent(p)
  BY <1>2, <1>3, <1>6, <1>8 DEF LogEvent, log, At, ProcOK, Kind, May
<1>9. CASE ReadHead(p)
  <2>1. CASE End(p, "ok") /\ close(p)
    BY <1>1, <1>4, <2>1, LogEnd
  <2>2. CASE Move(p, "insert", {}, Named(head_id(p, cmd(p).at)), {}) /\ UNCHANGED catalog
    BY <1>1, <1>2, <1>3, <1>9, <2>2, LogMove DEF ReadHead, At, ProcOK, Kind, May, catalog, Logging
  <2> QED BY <1>9, <2>1, <2>2 DEF ReadHead
<1>10. CASE Save(p)
  BY <1>2, <1>3, <1>6, <1>10 DEF Save, insert_history, At, ProcOK, Kind, May
<1>11. CASE CloseCatalog(p)
  BY <1>1, <1>4, <1>11, LogEnd DEF CloseCatalog
<1>12. CASE ClearLocation(p)
  <2>1. Move(p, "replay", sman, Empty, {}) /\ sman \in SUBSET Work /\ May(cmd(p), "replay")
    BY <1>2, <1>12 DEF ClearLocation, GotoWith, At, ProcOK, Kind, May, Work
  <2> QED BY <1>1, <1>3, <1>12, <2>1, LogMove DEF ClearLocation, clear_location, Logging
<1>13. CASE Rebuilt(p)
  BY <1>1, <1>4, <1>13, LogEnd DEF Rebuilt
<1> QED BY <1>7, <1>8, <1>9, <1>10, <1>11, <1>12, <1>13

LEMMA ReplayKeeps ==
  ASSUME IInv, NEW p \in Proc, NEW s, Replay(p, s)
  PROVE  IInv'
<1>1. /\ queue[p] # <<>> /\ pc[p] = "replay" /\ Still /\ UNCHANGED <<mirrored, handle>>
      /\ Move(p, "replay", todo[p] \ {s}, Named(s), {})
  BY DEF Replay, At, insert_history, Still, tree, catalog
<1>2. todo[p] \ {s} \in SUBSET Work /\ May(cmd(p), "replay")
  BY <1>1 DEF IInv, LocalTypes, ProcInv, ProcOK, Kind
<1>3. CatalogOf(p)
  BY <1>1 DEF CatalogOf, IInv, SharedTypes
<1> QED BY <1>1, <1>2, <1>3, LogMove DEF Logging

-----------------------------------------------------------------------------
(* What the commands must live with.                                       *)

LEMMA BitRotKeeps ==
  ASSUME IInv, NEW d \in Data, BitRot(d)
  PROVE  IInv'
<1> USE CommandsAssumption
<1>1. /\ cobj' = [cobj EXCEPT ![d] = Bad] /\ cobj[d] = d
      /\ touched' = [q \in Proc |-> IF pc[q] = "start" THEN {} ELSE touched[q] \union {d}]
      /\ UNCHANGED <<cman, purged, store, dest, links, aside, adrift, found, mirrored, handle>>
      /\ UNCHANGED <<queue, pc, todo, flag, hand, status>>
  BY DEF BitRot, tree, catalog
<1>2. LocalTypes' /\ \A q \in Proc : SameFor(q, {d})
  BY <1>1 DEF IInv, LocalTypes, SameFor
<1>3. purged' \subseteq Data
  BY <1>1 DEF IInv, SharedTypes
<1>4. /\ cobj' \in [Data -> Data \union {Bad, None}] /\ cman' \subseteq Snap
      /\ CacheKeeps({d}) /\ CacheInv'
  BY <1>1, <1>3, ObjectSet
<1>5. SharedTypes' /\ StoreInv' /\ OwnInv' /\ StoreKeeps
  BY <1>1, <1>3, <1>4 DEF IInv, SharedTypes, StoreInv, OwnInv, OwnFilesSurvive, StoreKeeps, store
<1>6. ASSUME NEW q \in Proc PROVE ProcInv(q)'
  <2>1. PICK p : p \notin Proc
    BY NoSetContainsEverything
  <2>2. OthersKeep(p)
    BY <1>1 DEF OthersKeep
  <2> QED BY <1>2, <1>4, <1>5, <2>1, <2>2, OtherProc
<1> QED BY <1>2, <1>4, <1>5, <1>6 DEF IInv

\* A command that is killed anywhere leaves a swap's tree behind.
LEMMA AbortKeeps ==
  ASSUME IInv, NEW p \in Proc, Abort(p)
  PROVE  IInv'
<1>1. /\ queue[p] # <<>> /\ Leave(p, "failed", {}) /\ close(p) /\ LeaveAside(p)
      /\ UNCHANGED <<cache, store, dest, links, found, mirrored>>
  BY DEF Abort, End
<1>2. /\ handle' \in [Proc -> {"closed", "open", "orphan"}] /\ handle'[p] = "closed"
      /\ \A q \in Proc \ {p} : handle'[q] = handle[q]
  BY <1>1 DEF IInv, SharedTypes, close
<1>3. /\ aside' \in [Proc -> [files : [DestPath -> Bytes], links : SUBSET DestPath]]
      /\ adrift' \subseteq [DestPath -> Bytes]
      /\ aside'[p] = NoSwap /\ \A q \in Proc \ {p} : aside'[q] = aside[q]
      /\ OwnFilesSurvive'
  BY <1>1, LeftAside
<1>4. Left(p, "failed", {})
  BY <1>1, LeaveStep DEF IInv
<1>5. LocalTypes' /\ (\A q \in Proc \ {p} : SameFor(q, {})) /\ ProcInv(p)'
  BY <1>2, <1>3, <1>4, EndedProc
<1>6. \A x \in aside'[p].links : aside'[p].files[x] \in Data
  BY <1>3, NoTreeTyped
<1> QED BY <1>1, <1>2, <1>3, <1>5, <1>6, TreeStep DEF IInv, SharedTypes

-----------------------------------------------------------------------------
(* The invariant.                                                          *)

LEMMA InitInvariant == Init => IInv
<1> USE CommandsAssumption, NoTreeTyped
<1> SUFFICES ASSUME Init PROVE IInv
  OBVIOUS
<1>1. PICK plan \in Plans :
        /\ queue = plan.run /\ sman = plan.stored
        /\ sobj = [sd \in Side |-> [d \in Data |->
                    IF sd = "main" /\ \E s \in plan.stored : d \in ObjectsOf(s) THEN d ELSE None]]
        /\ dest = IF plan.occupied
                    THEN [x \in DestPath |-> IF \E s \in Snap : x \in DOMAIN Tree[s] THEN None ELSE Own]
                    ELSE NoTree
  BY DEF Init
<1>2. /\ cobj = [d \in Data |-> None] /\ cman = {} /\ purged = {}
      /\ found = dest /\ links = {} /\ mirrored = {}
      /\ aside = [p \in Proc |-> NoSwap] /\ adrift = {}
      /\ pc = [p \in Proc |-> "start"] /\ todo = [p \in Proc |-> {}]
      /\ flag = [p \in Proc |-> FALSE] /\ hand = [p \in Proc |-> Empty]
      /\ status = [p \in Proc |-> "ok"] /\ touched = [p \in Proc |-> {}]
      /\ handle = [p \in Proc |-> "closed"]
  BY DEF Init, Fresh
<1>3. plan.run \in [Proc -> Seq(Command)] /\ plan.stored \subseteq Snap
  OBVIOUS
<1>4. LocalTypes
  BY <1>1, <1>2, <1>3 DEF LocalTypes
<1>5. dest \in [DestPath -> Bytes]
  BY <1>1 DEF Bytes
<1>6. sobj \in [Side -> [Data -> Data \union {Bad, None}]]
  BY <1>1
<1>7. SharedTypes
  BY <1>1, <1>2, <1>3, <1>5, <1>6 DEF SharedTypes
<1>8. CacheInv
  BY <1>2 DEF CacheInv
<1>9. ASSUME NEW s \in sman PROVE \A d \in ObjectsOf(s) : sobj["main"][d] # None
  <2>1. ObjectsOf(s) \subseteq Data /\ "main" \in Side
    BY <1>1, <1>3, ObjectsAreData DEF Side
  <2> QED BY <1>1, <2>1
<1>10. StoreInv
  BY <1>1, <1>9 DEF StoreInv, Side
<1>11. OwnInv
  BY <1>1, <1>2 DEF OwnInv, OwnFilesSurvive
<1>12. ASSUME NEW p \in Proc PROVE ProcInv(p)
  BY <1>2 DEF ProcInv, ProcOK, Kind, Doing, Filing, Fetching, Scanning, Holding
<1> QED BY <1>4, <1>7, <1>8, <1>10, <1>11, <1>12 DEF IInv

\* Every step of a command keeps the invariant.
LEMMA StepInvariant ==
  ASSUME IInv, NEW p \in Proc, Step(p)
  PROVE  IInv'
<1>1. CASE \/ CachePush(p) \/ CacheManifest(p) \/ StorePush(p) \/ StoreManifest(p)
           \/ ExternalPush(p) \/ ExternalManifest(p) \/ ExternalFetched(p)
           \/ run_stage(p) \/ run_push(p) \/ push_by_id(p) \/ Materialize(p)
  BY <1>1, CachePushKeeps, ManifestKeeps, StorePushKeeps, StoreManifestKeeps, StageKeeps
<1>2. CASE \/ fetch_inner(p) \/ GetManifest(p) \/ HealCache(p) \/ RemoveStale(p) \/ Validate(p)
  BY <1>2, FetchInnerKeeps, GetManifestKeeps, HealKeeps, RemoveStaleKeeps, ValidateKeeps
<1>3. CASE \/ checkout_inner(p) \/ Collect(p) \/ CheckAndRename(p) \/ Materialized(p) \/ Pruned(p)
           \/ BuildStaging(p) \/ RenameAside(p) \/ SwapIn(p) \/ DropOld(p)
  BY <1>3, CheckoutInnerKeeps, CollectKeeps, CheckAndRenameKeeps, MaterializedKeeps, PrunedKeeps,
     BuildStagingKeeps, RenameAsideKeeps, SwapInKeeps, DropOldKeeps
<1>4. CASE \/ run_verify(p) \/ run_verify_cache(p) \/ Purge(p) \/ Scanned(p)
           \/ CacheVerified(p) \/ run_flush_cache(p) \/ Flushed(p)
  BY <1>4, VerifyKeeps, VerifyCacheKeeps, PurgeKeeps, ScannedKeeps, FlushKeeps
<1>5. CASE \/ log_event(p) \/ LogEvent(p) \/ ReadHead(p) \/ Save(p) \/ CloseCatalog(p)
           \/ ClearLocation(p) \/ Rebuilt(p)
  BY <1>5, CatalogKeeps
<1>6. CASE \E d \in Data : CacheCopy(p, d) \/ StoreCopy(p, d) \/ ExternalSend(p, d)
                             \/ ExternalFetch(p, d) \/ TornGet(p, d) \/ Scan(p, d)
  BY <1>6, CacheCopyKeeps, StoreCopyKeeps, ExternalFetchKeeps, ScanKeeps
<1>7. CASE \E x \in DestPath : CopyFile(p, x) \/ Link(p, x) \/ Prune(p, x)
  BY <1>7, CopyFileKeeps, LinkKeeps, PruneKeeps
<1>8. CASE \/ \E e \in {".objects", ".manifests", "catalog"} : FlushEntry(p, e)
           \/ \E s \in Snap : Replay(p, s) \/ ListManifest(p, s) \/ ReadListed(p, s)
                               \/ \E d \in Data : StatObject(p, s, d)
  BY <1>8, FlushEntryKeeps, ReplayKeeps, GapsKeep, StatObjectKeeps
<1> QED BY <1>1, <1>2, <1>3, <1>4, <1>5, <1>6, <1>7, <1>8 DEF Step

\* So does every step of the system.
LEMMA NextInvariant == IInv /\ [Next]_vars => IInv'
<1> SUFFICES ASSUME IInv, [Next]_vars PROVE IInv'
  OBVIOUS
<1>1. ASSUME NEW p \in Proc, Step(p) PROVE IInv'
  BY <1>1, StepInvariant
<1>2. ASSUME NEW p \in Proc, Abort(p) PROVE IInv'
  BY <1>2, AbortKeeps
<1>3. ASSUME NEW d \in Data, BitRot(d) PROVE IInv'
  BY <1>3, BitRotKeeps
<1>4. CASE UNCHANGED vars
  <2>1. /\ UNCHANGED <<cobj, cman, purged, sobj, sman, shimmed, dest, links, aside, adrift, found, mirrored>>
        /\ UNCHANGED <<queue, pc, todo, flag, hand, status, touched, handle>>
    BY <1>4 DEF vars, cache, store, tree, local, catalog
  <2>2. SharedTypes' /\ LocalTypes' /\ CacheInv' /\ StoreInv' /\ OwnInv'
    BY <2>1 DEF IInv, SharedTypes, LocalTypes, CacheInv, StoreInv, OwnInv, OwnFilesSurvive, ObjectsOf
  <2>3. ASSUME NEW p \in Proc PROVE ProcInv(p)'
    <3>1. ProcInv(p) /\ cmd(p)' = cmd(p) /\ snap(p)' = snap(p) /\ side(p)' = side(p)
      BY <2>1 DEF IInv, cmd, snap, side
    <3>2. Kind(p, pc[p])' /\ Doing(p, pc[p], todo[p], hand[p])' /\ Filing(p, pc[p], todo[p])'
      BY <2>1, <3>1 DEF ProcInv, ProcOK, Kind, Doing, Filing, ObjectsOf
    <3>3. Checked(p, todo[p], flag[p])' <=> Checked(p, todo[p], flag[p])
      BY <2>1, <3>1 DEF Checked, ObjectsOf, Listing, Reading, Stating
    <3>4. /\ Fetching(p, pc[p], flag[p])' /\ Scanning(p, pc[p], todo[p], hand[p], flag[p])'
          /\ Holding(p, pc[p], hand[p])'
      BY <2>1, <3>1, <3>3 DEF ProcInv, ProcOK, Fetching, Cached, Is, missing_cache_objects, ObjectsOf,
                              Scanning, Holding
    <3> QED BY <3>2, <3>4 DEF ProcInv, ProcOK
  <2> QED BY <2>2, <2>3 DEF IInv
<1> QED BY <1>1, <1>2, <1>3, <1>4 DEF Next

\* The inductive invariant holds, for any commands, kills and rot
\* (run_stage, run_push, fetch_inner, checkout_inner, verify_cache, flush_cache).
THEOREM Invariant == Spec => []IInv
  BY InitInvariant, NextInvariant, PTL DEF Spec

\* No command files a manifest before its objects, in the cache or in the store.
THEOREM ManifestsAreBacked == Spec => []ManifestsBacked
<1>1. ASSUME IInv PROVE ManifestsBacked
  <2>1. TypeOK
    BY <1>1 DEF IInv, SharedTypes, LocalTypes, ProcInv, ProcOK, Holding, TypeOK
  <2>2. \A s \in cman : \A d \in ObjectsOf(s) : cobj[d] = None => d \in purged
    BY <1>1 DEF IInv, CacheInv
  <2>3. ASSUME NEW s \in sman
        PROVE  \E sd \in Side : \A d \in ObjectsOf(s) :
                 sobj[sd][d] # None /\ (sobj[sd][d] = d \/ shimmed)
    <3>1. ObjectsOf(s) \subseteq Data
      BY <1>1, ObjectsAreData DEF IInv, SharedTypes
    <3> QED BY <1>1, <3>1 DEF IInv, StoreInv
  <2> QED BY <2>1, <2>2, <2>3 DEF ManifestsBacked
<1> QED BY <1>1, Invariant, PTL

\* The user's files survive whatever swaps race, fail or are killed.
THEOREM OwnFilesAreSafe == Spec => []OwnFilesSurvive
<1>1. IInv => OwnFilesSurvive
  BY DEF IInv, OwnInv
<1> QED BY <1>1, Invariant, PTL

-----------------------------------------------------------------------------
(* What a success means.                                                   *)

\* How a step of p moves it on, as the others see it.
Seen(p, hit) ==
  /\ \A q \in Proc \ {p} : SameFor(q, hit)
  /\ UNCHANGED queue \/ queue' = [queue EXCEPT ![p] = Tail(@)]

\* What a step of p touches is noted for everybody else.
LEMMA LeaveSeen ==
  ASSUME LocalTypes, NEW p \in Proc
  PROVE  /\ \A outcome, hit : Leave(p, outcome, hit) => Seen(p, hit)
         /\ \A label, work, file, hit : Move(p, label, work, file, hit) => Seen(p, hit)
<1>1. ASSUME NEW outcome, NEW hit, Leave(p, outcome, hit) PROVE Seen(p, hit)
  BY <1>1 DEF LocalTypes, Leave, Touch, SameFor, Seen
<1>2. ASSUME NEW label, NEW work, NEW file, NEW hit, Move(p, label, work, file, hit)
      PROVE  Seen(p, hit)
  BY <1>2 DEF LocalTypes, Move, Touch, SameFor, Seen
<1> QED BY <1>1, <1>2

\* The same for the forms such a step comes in.
LEMMA GotoSeen ==
  ASSUME LocalTypes, NEW p \in Proc
  PROVE  /\ \A outcome : End(p, outcome) => Seen(p, {})
         /\ \A label : Goto(p, label) => Seen(p, {})
         /\ \A label, work : GotoWith(p, label, work) => Seen(p, {})
         /\ \A x : Drop(p, x) => Seen(p, {})
         /\ \A file : Hold(p, file) => Seen(p, {})
         /\ \A hit : AfterCache(p, hit) => Seen(p, hit)
         /\ AfterStore(p) => Seen(p, {})
  BY LeaveSeen DEF End, Goto, GotoWith, Drop, Hold, AfterCache, AfterStore

\* A step of p that leaves the cache and the destination as they are.
LEMMA QuietSeen ==
  ASSUME IInv, NEW p \in Proc,
         \/ CachePush(p) \/ StorePush(p) \/ StoreManifest(p) \/ ExternalPush(p) \/ ExternalManifest(p)
         \/ run_stage(p) \/ run_push(p) \/ push_by_id(p) \/ Materialize(p)
         \/ fetch_inner(p) \/ GetManifest(p) \/ HealCache(p) \/ Validate(p)
         \/ checkout_inner(p) \/ Collect(p) \/ Materialized(p) \/ Pruned(p)
         \/ BuildStaging(p) \/ DropOld(p) \/ run_verify(p) \/ run_verify_cache(p) \/ Scanned(p)
         \/ CacheVerified(p) \/ run_flush_cache(p) \/ Flushed(p) \/ log_event(p) \/ LogEvent(p) \/ ReadHead(p) \/ Save(p)
         \/ CloseCatalog(p) \/ ClearLocation(p) \/ Rebuilt(p) \/ Abort(p)
         \/ \E d : StoreCopy(p, d) \/ ExternalSend(p, d) \/ Scan(p, d)
         \/ \E x : CopyFile(p, x)
         \/ \E s : Replay(p, s) \/ ListManifest(p, s) \/ ReadListed(p, s) \/ \E d : StatObject(p, s, d)
  PROVE  Seen(p, {}) /\ UNCHANGED <<cache, dest, links>>
<1> USE GotoSeen, LeaveSeen
<1> LocalTypes
  BY DEF IInv
<1>1. CASE \/ CachePush(p) \/ StorePush(p) \/ StoreManifest(p) \/ ExternalPush(p) \/ ExternalManifest(p)
           \/ run_stage(p) \/ run_push(p) \/ push_by_id(p) \/ Materialize(p)
  BY <1>1 DEF CachePush, StorePush, StoreManifest, ExternalPush, ExternalManifest, run_stage, run_push,
              push_by_id, Materialize, tree
<1>2. CASE fetch_inner(p)
  <2>1. UNCHANGED <<queue, todo, hand, status, touched>> /\ pc' = [pc EXCEPT ![p] = "get"]
          /\ flag' = [flag EXCEPT ![p] = snap(p) \in cman /\ ~cmd(p).api] => Seen(p, {})
    BY DEF LocalTypes, Seen, SameFor
  <2> QED BY <1>2, <2>1 DEF fetch_inner, tree
<1>3. CASE GetManifest(p) \/ HealCache(p) \/ Validate(p)
  BY <1>3 DEF GetManifest, HealCache, Validate, tree
<1>4. CASE \/ checkout_inner(p) \/ Collect(p) \/ Materialized(p) \/ Pruned(p)
           \/ BuildStaging(p) \/ DropOld(p) \/ \E x : CopyFile(p, x)
  BY <1>4 DEF checkout_inner, Collect, Materialized, Pruned, BuildStaging, DropOld, CopyFile, tree
<1>5. CASE \/ run_verify(p) \/ run_verify_cache(p) \/ Scanned(p) \/ CacheVerified(p)
           \/ run_flush_cache(p) \/ Flushed(p) \/ \E s : ListManifest(p, s) \/ ReadListed(p, s)
  BY <1>5 DEF run_verify, run_verify_cache, Scanned, CacheVerified, run_flush_cache, Flushed,
              ListManifest, ReadListed, tree
<1>6. CASE \/ log_event(p) \/ LogEvent(p) \/ ReadHead(p) \/ Save(p)
           \/ CloseCatalog(p) \/ ClearLocation(p) \/ Rebuilt(p) \/ \E s : Replay(p, s)
  BY <1>6 DEF log_event, LogEvent, ReadHead, Save, CloseCatalog, ClearLocation, Rebuilt, Replay, tree
<1>7. CASE Abort(p)
  BY <1>7 DEF Abort
<1>8. CASE \E d : StoreCopy(p, d) \/ ExternalSend(p, d)
  BY <1>8 DEF StoreCopy, ExternalSend, tree
<1>9. ASSUME NEW d, Scan(p, d) PROVE Seen(p, {}) /\ UNCHANGED <<cache, dest, links>>
  <2>1. ASSUME flag' = [flag EXCEPT ![p] = TRUE], UNCHANGED <<queue, pc, status, touched>>,
               \/ hand' = [hand EXCEPT ![p] = Named(d)] /\ todo' = todo
               \/ todo' = [todo EXCEPT ![p] = @ \ {d}] /\ hand' = hand
        PROVE  Seen(p, {})
    BY <2>1 DEF LocalTypes, Seen, SameFor
  <2> QED BY <1>9, <2>1 DEF Scan, tree
<1>10. ASSUME NEW s, NEW d, StatObject(p, s, d) PROVE Seen(p, {}) /\ UNCHANGED <<cache, dest, links>>
  BY <1>10 DEF StatObject, LocalTypes, Seen, SameFor, tree
<1> QED BY <1>1, <1>2, <1>3, <1>4, <1>5, <1>6, <1>7, <1>8, <1>9, <1>10

\* What any step of p does to the others: it tells them what it has spoilt,
\* lost or filed, and it writes the destination only for a command that may.
Told(p, hit) ==
  /\ Seen(p, hit) /\ CacheKeeps(hit)
  /\ UNCHANGED <<dest, links>> \/ (queue[p] # <<>> /\ Writes(cmd(p)))

\* Every step of p tells the others all that it does to the cache.
LEMMA StepTold ==
  ASSUME IInv, NEW p \in Proc, Step(p) \/ Abort(p)
  PROVE  \E hit \in SUBSET (Data \union Snap) : Told(p, hit)
<1> USE CommandsAssumption, GotoSeen, LeaveSeen
<1> LocalTypes
  BY DEF IInv
<1>1. ASSUME Seen(p, {}), UNCHANGED <<cache, dest, links>>
      PROVE  \E hit \in SUBSET (Data \union Snap) : Told(p, hit)
  <2>1. Told(p, {})
    BY <1>1 DEF Told, CacheKeeps, cache
  <2> QED BY <2>1
<1>2. ASSUME CacheManifest(p) \/ ExternalFetched(p)
      PROVE  \E hit \in SUBSET (Data \union Snap) : Told(p, hit)
  <2>1. queue[p] # <<>> /\ cman' = cman \union {snap(p)} /\ AfterCache(p, {snap(p)})
        /\ UNCHANGED <<cobj, purged, dest, links>>
    BY <1>2 DEF CacheManifest, ExternalFetched, At, tree
  <2>2. snap(p) \in Snap
    BY <2>1, Asked
  <2>3. Told(p, {snap(p)})
    BY <2>1, GotoSeen DEF Told, CacheKeeps
  <2> QED BY <2>2, <2>3
<1>3. ASSUME RemoveStale(p)
      PROVE  \E hit \in SUBSET (Data \union Snap) : Told(p, hit)
  <2>1. queue[p] # <<>> /\ cman' = cman \ {snap(p)} /\ UNCHANGED <<cobj, purged, dest, links>>
    BY <1>3 DEF RemoveStale, At, tree
  <2>2. snap(p) \in Snap
    BY <2>1, Asked
  <2>3. CASE snap(p) \in cman
    <3>1. Told(p, {snap(p)})
      BY <1>3, <2>1, <2>3 DEF RemoveStale, Told, CacheKeeps
    <3> QED BY <2>2, <3>1
  <2>4. CASE snap(p) \notin cman
    BY <1>1, <1>3, <2>1, <2>4 DEF RemoveStale, cache
  <2> QED BY <2>3, <2>4
<1>4. ASSUME NEW d, CacheCopy(p, d) \/ ExternalFetch(p, d) \/ TornGet(p, d)
      PROVE  \E hit \in SUBSET (Data \union Snap) : Told(p, hit)
  <2>1. queue[p] # <<>> /\ pc[p] \in {"ccopy", "xfetch"} /\ d \in todo[p] /\ UNCHANGED <<cman, dest, links>>
    BY <1>4 DEF CacheCopy, ExternalFetch, TornGet, At, tree
  <2>2. d \in Data /\ purged \subseteq Data /\ (purged \ {d}) \subseteq Data
    BY <2>1, Asked DEF IInv, ProcInv, ProcOK, Doing, SharedTypes
  <2>3. sobj.main[d] # None => sobj.main[d] \in {d, Bad}
    BY <2>2 DEF IInv, StoreInv, Side
  <2>4. ASSUME NEW hit \in SUBSET (Data \union Snap), NEW v \in {d, Bad}, Seen(p, hit),
               d \in hit \/ v = cobj[d] \/ (cobj[d] = None /\ v = d),
               cobj' = [cobj EXCEPT ![d] = v], purged' = purged \ {d}
        PROVE  \E h \in SUBSET (Data \union Snap) : Told(p, h)
    <3>1. CacheKeeps(hit)
      BY <2>1, <2>2, <2>4, ObjectSet
    <3>2. Told(p, hit)
      BY <2>1, <2>4, <3>1 DEF Told
    <3> QED BY <3>2
  <2>5. CASE CacheCopy(p, d)
    <3>1. Seen(p, {d}) /\ cobj' = [cobj EXCEPT ![d] = d] /\ purged' = purged \ {d}
      BY <2>5 DEF CacheCopy
    <3>2. {d} \in SUBSET (Data \union Snap)
      BY <2>2
    <3> QED BY <2>4, <3>1, <3>2
  <2>6. ASSUME sobj.main[d] # None, cobj' = [cobj EXCEPT ![d] = sobj.main[d]], purged' = purged \ {d},
               Move(p, "xfetch", todo[p] \ {d}, Empty,
                    IF cobj[d] \in {None, d} /\ sobj.main[d] = d THEN {} ELSE {d})
        PROVE  \E h \in SUBSET (Data \union Snap) : Told(p, h)
    <3> DEFINE hit == IF cobj[d] \in {None, d} /\ sobj.main[d] = d THEN {} ELSE {d}
    <3>1. hit \in SUBSET (Data \union Snap) /\ Seen(p, hit)
      BY <2>2, <2>6
    <3>2. d \in hit \/ sobj.main[d] = cobj[d] \/ (cobj[d] = None /\ sobj.main[d] = d)
      BY <2>3, <2>6
    <3> QED BY <2>3, <2>4, <2>6, <3>1, <3>2
  <2>7. ASSUME cobj' = [cobj EXCEPT ![d] = Bad], purged' = purged \ {d}, Seen(p, {d})
        PROVE  \E h \in SUBSET (Data \union Snap) : Told(p, h)
    <3>1. {d} \in SUBSET (Data \union Snap)
      BY <2>2
    <3> QED BY <2>4, <2>7, <3>1
  <2>8. CASE ExternalFetch(p, d)
    <3>1. End(p, "failed") /\ UNCHANGED <<cobj, purged>>
            => \E h \in SUBSET (Data \union Snap) : Told(p, h)
      BY <1>1, <2>1 DEF cache
    <3> QED BY <2>6, <2>7, <2>8, <3>1 DEF ExternalFetch
  <2>9. CASE TornGet(p, d)
    BY <2>7, <2>9 DEF TornGet
  <2> QED BY <1>4, <2>5, <2>8, <2>9
<1>5. ASSUME Purge(p) \/ \E e : FlushEntry(p, e)
      PROVE  \E hit \in SUBSET (Data \union Snap) : Told(p, hit)
  <2>1. ASSUME NEW d \in Data, cobj' = [cobj EXCEPT ![d] = None], purged' = purged \union {d},
               Seen(p, {d}), UNCHANGED <<cman, dest, links>>
        PROVE  \E hit \in SUBSET (Data \union Snap) : Told(p, hit)
    <3>1. purged' \subseteq Data
      BY <2>1 DEF IInv, SharedTypes
    <3>2. CacheKeeps({d})
      BY <2>1, <3>1, ObjectSet
    <3>3. Told(p, {d})
      BY <2>1, <3>2 DEF Told
    <3> QED BY <3>3
  <2>2. ASSUME NEW s \in cman, cman' = cman \ {s}, Seen(p, {s}), UNCHANGED <<cobj, purged, dest, links>>
        PROVE  \E hit \in SUBSET (Data \union Snap) : Told(p, hit)
    <3>1. s \in Snap
      BY DEF IInv, SharedTypes
    <3>2. Told(p, {s})
      BY <2>2 DEF Told, CacheKeeps
    <3> QED BY <3>1, <3>2
  <2>3. CASE Purge(p)
    <3>1. hand[p].name \in Data /\ UNCHANGED <<cman, dest, links>>
      BY <2>3 DEF Purge, At, tree, IInv, ProcInv, ProcOK, Doing
    <3> QED BY <1>1, <2>1, <2>3, <3>1 DEF Purge, cache
  <2>4. ASSUME NEW e, FlushEntry(p, e)
        PROVE  \E hit \in SUBSET (Data \union Snap) : Told(p, hit)
    <3>1. UNCHANGED <<dest, links>>
      BY <2>4 DEF FlushEntry, tree
    <3> QED BY <1>1, <2>1, <2>2, <2>4, <3>1 DEF FlushEntry, cache
  <2> QED BY <1>5, <2>3, <2>4
<1>6. ASSUME \/ CheckAndRename(p) \/ RenameAside(p) \/ SwapIn(p)
             \/ \E x : Link(p, x) \/ Prune(p, x)
      PROVE  \E hit \in SUBSET (Data \union Snap) : Told(p, hit)
  <2>1. Seen(p, {}) /\ UNCHANGED cache
    BY <1>6 DEF CheckAndRename, RenameAside, SwapIn, Link, Prune, LeaveAside
  <2>2. /\ queue[p] # <<>> /\ pc[p] \in {"copy", "link", "prune", "swap", "swapin"}
        /\ May(cmd(p), pc[p])
    BY <1>6 DEF CheckAndRename, RenameAside, SwapIn, Link, Prune, At, IInv, ProcInv, ProcOK, Kind
  <2>3. Told(p, {})
    BY <2>1, <2>2 DEF Told, CacheKeeps, cache, May, Writes
  <2> QED BY <2>3
<1> QED BY <1>1, <1>2, <1>3, <1>4, <1>5, <1>6, QuietSeen DEF Step

\* A step of q leaves the commands of p, and so p's success is p's own step.
LEMMA OwnSuccess ==
  ASSUME IInv, [Next]_vars, NEW p \in Proc, queue'[p] # queue[p], status'[p] = "ok"
  PROVE  Step(p)
<1>1. ASSUME NEW q \in Proc, q # p, Step(q) \/ Abort(q) PROVE FALSE
  BY <1>1, StepTold DEF Told, Seen, SameFor
<1>2. ~Abort(p)
  BY DEF Abort, End, Leave, IInv, LocalTypes
<1>3. ASSUME NEW d \in Data, BitRot(d) PROVE FALSE
  BY <1>3 DEF BitRot
<1>4. ~UNCHANGED vars
  BY DEF vars, local
<1> QED BY <1>1, <1>2, <1>3, <1>4 DEF Next

Succeeded(p) == queue'[p] # queue[p] /\ status'[p] = "ok"

\* Only the end of a command reports a success.
LEMMA NoSuccess ==
  ASSUME LocalTypes, NEW p \in Proc
  PROVE  /\ \A hit : ~(Leave(p, "failed", hit) /\ Succeeded(p))
         /\ \A label, work, file, hit : ~(Move(p, label, work, file, hit) /\ Succeeded(p))
         /\ ~(End(p, "failed") /\ Succeeded(p))
         /\ \A label : ~(Goto(p, label) /\ Succeeded(p))
         /\ \A label, work : ~(GotoWith(p, label, work) /\ Succeeded(p))
         /\ \A x : ~(Drop(p, x) /\ Succeeded(p))
         /\ \A file : ~(Hold(p, file) /\ Succeeded(p))
<1>1. \A hit : ~(Leave(p, "failed", hit) /\ Succeeded(p))
  BY DEF LocalTypes, Leave, Succeeded
<1>2. \A label, work, file, hit : ~(Move(p, label, work, file, hit) /\ Succeeded(p))
  BY DEF Move, Succeeded
<1> QED BY <1>1, <1>2 DEF End, Goto, GotoWith, Drop, Hold

\* Where a fetch, a pull, a checkout or a verify-cache may succeed.
LEMMA SuccessSteps ==
  ASSUME IInv, NEW p \in Proc, Step(p), Succeeds(p, {"fetch", "pull", "checkout", "verify_cache"})
  PROVE  fetch_inner(p) \/ CachePush(p) \/ CacheManifest(p) \/ ExternalFetched(p) \/ Validate(p)
           \/ Materialized(p) \/ Pruned(p) \/ Scanned(p) \/ CacheVerified(p)
<1> USE NoSuccess
<1>0. /\ LocalTypes /\ queue[p] # <<>> /\ ProcOK(p, pc[p], todo[p], hand[p], flag[p])
      /\ Succeeded(p) /\ ~cmd(p).dryrun
      /\ cmd(p).cmd \in {"fetch", "pull", "checkout", "verify_cache"}
  BY DEF IInv, ProcInv, Succeeds, Succeeded, Is
<1>1. ~(StorePush(p) \/ StoreManifest(p) \/ ExternalPush(p) \/ ExternalManifest(p))
  BY <1>0 DEF StorePush, StoreManifest, ExternalPush, ExternalManifest, At, ProcOK, Kind, May
<1>2. ~(run_stage(p) \/ run_push(p) \/ push_by_id(p) \/ Materialize(p))
  BY <1>0 DEF run_stage, run_push, push_by_id, Materialize, At, Is, ProcOK, Kind, May
<1>3. ~(GetManifest(p) \/ HealCache(p) \/ RemoveStale(p))
  BY <1>0 DEF GetManifest, HealCache, RemoveStale
<1>4. ~(checkout_inner(p) \/ Collect(p) \/ CheckAndRename(p))
  BY <1>0 DEF checkout_inner, Collect, CheckAndRename
<1>5. ~(BuildStaging(p) \/ RenameAside(p) \/ SwapIn(p) \/ DropOld(p))
  BY <1>0 DEF BuildStaging, RenameAside, SwapIn, DropOld, At, ProcOK, Kind, May
<1>6. ~(run_verify(p) \/ run_verify_cache(p) \/ Purge(p) \/ run_flush_cache(p) \/ Flushed(p))
  BY <1>0 DEF run_verify, run_verify_cache, Purge, run_flush_cache, Flushed, At, Is, ProcOK, Kind, May
<1>7. ~(log_event(p) \/ LogEvent(p) \/ ReadHead(p) \/ Save(p) \/ CloseCatalog(p) \/ ClearLocation(p)
        \/ Rebuilt(p))
  BY <1>0 DEF log_event, LogEvent, ReadHead, Save, CloseCatalog, ClearLocation, Rebuilt, At, Is,
              ProcOK, Kind, May
<1>8. ASSUME NEW d \in Data
      PROVE  ~(CacheCopy(p, d) \/ StoreCopy(p, d) \/ ExternalSend(p, d)
               \/ ExternalFetch(p, d) \/ TornGet(p, d))
  BY <1>0 DEF CacheCopy, StoreCopy, ExternalSend, ExternalFetch, TornGet
<1>9. ASSUME NEW d \in Data PROVE ~Scan(p, d)
  <2>1. ~(UNCHANGED <<queue, pc, status, touched>>)
    BY <1>0 DEF Succeeded
  <2> QED BY <1>0, <2>1 DEF Scan
<1>10. ASSUME NEW x \in DestPath PROVE ~(CopyFile(p, x) \/ Link(p, x) \/ Prune(p, x))
  BY <1>0 DEF CopyFile, Link, Prune
<1>11. ASSUME NEW e PROVE ~FlushEntry(p, e)
  BY <1>0 DEF FlushEntry
<1>12. ASSUME NEW s PROVE ~(Replay(p, s) \/ ListManifest(p, s) \/ ReadListed(p, s))
  BY <1>0 DEF Replay, ListManifest, ReadListed
<1>13. ASSUME NEW s, NEW d PROVE ~StatObject(p, s, d)
  <2>1. ~(UNCHANGED <<queue, pc, hand, status, touched>>)
    BY <1>0 DEF Succeeded
  <2> QED BY <2>1 DEF StatObject
<1> QED BY <1>1, <1>2, <1>3, <1>4, <1>5, <1>6, <1>7, <1>8, <1>9, <1>10, <1>11, <1>12, <1>13 DEF Step

\* A fetch or pull that succeeds has cached the snapshot.
LEMMA FetchSuccess ==
  ASSUME IInv, NEW p \in Proc, Step(p), Succeeds(p, {"fetch", "pull"})
  PROVE  \/ snap(p) \in touched[p]
         \/ snap(p) \in cman' /\ missing_cache_objects(snap(p)) \subseteq touched[p]
<1> USE NoSuccess, CommandsAssumption
<1>1. /\ LocalTypes /\ queue[p] # <<>> /\ ProcOK(p, pc[p], todo[p], hand[p], flag[p])
      /\ Succeeded(p) /\ ~cmd(p).dryrun /\ Is(p, {"fetch", "pull"})
      /\ cmd(p) \in Command /\ ObjectsOf(snap(p)) \subseteq Data
  BY Asked DEF IInv, ProcInv, Succeeds, Succeeded
<1>2. \/ fetch_inner(p) \/ CachePush(p) \/ CacheManifest(p) \/ ExternalFetched(p) \/ Validate(p)
      \/ Materialized(p) \/ Pruned(p) \/ Scanned(p) \/ CacheVerified(p)
  BY <1>1, SuccessSteps DEF Succeeds, Is
<1>3. CASE fetch_inner(p)
  <2>1. ~UNCHANGED <<queue, todo, hand, status, touched>>
    BY <1>1 DEF Succeeded
  <2> QED BY <1>1, <1>3, <2>1 DEF fetch_inner, cache
<1>4. ASSUME NEW hit, AfterCache(p, hit) PROVE ~cmd(p).api /\ Is(p, {"fetch"})
  BY <1>1, <1>4 DEF AfterCache, Is
<1>5. CASE CachePush(p)
  <2>1. AfterCache(p, {}) /\ snap(p) \in cman /\ pc[p] = "cpush"
    BY <1>1, <1>5 DEF CachePush, At
  <2> QED BY <1>1, <1>4, <2>1 DEF ProcOK, Fetching
<1>6. CASE CacheManifest(p) \/ ExternalFetched(p)
  <2>1. snap(p) \in cman' /\ pc[p] \in {"ccopy", "xfetch"} /\ todo[p] = {}
    BY <1>6 DEF CacheManifest, ExternalFetched, At
  <2> QED BY <1>1, <2>1 DEF ProcOK, Filing, missing_cache_objects
<1>7. CASE Validate(p)
  <2>1. /\ snap(p) \in cman /\ cman' = cman /\ \A d \in ObjectsOf(snap(p)) : cobj[d] = d
    BY <1>1, <1>7 DEF Validate, cache
  <2> QED BY <1>1, <2>1 DEF missing_cache_objects
<1>8. CASE Materialized(p) \/ Pruned(p)
  <2>1. pc[p] \in {"copy", "link", "prune"} /\ cman' = cman
    BY <1>8 DEF Materialized, Pruned, At, cache
  <2> QED BY <1>1, <2>1 DEF ProcOK, Fetching, Cached
<1>9. CASE Scanned(p) \/ CacheVerified(p)
  BY <1>1, <1>9 DEF Scanned, CacheVerified, At, ProcOK, Kind, May, Is
<1> QED BY <1>2, <1>3, <1>5, <1>6, <1>7, <1>8, <1>9

\* A verify-cache that succeeds has told the truth.
LEMMA ScanSuccess ==
  ASSUME IInv, NEW p \in Proc, Step(p), Succeeds(p, {"verify_cache"})
  PROVE  /\ \A d \in Data : cobj[d] = Bad => d \in touched[p]
         /\ ~cmd(p).api /\ cmd(p).scoped => snap(p) \in cman \union touched[p]
         /\ ~cmd(p).api => \A s \in cman \ touched[p] :
               \/ missing_cache_objects(s) \subseteq touched[p]
               \/ cmd(p).scoped /\ s # snap(p)
<1> USE NoSuccess
<1>1. /\ LocalTypes /\ queue[p] # <<>> /\ ProcOK(p, pc[p], todo[p], hand[p], flag[p])
      /\ Succeeded(p) /\ Is(p, {"verify_cache"})
  BY DEF IInv, ProcInv, Succeeds, Succeeded
<1>2. \/ fetch_inner(p) \/ CachePush(p) \/ CacheManifest(p) \/ ExternalFetched(p) \/ Validate(p)
      \/ Materialized(p) \/ Pruned(p) \/ Scanned(p) \/ CacheVerified(p)
  BY <1>1, SuccessSteps DEF Succeeds, Is
<1>3. Scanned(p) \/ CacheVerified(p)
  BY <1>1, <1>2 DEF fetch_inner, CachePush, CacheManifest, ExternalFetched, Validate, Materialized,
                    Pruned, At, ProcOK, Kind, May, Is
<1>4. /\ pc[p] \in {"scan", "gaps"} /\ todo[p] = {} /\ End(p, Outcome(p))
      /\ pc[p] = "scan" => cmd(p).api
  BY <1>1, <1>3 DEF Scanned, CacheVerified, At
<1>5. ~flag[p]
  BY <1>1, <1>4 DEF Outcome
<1>6. \A d \in Data : cobj[d] = Bad => d \in touched[p]
  BY <1>1, <1>4, <1>5 DEF ProcOK, Scanning
<1>7. CASE cmd(p).api
  BY <1>6, <1>7
<1>8. CASE ~cmd(p).api
  <2>1. Checked(p, {}, flag[p])
    BY <1>1, <1>4, <1>8 DEF ProcOK, Scanning
  <2>2. cman \subseteq Snap
    BY DEF IInv, SharedTypes
  <2>3. cmd(p).scoped => snap(p) \in cman \union touched[p]
    BY <2>1 DEF Checked
  <2>4. ASSUME NEW s \in cman \ touched[p]
        PROVE  \/ missing_cache_objects(s) \subseteq touched[p]
               \/ cmd(p).scoped /\ s # snap(p)
    BY <1>5, <2>1, <2>2 DEF Checked, missing_cache_objects
  <2> QED BY <1>6, <2>3, <2>4
<1> QED BY <1>7, <1>8

\* What a fetch, a pull or a verify-cache claims of the cache is true.
THEOREM ClaimsAreTrue == Spec => CacheClaimsHold
<1> DEFINE A == \A p \in Proc :
       /\ Succeeds(p, {"fetch", "pull"}) =>
            \/ snap(p) \in touched[p]
            \/ snap(p) \in cman' /\ missing_cache_objects(snap(p)) \subseteq touched[p]
       /\ Succeeds(p, {"verify_cache"}) =>
            /\ \A d \in Data : cobj[d] = Bad => d \in touched[p]
            /\ ~cmd(p).api /\ cmd(p).scoped => snap(p) \in cman \union touched[p]
            /\ ~cmd(p).api => \A s \in cman \ touched[p] :
                  \/ missing_cache_objects(s) \subseteq touched[p]
                  \/ cmd(p).scoped /\ s # snap(p)
<1>1. IInv /\ [Next]_vars => [A]_vars
  BY OwnSuccess, FetchSuccess, ScanSuccess DEF Succeeds
<1>2. CacheClaimsHold <=> [][A]_vars
  BY DEF CacheClaimsHold
<1> HIDE DEF A
<1> QED BY <1>1, <1>2, Invariant, PTL DEF Spec

-----------------------------------------------------------------------------
(* A checkout whose destination no other process writes.                   *)

Copying == {"copy", "link", "prune"}

\* The processes' commands are what is left of the plan.
LEMMA AloneKept ==
  ASSUME LocalTypes, Alone,
         \A r \in Proc : queue'[r] = queue[r] \/ queue'[r] = Tail(queue[r])
  PROVE  Alone'
<1>1. ASSUME NEW r \in Proc, NEW i \in DOMAIN queue'[r]
      PROVE  \E k \in DOMAIN queue[r] : queue'[r][i] = queue[r][k]
  <2>1. queue[r] \in Seq(Command)
    BY DEF LocalTypes
  <2>2. CASE queue'[r] = queue[r]
    BY <1>1, <2>2
  <2>3. CASE queue'[r] = Tail(queue[r]) /\ queue[r] # <<>>
    <3>1. Len(Tail(queue[r])) = Len(queue[r]) - 1 /\ DOMAIN Tail(queue[r]) = 1..Len(Tail(queue[r]))
      BY <2>1, <2>3
    <3>2. i + 1 \in DOMAIN queue[r] /\ Tail(queue[r])[i] = queue[r][i + 1]
      BY <1>1, <2>1, <2>3, <3>1
    <3> QED BY <2>3, <3>2
  <2>4. CASE queue'[r] = Tail(queue[r]) /\ queue[r] = <<>>
    BY <1>1, <2>4
  <2> QED BY <2>2, <2>3, <2>4
<1> QED BY <1>1 DEF Alone

\* Only p writes the destination while p materializes.
LEMMA AloneStep ==
  ASSUME IInv, Alone, NEW p \in Proc, NEW q \in Proc, p # q, pc[q] \in Copying,
         queue[p] # <<>>, Writes(cmd(p))
  PROVE  FALSE
<1>1. queue[q] # <<>> /\ May(cmd(q), pc[q])
  BY DEF IInv, ProcInv, ProcOK, Kind, Copying
<1>2. cmd(q).cmd # "swap" /\ Writes(cmd(q))
  BY <1>1 DEF May, Writes, Copying
<1>3. queue[p] \in Seq(Command) /\ queue[q] \in Seq(Command)
  BY DEF IInv, LocalTypes
<1>4. 1 \in DOMAIN queue[p] /\ cmd(p) = queue[p][1] /\ 1 \in DOMAIN queue[q] /\ cmd(q) = queue[q][1]
  BY <1>1, <1>3 DEF cmd
<1> QED BY <1>2, <1>4 DEF Alone

\* A path that a process has materialized stays so while others change the
\* cache, or they have told it.
LEMMA GotKept ==
  ASSUME IInv, NEW q \in Proc, pc[q] \in Copying, NEW hit \in SUBSET (Data \union Snap),
         SameFor(q, hit), CacheKeeps(hit), UNCHANGED <<dest, links>>, NEW x \in DOMAIN Tree[snap(q)]
  PROVE  (Got(q, x) => Got(q, x)') /\ (Tied(q, x) => Tied(q, x)')
<1> USE CommandsAssumption
<1> DEFINE d == Tree[snap(q)][x]
<1>1. queue[q] # <<>>
  BY DEF IInv, ProcInv, ProcOK, Kind, Copying
<1>2. snap(q) \in Snap /\ d \in Data
  BY <1>1, Asked DEF IInv
<1>3. snap(q)' = snap(q) /\ touched'[q] = touched[q] \union hit
  BY DEF SameFor, snap, cmd, Copying
<1>4. Tied(q, x) => Tied(q, x)'
  BY <1>3 DEF Tied
<1>5. CASE d \in touched[q] \/ d \in hit
  BY <1>3, <1>4, <1>5 DEF Got
<1>6. CASE d \notin hit /\ Content(x) = d
  <2>1. CASE x \in links
    <3>1. dest[x] \in Data /\ cobj[dest[x]] = d
      BY <1>6, <2>1 DEF IInv, SharedTypes, Content
    <3>2. dest[x] = d
      BY <1>2, <3>1 DEF IInv, CacheInv
    <3>3. cobj'[d] = d
      BY <1>2, <1>6, <3>1, <3>2 DEF CacheKeeps
    <3> QED BY <1>3, <1>4, <2>1, <3>2, <3>3 DEF Got, Content
  <2>2. CASE x \notin links
    BY <1>3, <1>4, <1>6, <2>2 DEF Got, Content
  <2> QED BY <2>1, <2>2
<1> QED BY <1>4, <1>5, <1>6 DEF Got

\* A checkout is not disturbed by a step that tells it what it spoils.
LEMMA MaterializingKept ==
  ASSUME IInv, NEW q \in Proc, Materializing(q), NEW hit \in SUBSET (Data \union Snap),
         SameFor(q, hit), CacheKeeps(hit), pc[q] \in Copying => UNCHANGED <<dest, links>>
  PROVE  Materializing(q)'
<1>1. CASE pc[q] \notin Copying
  BY <1>1 DEF Materializing, SameFor, Copying
<1>2. CASE pc[q] \in Copying
  <2>1. /\ queue'[q] = queue[q] /\ pc'[q] = pc[q] /\ todo'[q] = todo[q] /\ hand'[q] = hand[q]
        /\ touched'[q] = touched[q] \union hit /\ cmd(q)' = cmd(q) /\ snap(q)' = snap(q)
        /\ UNCHANGED <<dest, links>>
    BY <1>2 DEF SameFor, Copying, cmd, snap
  <2>2. \A x \in DOMAIN Tree[snap(q)] : (Got(q, x) => Got(q, x)') /\ (Tied(q, x) => Tied(q, x)')
    BY <1>2, <2>1, GotKept
  <2>3. CASE pc[q] = "copy" /\ hand[q] # Empty
    <3> DEFINE d == Tree[snap(q)][hand[q].name]
    <3>1. /\ ProcOK(q, "copy", todo[q], hand[q], flag[q]) /\ queue[q] # <<>> /\ snap(q) \in Snap
      BY <2>3, Asked DEF IInv, ProcInv, ProcOK, Kind
    <3>2. d \in Data
      BY <2>3, <3>1, CommandsAssumption DEF ProcOK, Doing
    <3>3. hand[q].bytes = d \/ cobj[d] = Bad \/ d \in touched[q]
      BY <2>3 DEF Materializing
    <3>4. hand'[q].bytes = d \/ cobj'[d] = Bad \/ d \in touched'[q]
      BY <2>1, <3>2, <3>3, CommandsAssumption DEF CacheKeeps
    <3>5. \A x \in DOMAIN Tree[snap(q)] \ todo[q] : Got(q, x)'
      BY <2>2, <2>3 DEF Materializing
    <3> QED BY <2>1, <2>3, <3>4, <3>5 DEF Materializing
  <2>4. CASE pc[q] # "copy" \/ hand[q] = Empty
    BY <2>1, <2>2, <2>4 DEF Materializing
  <2> QED BY <2>3, <2>4
<1> QED BY <1>1, <1>2

\* The steps after which p is not materializing.
LEMMA AwayGoto ==
  ASSUME LocalTypes, NEW p \in Proc
  PROVE  /\ \A outcome, hit : Leave(p, outcome, hit) => pc'[p] \notin Copying
         /\ \A label, work, file, hit :
              Move(p, label, work, file, hit) /\ label \notin Copying => pc'[p] \notin Copying
         /\ \A outcome : End(p, outcome) => pc'[p] \notin Copying
         /\ \A label : Goto(p, label) /\ label \notin Copying => pc'[p] \notin Copying
         /\ \A label, work : GotoWith(p, label, work) /\ label \notin Copying => pc'[p] \notin Copying
         /\ \A x : Drop(p, x) /\ pc[p] \notin Copying => pc'[p] \notin Copying
         /\ \A hit : AfterCache(p, hit) => pc'[p] \notin Copying
         /\ AfterStore(p) => pc'[p] \notin Copying
<1>1. \A outcome, hit : Leave(p, outcome, hit) => pc'[p] \notin Copying
  BY DEF LocalTypes, Leave, Copying
<1>2. \A label, work, file, hit :
        Move(p, label, work, file, hit) /\ label \notin Copying => pc'[p] \notin Copying
  BY DEF LocalTypes, Move
<1>3. "validate" \notin Copying /\ "catalog" \notin Copying /\ "xpush" \notin Copying /\ "checkout" \notin Copying
  BY DEF Copying
<1> QED BY <1>1, <1>2, <1>3 DEF End, Goto, GotoWith, Drop, AfterCache, AfterStore

\* Only the steps of a checkout lead on in a checkout.
LEMMA AwaySteps ==
  ASSUME IInv, NEW p \in Proc, Step(p),
         ~checkout_inner(p), ~Collect(p), ~CheckAndRename(p), ~Materialized(p),
         \A x \in DestPath : ~CopyFile(p, x) /\ ~Link(p, x) /\ ~Prune(p, x)
  PROVE  pc'[p] \notin Copying
<1> USE AwayGoto
<1> LocalTypes
  BY DEF IInv
<1>1. CASE \/ CachePush(p) \/ CacheManifest(p) \/ StorePush(p) \/ StoreManifest(p)
           \/ ExternalPush(p) \/ ExternalManifest(p) \/ ExternalFetched(p)
  BY <1>1 DEF CachePush, CacheManifest, StorePush, StoreManifest, ExternalPush, ExternalManifest,
              ExternalFetched, Copying
<1>2. CASE run_stage(p) \/ run_push(p) \/ push_by_id(p) \/ Materialize(p)
  BY <1>2 DEF run_stage, run_push, push_by_id, Materialize, Copying
<1>3. CASE fetch_inner(p)
  <2>1. pc' = [pc EXCEPT ![p] = "get"] => pc'[p] \notin Copying
    BY DEF LocalTypes, Copying
  <2> QED BY <1>3, <2>1 DEF fetch_inner, Copying
<1>4. CASE GetManifest(p) \/ HealCache(p) \/ RemoveStale(p) \/ Validate(p)
  BY <1>4 DEF GetManifest, HealCache, RemoveStale, Validate, Copying
<1>5. CASE Pruned(p) \/ BuildStaging(p) \/ RenameAside(p) \/ SwapIn(p) \/ DropOld(p)
  BY <1>5 DEF Pruned, BuildStaging, RenameAside, SwapIn, DropOld, Copying
<1>6. CASE \/ run_verify(p) \/ run_verify_cache(p) \/ Purge(p) \/ Scanned(p)
           \/ CacheVerified(p) \/ run_flush_cache(p) \/ Flushed(p)
  BY <1>6 DEF run_verify, run_verify_cache, Purge, Scanned, CacheVerified, run_flush_cache, Flushed,
              Copying
<1>7. CASE \/ log_event(p) \/ LogEvent(p) \/ ReadHead(p) \/ Save(p) \/ CloseCatalog(p)
           \/ ClearLocation(p) \/ Rebuilt(p)
  BY <1>7 DEF log_event, LogEvent, ReadHead, Save, CloseCatalog, ClearLocation, Rebuilt, Copying
<1>8. ASSUME NEW d, \/ CacheCopy(p, d) \/ StoreCopy(p, d) \/ ExternalSend(p, d)
                    \/ ExternalFetch(p, d) \/ TornGet(p, d)
      PROVE  pc'[p] \notin Copying
  BY <1>8 DEF CacheCopy, StoreCopy, ExternalSend, ExternalFetch, TornGet, At, Copying
<1>9. ASSUME NEW d, Scan(p, d) PROVE pc'[p] \notin Copying
  BY <1>9 DEF Scan, At, Copying
<1>10. ASSUME NEW e, FlushEntry(p, e) PROVE pc'[p] \notin Copying
  BY <1>10 DEF FlushEntry, At, Copying
<1>11. ASSUME NEW s, Replay(p, s) \/ ListManifest(p, s) \/ ReadListed(p, s)
       PROVE  pc'[p] \notin Copying
  BY <1>11 DEF Replay, ListManifest, ReadListed, At, Copying
<1>12. ASSUME NEW s, NEW d, StatObject(p, s, d) PROVE pc'[p] \notin Copying
  BY <1>12 DEF StatObject, At, Copying
<1> QED BY <1>1, <1>2, <1>3, <1>4, <1>5, <1>6, <1>7, <1>8, <1>9, <1>10, <1>11, <1>12 DEF Step

\* A step of p within its loop: where it is, and what it has left.
LEMMA TurnStep ==
  ASSUME IInv, NEW p \in Proc, queue[p] # <<>>, NEW label, NEW work \in SUBSET Work, NEW file,
         Move(p, label, work, file, {})
  PROVE  /\ pc'[p] = label /\ todo'[p] = work /\ hand'[p] = file /\ touched'[p] = touched[p]
         /\ cmd(p)' = cmd(p) /\ snap(p)' = snap(p)
<1>1. Moved(p, label, work, file, {})
  BY MoveStep DEF IInv
<1> QED BY <1>1 DEF Moved, cmd, snap

\* Nothing is materialized at first.
LEMMA CheckoutMaterializes ==
  ASSUME IInv, NEW p \in Proc, checkout_inner(p)
  PROVE  Materializing(p)'
<1>1. queue[p] # <<>> /\ LocalTypes /\ snap(p) \in Snap
  BY Asked DEF checkout_inner, At, IInv
<1>2. CASE GotoWith(p, "link", DOMAIN Tree[snap(p)])
  <2>1. Move(p, "link", DOMAIN Tree[snap(p)], Empty, {}) /\ DOMAIN Tree[snap(p)] \in SUBSET Work
    BY <1>1, <1>2, CommandsAssumption DEF GotoWith, Work
  <2>2. /\ pc'[p] = "link" /\ todo'[p] = DOMAIN Tree[snap(p)] /\ snap(p)' = snap(p)
    BY <1>1, <2>1, TurnStep
  <2> QED BY <2>2 DEF Materializing
<1>3. CASE ~GotoWith(p, "link", DOMAIN Tree[snap(p)])
  <2>1. pc'[p] \notin Copying
    BY <1>1, <1>3, AwayGoto DEF checkout_inner, Copying
  <2> QED BY <2>1 DEF Materializing, Copying
<1> QED BY <1>2, <1>3

\* A path that needs no copy has its bytes already.
LEMMA CollectMaterializes ==
  ASSUME IInv, NEW p \in Proc, Collect(p)
  PROVE  Materializing(p)'
<1>1. queue[p] # <<>> /\ LocalTypes /\ snap(p) \in Snap /\ UNCHANGED <<cobj, dest, links>>
  BY Asked DEF Collect, At, IInv, cache, tree
<1> DEFINE work == {x \in DOMAIN Tree[snap(p)] : Content(x) # Tree[snap(p)][x]}
<1>2. CASE GotoWith(p, "copy", work)
  <2>1. Move(p, "copy", work, Empty, {}) /\ work \in SUBSET Work
    BY <1>1, <1>2, CommandsAssumption DEF GotoWith, Work
  <2>2. /\ pc'[p] = "copy" /\ todo'[p] = work /\ snap(p)' = snap(p) /\ hand'[p] = Empty
    BY <1>1, <2>1, TurnStep
  <2> QED BY <1>1, <2>2 DEF Materializing, Got, Content
<1>3. CASE End(p, "failed")
  BY <1>1, <1>3, AwayGoto DEF Materializing, Copying
<1> QED BY <1>2, <1>3 DEF Collect

\* A copy has the bytes the object had.
LEMMA CopyMaterializes ==
  ASSUME IInv, NEW p \in Proc, Materializing(p), NEW x, CopyFile(p, x)
  PROVE  Materializing(p)'
<1>1. /\ queue[p] # <<>> /\ LocalTypes /\ snap(p) \in Snap /\ UNCHANGED <<cobj, dest, links>>
      /\ pc[p] = "copy" /\ x \in todo[p] /\ todo[p] \in SUBSET Work
  BY Asked DEF CopyFile, At, IInv, cache, tree, LocalTypes
<1> DEFINE bytes == cobj[Tree[snap(p)][x]]
<1>2. CASE End(p, "failed")
  BY <1>1, <1>2, AwayGoto DEF Materializing, Copying
<1>3. ASSUME bytes # None, NEW cloned \in BOOLEAN,
             Hold(p, [name |-> x, bytes |-> bytes, cloned |-> cloned])
      PROVE  Materializing(p)'
  <2> DEFINE file == [name |-> x, bytes |-> bytes, cloned |-> cloned]
  <2>1. Move(p, "copy", todo[p], file, {})
    BY <1>1, <1>3 DEF Hold
  <2>2. /\ pc'[p] = "copy" /\ todo'[p] = todo[p] /\ snap(p)' = snap(p) /\ hand'[p] = file
        /\ touched'[p] = touched[p]
    BY <1>1, <2>1, TurnStep
  <2>3. file.name = x /\ file.bytes = bytes
    OBVIOUS
  <2>4. Tree[snap(p)][x] \in Data
    BY <1>1, CommandsAssumption DEF IInv, ProcInv, ProcOK, Doing
  <2>5. bytes \in {Tree[snap(p)][x], Bad}
    BY <1>3, <2>4 DEF IInv, CacheInv
  <2>6. \A y \in DOMAIN Tree[snap(p)] \ todo[p] : Got(p, y)'
    BY <1>1, <2>2 DEF Materializing, Got, Content
  <2> HIDE DEF file
  <2>7. hand'[p].name = x /\ hand'[p].bytes = bytes
    BY <2>2, <2>3
  <2>8. hand'[p].bytes = Tree[snap(p)][hand'[p].name] \/ cobj'[Tree[snap(p)][hand'[p].name]] = Bad
    BY <1>1, <2>5, <2>7
  <2> QED BY <2>2, <2>6, <2>8 DEF Materializing
<1> QED BY <1>2, <1>3 DEF CopyFile

\* The turn of a loop: one path more is materialized, the rest as they were.
LEMMA TurnMaterializes ==
  ASSUME IInv, NEW p \in Proc, Materializing(p), queue[p] # <<>>, pc[p] \in {"copy", "link"},
         NEW x \in todo[p], Drop(p, x), UNCHANGED cobj,
         \A y \in DestPath : y # x => dest'[y] = dest[y] /\ (y \in links' <=> y \in links),
         pc[p] = "copy" => Got(p, x)', pc[p] = "link" => Tied(p, x)'
  PROVE  Materializing(p)'
<1>1. snap(p) \in Snap /\ todo[p] \in SUBSET Work
  BY Asked DEF IInv, LocalTypes
<1>2. DOMAIN Tree[snap(p)] \subseteq DestPath
  BY <1>1, CommandsAssumption
<1>3. Move(p, pc[p], todo[p] \ {x}, Empty, {}) /\ todo[p] \ {x} \in SUBSET Work
  BY <1>1 DEF Drop, GotoWith
<1>4. /\ pc'[p] = pc[p] /\ todo'[p] = todo[p] \ {x} /\ snap(p)' = snap(p) /\ hand'[p] = Empty
      /\ touched'[p] = touched[p]
  BY <1>3, TurnStep
<1>5. ASSUME NEW y \in DOMAIN Tree[snap(p)] \ todo[p]
      PROVE  (Got(p, y) => Got(p, y)') /\ (Tied(p, y) => Tied(p, y)')
  BY <1>2, <1>4, <1>5 DEF Got, Tied, Content
<1>6. CASE pc[p] = "copy"
  <2>1. \A y \in DOMAIN Tree[snap(p)] \ todo[p] : Got(p, y)'
    BY <1>5, <1>6 DEF Materializing
  <2> QED BY <1>4, <1>6, <2>1 DEF Materializing
<1>7. CASE pc[p] = "link"
  <2>1. \A y \in DOMAIN Tree[snap(p)] \ todo[p] : Tied(p, y)'
    BY <1>5, <1>7 DEF Materializing
  <2> QED BY <1>4, <1>7, <2>1 DEF Materializing
<1> QED BY <1>6, <1>7

\* What is renamed into place was hashed, or its source was.
LEMMA RenameMaterializes ==
  ASSUME IInv, NEW p \in Proc, Materializing(p), CheckAndRename(p)
  PROVE  Materializing(p)'
<1>0. PICK x : x = hand[p].name
  OBVIOUS
<1> DEFINE d == Tree[snap(p)][x]
           trusted == IF hand[p].cloned /\ cobj[d] # None THEN cobj[d] = d ELSE hand[p].bytes = d
<1>1. /\ queue[p] # <<>> /\ LocalTypes /\ snap(p) \in Snap /\ UNCHANGED cobj
      /\ pc[p] = "copy" /\ hand[p] # Empty /\ todo[p] \in SUBSET Work
  BY Asked DEF CheckAndRename, At, IInv, cache, LocalTypes
<1>2. x \in todo[p] /\ d \in Data /\ x \in DestPath
  BY <1>0, <1>1, CommandsAssumption DEF IInv, ProcInv, ProcOK, Doing
<1>3. hand[p].bytes = d \/ cobj[d] = Bad \/ d \in touched[p]
  BY <1>0, <1>1 DEF Materializing
<1>4. CASE trusted
  <2>1. /\ dest' = [dest EXCEPT ![x] = hand[p].bytes] /\ links' = links \ {x} /\ Drop(p, x)
    BY <1>0, <1>4 DEF CheckAndRename
  <2>2. dest'[x] = hand[p].bytes /\ \A y \in DestPath : y # x => dest'[y] = dest[y]
    BY <1>2, <2>1 DEF IInv, SharedTypes
  <2>3. touched'[p] = touched[p] /\ snap(p)' = snap(p)
    BY <1>1, <2>1, TurnStep DEF Drop, GotoWith
  <2>4. hand[p].bytes = d \/ d \in touched[p]
    BY <1>2, <1>3, <1>4, CommandsAssumption
  <2>5. x \notin links' /\ dest'[x] = hand[p].bytes
    BY <2>1, <2>2
  <2>6. Got(p, x)'
    BY <2>3, <2>4, <2>5 DEF Got, Content
  <2> QED BY <1>1, <1>2, <2>1, <2>2, <2>6, TurnMaterializes
<1>5. CASE End(p, "failed")
  BY <1>1, <1>5, AwayGoto DEF Materializing, Copying
<1>6. CASE Hold(p, Empty) /\ UNCHANGED <<dest, links>>
  <2>1. Move(p, "copy", todo[p], Empty, {})
    BY <1>1, <1>6 DEF Hold
  <2>2. /\ pc'[p] = "copy" /\ todo'[p] = todo[p] /\ snap(p)' = snap(p) /\ hand'[p] = Empty
        /\ touched'[p] = touched[p]
    BY <1>1, <2>1, TurnStep
  <2> QED BY <1>1, <1>6, <2>2 DEF Materializing, Got, Content
<1> QED BY <1>0, <1>4, <1>5, <1>6 DEF CheckAndRename

\* A link is made for every path in turn.
LEMMA LinkMaterializes ==
  ASSUME IInv, NEW p \in Proc, Materializing(p), NEW x \in DestPath, Link(p, x)
  PROVE  Materializing(p)'
<1> DEFINE d == Tree[snap(p)][x]
<1>1. /\ queue[p] # <<>> /\ LocalTypes /\ UNCHANGED cobj
      /\ pc[p] = "link" /\ x \in todo[p] /\ todo[p] \in SUBSET Work
  BY DEF Link, At, IInv, cache, LocalTypes
<1>2. CASE End(p, "failed")
  BY <1>1, <1>2, AwayGoto DEF Materializing, Copying
<1>3. ASSUME dest' = [dest EXCEPT ![x] = d], links' = links \union {x}, Drop(p, x)
      PROVE  Materializing(p)'
  <2>1. dest'[x] = d /\ x \in links' /\ \A y \in DestPath : y # x => dest'[y] = dest[y]
    BY <1>3 DEF IInv, SharedTypes
  <2>2. snap(p)' = snap(p)
    BY <1>1, <1>3, TurnStep DEF Drop, GotoWith
  <2>3. Tied(p, x)'
    BY <2>1, <2>2 DEF Tied
  <2>4. \A y \in DestPath : y # x => (y \in links' <=> y \in links)
    BY <1>3
  <2> QED BY <1>1, <1>3, <2>1, <2>3, <2>4, TurnMaterializes
<1> QED BY <1>2, <1>3 DEF Link

\* What --delete has to prune is all that is left over.
LEMMA MaterializedMaterializes ==
  ASSUME IInv, NEW p \in Proc, Materializing(p), Materialized(p)
  PROVE  Materializing(p)'
<1>1. /\ queue[p] # <<>> /\ LocalTypes /\ pc[p] \in {"copy", "link"} /\ todo[p] = {}
      /\ UNCHANGED <<cobj, dest, links>> /\ dest \in [DestPath -> Bytes]
  BY DEF Materialized, IInv, SharedTypes, cache
<1>2. CASE End(p, "ok")
  BY <1>1, <1>2, AwayGoto DEF Materializing, Copying
<1>3. CASE GotoWith(p, "prune", prune_set(snap(p)))
  <2>1. Move(p, "prune", prune_set(snap(p)), Empty, {}) /\ prune_set(snap(p)) \in SUBSET Work
    BY <1>3 DEF GotoWith, Work, prune_set
  <2>2. /\ pc'[p] = "prune" /\ todo'[p] = prune_set(snap(p)) /\ snap(p)' = snap(p) /\ cmd(p)' = cmd(p)
        /\ touched'[p] = touched[p]
    BY <1>1, <2>1, TurnStep
  <2>3. pc[p] = "link" <=> cmd(p).linked
    BY <1>1 DEF IInv, ProcInv, ProcOK, Kind, May
  <2>4. \A x \in DOMAIN Tree[snap(p)] : IF cmd(p).linked THEN Tied(p, x) ELSE Got(p, x)
    BY <1>1, <2>3 DEF Materializing
  <2>5. \A x \in DOMAIN Tree[snap(p)] : IF cmd(p)'.linked THEN Tied(p, x)' ELSE Got(p, x)'
    BY <1>1, <2>2, <2>4 DEF Tied, Got, Content
  <2>6. \A x \in DestPath \ DOMAIN Tree[snap(p)]' :
          dest'[x] = None \/ x \in Protected \/ x \in todo'[p]
    BY <1>1, <2>2 DEF prune_set
  <2> QED BY <2>2, <2>5, <2>6 DEF Materializing
<1> QED BY <1>2, <1>3 DEF Materialized

\* A path that is pruned is not one of the snapshot's.
LEMMA PruneMaterializes ==
  ASSUME IInv, NEW p \in Proc, Materializing(p), NEW x \in DestPath, Prune(p, x)
  PROVE  Materializing(p)'
<1>1. /\ queue[p] # <<>> /\ LocalTypes /\ UNCHANGED cobj
      /\ pc[p] = "prune" /\ x \in todo[p] /\ todo[p] \in SUBSET Work /\ snap(p) \in Snap
  BY Asked DEF Prune, At, IInv, cache, LocalTypes
<1>2. CASE End(p, "failed")
  BY <1>1, <1>2, AwayGoto DEF Materializing, Copying
<1>3. ASSUME dest' = [dest EXCEPT ![x] = None], links' = links \ {x}, Drop(p, x)
      PROVE  Materializing(p)'
  <2>1. dest'[x] = None /\ \A y \in DestPath : y # x => dest'[y] = dest[y] /\ (y \in links' <=> y \in links)
    BY <1>3 DEF IInv, SharedTypes
  <2>2. Move(p, "prune", todo[p] \ {x}, Empty, {}) /\ todo[p] \ {x} \in SUBSET Work
    BY <1>1, <1>3 DEF Drop, GotoWith
  <2>3. /\ pc'[p] = "prune" /\ todo'[p] = todo[p] \ {x} /\ snap(p)' = snap(p) /\ cmd(p)' = cmd(p)
        /\ touched'[p] = touched[p]
    BY <1>1, <2>2, TurnStep
  <2>4. x \notin DOMAIN Tree[snap(p)] /\ DOMAIN Tree[snap(p)] \subseteq DestPath
    BY <1>1, CommandsAssumption DEF IInv, ProcInv, ProcOK, Doing
  <2>5. \A y \in DOMAIN Tree[snap(p)] : IF cmd(p).linked THEN Tied(p, y) ELSE Got(p, y)
    BY <1>1 DEF Materializing
  <2>6. \A y \in DOMAIN Tree[snap(p)] : IF cmd(p)'.linked THEN Tied(p, y)' ELSE Got(p, y)'
    BY <1>1, <2>1, <2>3, <2>4, <2>5 DEF Tied, Got, Content
  <2>7. \A y \in DestPath \ DOMAIN Tree[snap(p)] :
          dest'[y] = None \/ y \in Protected \/ y \in todo'[p]
    BY <1>1, <2>1, <2>3 DEF Materializing
  <2> QED BY <2>3, <2>6, <2>7 DEF Materializing
<1> QED BY <1>2, <1>3 DEF Prune

\* A process keeps track of what it has materialized.
LEMMA OwnMaterializing ==
  ASSUME IInv, NEW p \in Proc, Materializing(p), Step(p) \/ Abort(p)
  PROVE  Materializing(p)'
<1>1. CASE Abort(p)
  BY <1>1, AwayGoto DEF Abort, Materializing, Copying, IInv
<1>2. CASE Step(p) /\ pc'[p] \notin Copying
  BY <1>2 DEF Materializing, Copying
<1>3. CASE Step(p) /\ pc'[p] \in Copying
  <2>1. \/ checkout_inner(p) \/ Collect(p) \/ CheckAndRename(p) \/ Materialized(p)
        \/ \E x \in DestPath : CopyFile(p, x) \/ Link(p, x) \/ Prune(p, x)
    BY <1>3, AwaySteps
  <2> QED BY <2>1, CheckoutMaterializes, CollectMaterializes, RenameMaterializes,
             MaterializedMaterializes, CopyMaterializes, LinkMaterializes, PruneMaterializes
<1> QED BY <1>1, <1>2, <1>3

\* Every step keeps what an exclusive checkout has materialized.
LEMMA ExclusiveNext ==
  ASSUME IInv, ExclusiveInv, [Next]_vars
  PROVE  ExclusiveInv'
<1> LocalTypes
  BY DEF IInv
<1>1. ASSUME NEW p \in Proc, Step(p) \/ Abort(p) PROVE ExclusiveInv'
  <2>1. PICK hit \in SUBSET (Data \union Snap) : Told(p, hit)
    BY <1>1, StepTold
  <2>2. \A r \in Proc : queue'[r] = queue[r] \/ queue'[r] = Tail(queue[r])
    BY <2>1 DEF Told, Seen, LocalTypes
  <2>3. Alone'
    BY <2>2, AloneKept DEF ExclusiveInv
  <2>4. ASSUME NEW q \in Proc, q # p PROVE Materializing(q)'
    <3>1. SameFor(q, hit) /\ CacheKeeps(hit)
      BY <2>1, <2>4 DEF Told, Seen
    <3>2. pc[q] \in Copying => UNCHANGED <<dest, links>>
      BY <2>1, <2>4, AloneStep DEF Told, ExclusiveInv
    <3> QED BY <3>1, <3>2, MaterializingKept DEF ExclusiveInv
  <2>5. Materializing(p)'
    BY <1>1, OwnMaterializing DEF ExclusiveInv
  <2> QED BY <2>3, <2>4, <2>5 DEF ExclusiveInv
<1>2. ASSUME NEW d \in Data, BitRot(d) PROVE ExclusiveInv'
  <2>1. /\ cobj' = [cobj EXCEPT ![d] = Bad] /\ UNCHANGED <<cman, purged, dest, links>>
        /\ touched' = [q \in Proc |-> IF pc[q] = "start" THEN {} ELSE touched[q] \union {d}]
        /\ UNCHANGED <<queue, pc, todo, flag, hand, status>>
    BY <1>2 DEF BitRot, tree
  <2>2. CacheKeeps({d})
    BY <2>1, CommandsAssumption DEF CacheKeeps, IInv, SharedTypes
  <2>3. \A q \in Proc : SameFor(q, {d})
    BY <2>1 DEF SameFor
  <2>4. Alone'
    BY <2>1 DEF ExclusiveInv, Alone
  <2>5. {d} \in SUBSET (Data \union Snap)
    OBVIOUS
  <2> QED BY <2>1, <2>2, <2>3, <2>4, <2>5, MaterializingKept DEF ExclusiveInv
<1>3. CASE UNCHANGED vars
  <2>1. UNCHANGED <<cobj, cman, purged, dest, links, queue, pc, todo, flag, hand, touched>>
    BY <1>3 DEF vars, cache, tree, local
  <2>2. CacheKeeps({}) /\ \A q \in Proc : SameFor(q, {})
    BY <2>1 DEF CacheKeeps, SameFor
  <2>3. Alone'
    BY <2>1 DEF ExclusiveInv, Alone
  <2>4. {} \in SUBSET (Data \union Snap)
    OBVIOUS
  <2> QED BY <2>1, <2>2, <2>3, <2>4, MaterializingKept DEF ExclusiveInv
<1> QED BY <1>1, <1>2, <1>3 DEF Next

\* No checkout has begun.
LEMMA ExclusiveInit ==
  ASSUME \A plan \in Plans : Exclusive(plan)
  PROVE  Init => ExclusiveInv
<1> SUFFICES ASSUME Init PROVE ExclusiveInv
  OBVIOUS
<1>1. PICK plan \in Plans : queue = plan.run
  BY DEF Init
<1>2. Alone
  BY <1>1 DEF Alone, Exclusive
<1>3. \A p \in Proc : pc[p] = "start"
  BY DEF Init
<1> QED BY <1>2, <1>3 DEF ExclusiveInv, Materializing

\* A checkout that ends has materialized every path, and pruned the others.
LEMMA CheckoutSuccess ==
  ASSUME IInv, ExclusiveInv, NEW p \in Proc, Step(p), Succeeds(p, {"checkout", "pull"})
  PROVE  LET T == Tree[snap(p)]
         IN  /\ \A x \in DOMAIN T :
                  IF cmd(p).linked
                    THEN x \in links /\ dest[x] = T[x]
                    ELSE Content(x) = T[x] \/ T[x] \in touched[p]
             /\ cmd(p).delete =>
                  \A x \in DestPath \ DOMAIN T : dest[x] = None \/ x \in Protected
<1> USE NoSuccess
<1>1. /\ LocalTypes /\ queue[p] # <<>> /\ ProcOK(p, pc[p], todo[p], hand[p], flag[p])
      /\ Succeeded(p) /\ ~cmd(p).dryrun /\ cmd(p).cmd \in {"checkout", "pull"} /\ Materializing(p)
  BY DEF IInv, ExclusiveInv, ProcInv, Succeeds, Succeeded, Is
<1>2. \/ fetch_inner(p) \/ CachePush(p) \/ CacheManifest(p) \/ ExternalFetched(p) \/ Validate(p)
      \/ Materialized(p) \/ Pruned(p) \/ Scanned(p) \/ CacheVerified(p)
  BY <1>1, SuccessSteps DEF Succeeds, Is
<1>3. ~fetch_inner(p)
  <2>1. ~UNCHANGED <<queue, todo, hand, status, touched>>
    BY <1>1 DEF Succeeded
  <2> QED BY <1>1, <2>1 DEF fetch_inner, Is
<1>4. ASSUME Is(p, {"pull"}) PROVE \A hit : ~AfterCache(p, hit)
  BY <1>1, <1>4 DEF AfterCache, Is
<1>5. ~(CachePush(p) \/ CacheManifest(p) \/ ExternalFetched(p))
  BY <1>1, <1>4 DEF CachePush, CacheManifest, ExternalFetched, At, ProcOK, Kind, May, Is
<1>6. ~(Validate(p) \/ Scanned(p) \/ CacheVerified(p))
  BY <1>1 DEF Validate, Scanned, CacheVerified, At, ProcOK, Kind, May, Is
<1>7. CASE Materialized(p)
  <2>1. pc[p] \in {"copy", "link"} /\ todo[p] = {} /\ ~cmd(p).delete
    BY <1>1, <1>7 DEF Materialized
  <2>2. pc[p] = "link" <=> cmd(p).linked
    BY <1>1, <2>1 DEF ProcOK, Kind, May
  <2> QED BY <1>1, <2>1, <2>2 DEF Materializing, Got, Tied
<1>8. CASE Pruned(p)
  <2>1. pc[p] = "prune" /\ todo[p] = {}
    BY <1>8 DEF Pruned, At
  <2> QED BY <1>1, <2>1 DEF Materializing, Got, Tied
<1> QED BY <1>2, <1>3, <1>5, <1>6, <1>7, <1>8

\* A checkout or a pull that succeeds has left in the destination what it says,
\* where no other process writes that destination.
THEOREM CheckoutIsExact ==
  ASSUME \A plan \in Plans : Exclusive(plan)
  PROVE  Spec => CheckoutExact
<1> DEFINE A == \A p \in Proc : Succeeds(p, {"checkout", "pull"}) =>
       LET T == Tree[snap(p)]
       IN  /\ \A x \in DOMAIN T :
                IF cmd(p).linked
                  THEN x \in links /\ dest[x] = T[x]
                  ELSE Content(x) = T[x] \/ T[x] \in touched[p]
           /\ cmd(p).delete =>
                \A x \in DestPath \ DOMAIN T : dest[x] = None \/ x \in Protected
<1>1. IInv /\ ExclusiveInv /\ [Next]_vars => [A]_vars
  <2> SUFFICES ASSUME IInv, ExclusiveInv, [Next]_vars, NEW p \in Proc,
                      Succeeds(p, {"checkout", "pull"})
               PROVE  LET T == Tree[snap(p)]
                      IN  /\ \A x \in DOMAIN T :
                               IF cmd(p).linked
                                 THEN x \in links /\ dest[x] = T[x]
                                 ELSE Content(x) = T[x] \/ T[x] \in touched[p]
                          /\ cmd(p).delete =>
                               \A x \in DestPath \ DOMAIN T : dest[x] = None \/ x \in Protected
    OBVIOUS
  <2>1. Step(p)
    BY OwnSuccess DEF Succeeds
  <2> QED BY <2>1, CheckoutSuccess
<1>2. CheckoutExact <=> [][A]_vars
  BY DEF CheckoutExact
<1>3. Init => ExclusiveInv
  BY ExclusiveInit
<1>4. IInv /\ ExclusiveInv /\ [Next]_vars => ExclusiveInv'
  BY ExclusiveNext
<1> HIDE DEF A
<1> QED BY <1>1, <1>2, <1>3, <1>4, InitInvariant, NextInvariant, PTL DEF Spec

-----------------------------------------------------------------------------
(* The catalog.                                                            *)

EventRow == [event : Kinds, id : Snap, location : Location, created_at : Nat]
HistoryRow == [id : Snap, previous_id : Snap \union {None}, created_at : Nat]

CatalogTypes ==
  /\ events \in Seq(EventRow)
  /\ history \in [Location -> Seq(HistoryRow)]
  /\ loc_head \in [Location -> Snap \union {None}]
  /\ set_back \in BOOLEAN
  /\ IsFiniteSet({l \in Location : history[l] # <<>>})

\* The records r are one chain, and h is its head.
Chain(r, h) ==
  /\ h = IF r = <<>> THEN None ELSE r[Len(r)].id
  /\ \A k \in 1..Len(r) : /\ r[k].previous_id = IF k = 1 THEN None ELSE r[k - 1].id
                          /\ r[k].previous_id # r[k].id

\* The clock went on between any two records.
Ordered(r) == \A j, k \in 1..Len(r) : j < k => r[j].created_at <= r[k].created_at

NotBefore(r, t) == \A k \in 1..Len(r) : r[k].created_at <= t

\* What a process that has the file open knows: between its event and its record
\* nobody else writes, so that the event is the latest row there is, and the head
\* it has read is the head.
Writing(p) ==
  /\ pc[p] \in {"head", "insert"} =>
       /\ events # <<>>
       /\ set_back \/ \A l \in Location : NotBefore(history[l], events[Len(events)].created_at)
  /\ pc[p] = "insert" => hand[p].name = loc_head[cmd(p).at] /\ hand[p].name # snap(p)
  /\ pc[p] = "replay" => hand[p].name = loc_head[cmd(p).at] /\ hand[p].name \notin todo[p]

CatalogInv ==
  /\ CatalogTypes
  /\ \A l \in Location : Chain(history[l], loc_head[l])
  /\ set_back \/ \A l \in Location : Ordered(history[l])
  /\ \A p, q \in Proc : handle[p] = "open" /\ handle[q] = "open" => p = q
  /\ \A p \in Proc : handle[p] = "open" => Writing(p)

-----------------------------------------------------------------------------
(* The latest time there is a row of.                                      *)

LEMMA GreatestElement ==
  ASSUME NEW S, IsFiniteSet(S), S # {}, S \subseteq Nat
  PROVE  \E x \in S : \A y \in S : y <= x
<1> DEFINE Below(x) == {y \in S : y <= x}
           n == Cardinality(S)
           T == {n - Cardinality(Below(x)) : x \in S}
           R == OpToRel(<, Nat)
<1>1. n \in Nat
  BY FS_CardinalityType
<1>2. ASSUME NEW x \in S
      PROVE  IsFiniteSet(Below(x)) /\ Cardinality(Below(x)) \in Nat /\ Cardinality(Below(x)) <= n
  <2>1. Below(x) \subseteq S
    OBVIOUS
  <2> HIDE DEF Below
  <2> QED BY <2>1, FS_Subset, FS_CardinalityType
<1>3. T \subseteq Nat /\ T # {}
  <2>1. \A x \in S : n - Cardinality(Below(x)) \in Nat
    <3> HIDE DEF Below, n
    <3> QED BY <1>1, <1>2
  <2> HIDE DEF Below, n
  <2> QED BY <2>1
<1>4. PICK m \in T : \A y \in Nat : <<y, m>> \in R => y \notin T
  <2> HIDE DEF T, R
  <2>1. IsWellFoundedOn(R, Nat)
    BY NatLessThanWellFounded DEF R
  <2> QED BY <1>3, <2>1, WFMin
<1>5. \A y \in T : ~(y < m)
  <2> HIDE DEF T
  <2> QED BY <1>3, <1>4 DEF OpToRel
<1>6. PICK x \in S : m = n - Cardinality(Below(x))
  <2> HIDE DEF Below
  <2> QED BY <1>4
<1>7. ASSUME NEW y \in S, y > x PROVE FALSE
  <2>1. Below(x) \cup {y} \subseteq Below(y) /\ y \notin Below(x)
    <3>1. ~(y <= x) /\ y <= y /\ \A z \in S : z <= x => z <= y
      BY <1>7
    <3> QED BY <3>1, Zenon
  <2> HIDE DEF Below
  <2>2. Cardinality(Below(x) \cup {y}) = Cardinality(Below(x)) + 1
    BY <1>2, <2>1, FS_AddElement
  <2>3. Cardinality(Below(x) \cup {y}) <= Cardinality(Below(y))
    BY <1>2, <2>1, FS_Subset
  <2>4. n - Cardinality(Below(y)) \in T
    OBVIOUS
  <2> HIDE DEF T, n
  <2>5. ~(n - Cardinality(Below(y)) < m)
    BY <1>5, <2>4
  <2>6. Cardinality(Below(y)) \in Nat /\ Cardinality(Below(x)) \in Nat
    BY <1>2
  <2> QED BY <1>1, <1>6, <2>2, <2>3, <2>5, <2>6
<1> QED BY <1>7

\* The image of a finite set is finite.
LEMMA FiniteImage ==
  ASSUME NEW S, IsFiniteSet(S), NEW f, f = [x \in S |-> f[x]]
  PROVE  IsFiniteSet({f[x] : x \in S})
<1> DEFINE T == {f[x] : x \in S}
<1>1. f \in Surjection(S, T)
  BY DEF Surjection
<1> SUFFICES IsFiniteSet(T)
  OBVIOUS
<1> HIDE DEF T
<1> QED BY <1>1, FS_Surjection

\* No row is later than Latest.
LEMMA LatestBounds ==
  ASSUME CatalogTypes
  PROVE  /\ Latest \in Nat
         /\ \A l \in Location : NotBefore(history[l], Latest)
<1> DEFINE Of(l) == {history[l][k].created_at : k \in DOMAIN history[l]}
           E == {events[k].created_at : k \in DOMAIN events}
           L == {l \in Location : history[l] # <<>>}
           H == UNION {Of(l) : l \in L}
<1>1. \A l \in Location : /\ history[l] \in Seq(HistoryRow) /\ DOMAIN history[l] = 1..Len(history[l])
                          /\ Len(history[l]) \in Nat
                          /\ \A k \in 1..Len(history[l]) : history[l][k].created_at \in Nat
  <2>1. ASSUME NEW l \in Location, NEW k \in 1..Len(history[l])
        PROVE  history[l][k].created_at \in Nat
    <3>1. history[l] \in Seq(HistoryRow)
      BY DEF CatalogTypes
    <3>2. history[l][k] \in HistoryRow
      BY <3>1
    <3> QED BY <3>2 DEF HistoryRow
  <2>2. ASSUME NEW l \in Location PROVE history[l] \in Seq(HistoryRow)
    BY DEF CatalogTypes
  <2> QED BY <2>1, <2>2
<1>2. /\ DOMAIN events = 1..Len(events) /\ Len(events) \in Nat
      /\ \A k \in 1..Len(events) : events[k].created_at \in Nat
  <2>1. events \in Seq(EventRow)
    BY DEF CatalogTypes
  <2>2. ASSUME NEW k \in 1..Len(events) PROVE events[k].created_at \in Nat
    <3>1. events[k] \in EventRow
      BY <2>1
    <3> QED BY <3>1 DEF EventRow
  <2> QED BY <2>1, <2>2
<1>3. E \subseteq Nat /\ IsFiniteSet(E)
  <2>1. IsFiniteSet(1..Len(events))
    BY <1>2, FS_Interval
  <2> DEFINE f == [k \in 1..Len(events) |-> events[k].created_at]
  <2>2. IsFiniteSet({f[k] : k \in 1..Len(events)})
    BY <2>1, FiniteImage
  <2>3. E = {f[k] : k \in 1..Len(events)}
    BY <1>2
  <2> QED BY <1>2, <2>2, <2>3
<1>4. ASSUME NEW l \in Location PROVE Of(l) \subseteq Nat /\ IsFiniteSet(Of(l))
  <2>1. IsFiniteSet(1..Len(history[l]))
    BY <1>1, FS_Interval
  <2> DEFINE f == [k \in 1..Len(history[l]) |-> history[l][k].created_at]
  <2>2. IsFiniteSet({f[k] : k \in 1..Len(history[l])})
    BY <2>1, FiniteImage
  <2>3. Of(l) = {f[k] : k \in 1..Len(history[l])}
    BY <1>1
  <2> QED BY <1>1, <2>2, <2>3
<1>5. H \subseteq Nat /\ IsFiniteSet(H)
  <2>1. IsFiniteSet(L)
    BY DEF CatalogTypes
  <2> DEFINE f == [l \in L |-> Of(l)]
  <2> HIDE DEF Of, L
  <2>4. IsFiniteSet({f[l] : l \in L})
    BY <2>1, FiniteImage
  <2>2. IsFiniteSet({Of(l) : l \in L})
    BY <2>4
  <2>3. \A X \in {Of(l) : l \in L} : IsFiniteSet(X) /\ X \subseteq Nat
    BY <1>4 DEF L
  <2> QED BY <2>2, <2>3, FS_UNION
<1>6. Stamps = E \union H
  <2>1. \A l \in Location \ L : Of(l) = {}
    BY <1>1
  <2>2. UNION {Of(l) : l \in Location} = H
    <3> HIDE DEF Of
    <3> QED BY <2>1
  <2> QED BY <2>2 DEF Stamps
<1> DEFINE S == Stamps \union {0}
<1>7. S \subseteq Nat /\ S # {} /\ IsFiniteSet(S)
  <2> HIDE DEF E, H
  <2>1. IsFiniteSet(Stamps)
    BY <1>3, <1>5, <1>6, FS_Union
  <2>2. IsFiniteSet(Stamps \union {0})
    BY <2>1, FS_AddElement
  <2> QED BY <1>3, <1>5, <1>6, <2>2
<1>8. ASSUME NEW l \in Location, NEW k \in 1..Len(history[l]) PROVE history[l][k].created_at \in S
  BY <1>1 DEF Stamps
<1> HIDE DEF S
<1>9. PICK x \in S : \A y \in S : y <= x
  BY <1>7, GreatestElement
<1>10. Latest \in S /\ \A y \in S : Latest >= y
  <2>1. Latest = CHOOSE z \in S : \A y \in S : z >= y
    BY DEF Latest, Max, S
  <2>2. \A y \in S : x >= y
    BY <1>7, <1>9
  <2> QED BY <2>1, <2>2
<1> QED BY <1>1, <1>7, <1>8, <1>10 DEF NotBefore

-----------------------------------------------------------------------------
(* What the reverse scan finds.                                            *)

\* The rows of K that a scan comes to before row k are the later ones.
LEMMA LaterFirst ==
  ASSUME NEW r \in Seq(HistoryRow), Ordered(r), NEW K \in SUBSET (1..Len(r)), NEW k \in K
  PROVE  {j \in K : Before(r, j, k)} = {j \in K : j > k}
<1>1. \A j \in 1..Len(r) : r[j].created_at \in Nat
  <2>1. ASSUME NEW j \in 1..Len(r) PROVE r[j].created_at \in Nat
    <3>1. r[j] \in HistoryRow
      OBVIOUS
    <3> QED BY <3>1 DEF HistoryRow
  <2> QED BY <2>1
<1>2. ASSUME NEW j \in K PROVE Before(r, j, k) <=> j > k
  BY <1>1 DEF Before, Ordered
<1> QED BY <1>2

\* A scan of all the rows is the rows in reverse.
LEMMA ScanAll ==
  ASSUME NEW r \in Seq(HistoryRow)
  PROVE  LET v == ReverseScan(r, DOMAIN r)
         IN  /\ Len(v) = Len(r) /\ (v # <<>> <=> r # <<>>)
             /\ Ordered(r) => \A n \in 1..Len(r) : v[n] = r[Len(r) + 1 - n]
<1> DEFINE N == Len(r)
           K == 1..N
           v == ReverseScan(r, K)
<1>1. DOMAIN r = K /\ N \in Nat
  OBVIOUS
<1>2. Cardinality(K) = N
  BY <1>1, FS_Interval
<1>3. v = [n \in 1..N |-> v[n]]
  BY <1>2 DEF ReverseScan
<1>4. Len(v) = N /\ (v # <<>> <=> r # <<>>)
  <2>1. DOMAIN v = 1..N
    BY <1>3
  <2> HIDE DEF v
  <2>2. Len(v) = N
    BY <1>1, <1>3
  <2>3. v = <<>> <=> N = 0
    BY <1>1, <1>3, <2>1
  <2> QED BY <1>1, <2>2, <2>3
<1>5. ASSUME Ordered(r), NEW n \in 1..N PROVE v[n] = r[N + 1 - n]
  <2>1. \A k \in K : {j \in K : Before(r, j, k)} = (k + 1)..N
    <3>1. ASSUME NEW k \in K PROVE {j \in K : Before(r, j, k)} = (k + 1)..N
      <4>1. {j \in K : Before(r, j, k)} = {j \in K : j > k}
        BY <1>5, LaterFirst
      <4> QED BY <1>1, <4>1
    <3> QED BY <3>1
  <2>2. \A k \in K : Cardinality({j \in K : Before(r, j, k)}) = N - k
    <3>1. ASSUME NEW k \in K PROVE Cardinality((k + 1)..N) = N - k
      BY <1>1, FS_Interval
    <3> QED BY <2>1, <3>1
  <2>3. \A k \in K : Cardinality({j \in K : Before(r, j, k)}) = n - 1 <=> k = N + 1 - n
    BY <1>1, <2>2
  <2>4. v[n] = r[CHOOSE k \in K : Cardinality({j \in K : Before(r, j, k)}) = n - 1]
    BY <1>2 DEF ReverseScan
  <2>5. (CHOOSE k \in K : Cardinality({j \in K : Before(r, j, k)}) = n - 1) = N + 1 - n
    <3>1. N + 1 - n \in K
      BY <1>1
    <3> QED BY <2>3, <3>1
  <2> QED BY <2>4, <2>5
<1> QED BY <1>1, <1>4, <1>5

\* A scan of some begins with the latest of them.
LEMMA ScanSome ==
  ASSUME NEW r \in Seq(HistoryRow), Ordered(r), NEW K \in SUBSET (1..Len(r)),
         NEW m \in K, \A k \in K : k <= m
  PROVE  ReverseScan(r, K)[1] = r[m]
<1>1. IsFiniteSet(K) /\ Cardinality(K) \in Nat /\ Cardinality(K) >= 1
  <2>1. IsFiniteSet(1..Len(r))
    BY FS_Interval
  <2>2. IsFiniteSet(K) /\ Cardinality(K) \in Nat
    BY <2>1, FS_Subset, FS_CardinalityType
  <2>3. Cardinality(K) # 0
    BY <2>2, FS_EmptySet
  <2> QED BY <2>2, <2>3
<1>2. \A k \in K : {j \in K : Before(r, j, k)} = {j \in K : j > k}
  BY LaterFirst
<1>3. ASSUME NEW k \in K PROVE Cardinality({j \in K : j > k}) = 0 <=> k = m
  <2> DEFINE L == {j \in K : j > k}
  <2>1. IsFiniteSet(L)
    <3>1. L \in SUBSET K
      OBVIOUS
    <3> HIDE DEF L
    <3> QED BY <1>1, <3>1, FS_Subset
  <2>2. L = {} <=> k = m
    <3>1. \A j \in K : j \in Nat
      OBVIOUS
    <3>2. L = {} <=> \A j \in K : ~(j > k)
      OBVIOUS
    <3> QED BY <3>1, <3>2
  <2> SUFFICES Cardinality(L) = 0 <=> k = m
    OBVIOUS
  <2> HIDE DEF L
  <2> QED BY <2>1, <2>2, FS_EmptySet
<1>4. \A k \in K : Cardinality({j \in K : Before(r, j, k)}) = 0 <=> k = m
  BY <1>2, <1>3
<1>5. ReverseScan(r, K)[1] = r[CHOOSE k \in K : Cardinality({j \in K : Before(r, j, k)}) = 1 - 1]
  BY <1>1 DEF ReverseScan
<1>6. (CHOOSE k \in K : Cardinality({j \in K : Before(r, j, k)}) = 1 - 1) = m
  BY <1>4
<1> QED BY <1>5, <1>6

\* The records and the queries are one chain where the invariant holds.
LEMMA CatalogTells == CatalogInv => HistoryIsAChain
<1> SUFFICES ASSUME CatalogInv, NEW l \in Location
             PROVE  LET r == Rows(l)
                        v == revisions(l)
                    IN  /\ loc_head[l] = IF r = <<>> THEN None ELSE Last(r).id
                        /\ \A k \in 1..Len(r) :
                             /\ r[k].previous_id = IF k = 1 THEN None ELSE r[k - 1].id
                             /\ r[k].previous_id # r[k].id
                        /\ l \in locations <=> v # <<>>
                        /\ set_back \/ \A k \in 1..Len(v) :
                             /\ v[k].previous_id = IF k = Len(v) THEN None ELSE v[k + 1].id
                             /\ k = 1 => v[k].id = loc_head[l]
                             /\ (k < Len(v) /\ \A j \in 1..(k - 1) : v[j].id # v[k].id) =>
                                  ancestors(v[k].id, l)[1].previous_id = v[k + 1].id
  BY DEF HistoryIsAChain
<1> DEFINE r == history[l]
           N == Len(r)
           v == revisions(l)
<1>1. Rows(l) = r /\ r \in Seq(HistoryRow) /\ N \in Nat /\ DOMAIN r = 1..N
  BY DEF Rows, CatalogInv, CatalogTypes
<1>2. \A k \in 1..N : r[k].id \in Snap
  <2>1. ASSUME NEW k \in 1..N PROVE r[k].id \in Snap
    <3>1. r[k] \in HistoryRow
      BY <1>1
    <3> QED BY <3>1 DEF HistoryRow
  <2> QED BY <2>1
<1>3. /\ loc_head[l] = IF r = <<>> THEN None ELSE r[N].id
      /\ \A k \in 1..N : /\ r[k].previous_id = IF k = 1 THEN None ELSE r[k - 1].id
                         /\ r[k].previous_id # r[k].id
  BY DEF CatalogInv, Chain
<1>4. Len(v) = N /\ (v # <<>> <=> r # <<>>)
      /\ (Ordered(r) => \A n \in 1..N : v[n] = r[N + 1 - n])
  <2>1. v = ReverseScan(r, DOMAIN r)
    BY <1>1 DEF revisions
  <2> HIDE DEF v, r
  <2> QED BY <1>1, <2>1, ScanAll
<1>5. r # <<>> <=> N # 0
  BY <1>1, EmptySeq
<1>6. l \in locations <=> v # <<>>
  <2>1. r # <<>> => r[N].id # None
    BY <1>1, <1>2, <1>5, CatalogAssumption
  <2> HIDE DEF v, r
  <2> QED BY <1>3, <1>4, <2>1 DEF locations
<1>n. N \in Nat
  BY <1>1
<1>7. ASSUME ~set_back, NEW k \in 1..N
      PROVE  /\ v[k].previous_id = IF k = N THEN None ELSE v[k + 1].id
             /\ k = 1 => v[k].id = loc_head[l]
             /\ (k < N /\ \A j \in 1..(k - 1) : v[j].id # v[k].id) =>
                  ancestors(v[k].id, l)[1].previous_id = v[k + 1].id
  <2>1. Ordered(r)
    BY <1>7 DEF CatalogInv
  <2>m. PICK m \in 1..N : m = N + 1 - k
    <3> HIDE DEF N
    <3> QED BY <1>n
  <2>2. /\ v[k] = r[m] /\ (k = N <=> m = 1)
        /\ k # N => v[k + 1] = r[m - 1] /\ m - 1 \in 1..N
    <3> HIDE DEF v, r, N
    <3>1. m = N + 1 - k /\ (k # N => k + 1 \in 1..N /\ N + 1 - (k + 1) = m - 1)
      BY <1>n, <2>m
    <3>2. \A n \in 1..N : v[n] = r[N + 1 - n]
      BY <1>4, <2>1
    <3>3. (k = N <=> m = 1) /\ (k # N => m - 1 \in 1..N)
      BY <1>n, <2>m
    <3> QED BY <3>1, <3>2, <3>3
  <2>3. v[k].previous_id = IF k = N THEN None ELSE v[k + 1].id
    <3> HIDE DEF v, r, N
    <3>1. r[m].previous_id = IF m = 1 THEN None ELSE r[m - 1].id
      BY <1>3
    <3> QED BY <2>2, <3>1
  <2>4. k = 1 => v[k].id = loc_head[l]
    <3> HIDE DEF v, r, N
    <3> QED BY <1>n, <1>3, <1>5, <2>m, <2>2
  <2>5. ASSUME k < N, \A j \in 1..(k - 1) : v[j].id # v[k].id
        PROVE  ancestors(v[k].id, l)[1].previous_id = v[k + 1].id
    <3> DEFINE K == {n \in 1..N : r[n].id = v[k].id /\ r[n].previous_id # None}
    <3>1. m \in 1..N /\ m # 1 /\ v[k] = r[m]
      BY <1>n, <2>2, <2>5
    <3>2. m \in K
      <4>1. r[m].previous_id = r[m - 1].id /\ r[m - 1].id \in Snap
        <5>1. m - 1 \in 1..N
          BY <1>n, <3>1
        <5> HIDE DEF v, r, N
        <5> QED BY <1>2, <1>3, <3>1, <5>1
      <4> QED BY <3>1, <4>1, CatalogAssumption
    <3>3. \A n \in K : n <= m
      <4> SUFFICES ASSUME NEW n \in 1..N, r[n].id = v[k].id, n > m PROVE FALSE
        BY <1>1, <3>1
      <4> HIDE DEF v, r, N
      <4>1. N + 1 - n \in 1..(k - 1) /\ N + 1 - n \in 1..N /\ N + 1 - (N + 1 - n) = n
        BY <1>n, <2>m
      <4>2. v[N + 1 - n] = r[n]
        BY <1>4, <2>1, <4>1
      <4> QED BY <2>5, <4>1, <4>2
    <3>4. ancestors(v[k].id, l) = ReverseScan(r, K)
      BY <1>1 DEF ancestors
    <3>5. K \in SUBSET (1..N)
      OBVIOUS
    <3> HIDE DEF K, v, r
    <3>6. ReverseScan(r, K)[1] = r[m]
      BY <1>1, <2>1, <3>2, <3>3, <3>5, ScanSome
    <3> QED BY <2>3, <2>5, <3>1, <3>4, <3>6
  <2> QED BY <2>3, <2>4, <2>5
<1> HIDE DEF v, r
<1>8. set_back \/ \A k \in 1..Len(v) :
        /\ v[k].previous_id = IF k = Len(v) THEN None ELSE v[k + 1].id
        /\ k = 1 => v[k].id = loc_head[l]
        /\ (k < Len(v) /\ \A j \in 1..(k - 1) : v[j].id # v[k].id) =>
             ancestors(v[k].id, l)[1].previous_id = v[k + 1].id
  BY <1>4, <1>7
<1>9. loc_head[l] = IF r = <<>> THEN None ELSE Last(r).id
  BY <1>3 DEF Last
<1> QED BY <1>1, <1>3, <1>6, <1>8, <1>9 DEF v, r

-----------------------------------------------------------------------------
(* The steps on the catalog.                                               *)

UnchangedRows == UNCHANGED <<events, history, loc_head, set_back>>

\* What is in the file is a chain, and in order.
RowsInv ==
  /\ CatalogTypes
  /\ \A l \in Location : Chain(history[l], loc_head[l])
  /\ set_back \/ \A l \in Location : Ordered(history[l])

\* A step that leaves the rows alone, and opens the file for nobody.
LEMMA RowsStill ==
  ASSUME CatalogInv, NEW p \in Proc, NEW hit, \A q \in Proc \ {p} : SameFor(q, hit),
         UnchangedRows, \A q \in Proc : handle'[q] = "open" => handle[q] = "open",
         handle'[p] = "open" => Writing(p)'
  PROVE  CatalogInv'
<1>1. CatalogTypes' /\ (\A l \in Location : Chain(history[l], loc_head[l]))'
      /\ (set_back \/ \A l \in Location : Ordered(history[l]))'
  BY DEF CatalogInv, CatalogTypes, UnchangedRows
<1>2. ASSUME NEW q \in Proc, handle'[q] = "open" PROVE Writing(q)'
  <2>1. CASE q = p
    BY <1>2, <2>1
  <2>2. CASE q # p
    <3>1. Writing(q)
      BY <1>2 DEF CatalogInv
    <3>2. pc'[q] = pc[q] /\ todo'[q] = todo[q] /\ hand'[q] = hand[q] /\ cmd(q)' = cmd(q)
          /\ snap(q)' = snap(q)
      BY <2>2 DEF SameFor, cmd, snap
    <3>3. events' = events /\ history' = history /\ loc_head' = loc_head /\ set_back' = set_back
      BY DEF UnchangedRows
    <3> QED BY <3>1, <3>2, <3>3 DEF Writing
  <2> QED BY <2>1, <2>2
<1>3. (\A q, r \in Proc : handle[q] = "open" /\ handle[r] = "open" => q = r)'
  BY DEF CatalogInv
<1> QED BY <1>1, <1>2, <1>3 DEF CatalogInv

\* A step of the process that has the file open.
LEMMA RowsStep ==
  ASSUME CatalogInv, NEW p \in Proc, handle[p] = "open", handle' = handle,
         RowsInv', Writing(p)'
  PROVE  CatalogInv'
<1>1. \A q \in Proc : handle'[q] = "open" => q = p
  BY DEF CatalogInv
<1> QED BY <1>1 DEF CatalogInv, RowsInv

\* A record that follows the head and is no earlier than any other.
LEMMA InsertKeeps ==
  ASSUME CatalogInv, NEW p \in Proc, handle[p] = "open", NEW l \in Location, NEW s \in Snap,
         NEW h, h = loc_head[l], h # s, NEW t \in Nat,
         set_back \/ NotBefore(history[l], t), insert_history(p, l, s, h, t)
  PROVE  RowsInv'
<1> DEFINE row == [id |-> s, previous_id |-> h, created_at |-> t]
           r == history[l]
           new == Append(r, row)
<1>1. /\ history' = [history EXCEPT ![l] = new] /\ loc_head' = [loc_head EXCEPT ![l] = s]
      /\ events' = events /\ set_back' = set_back /\ handle' = handle
  BY DEF insert_history
<1>2. /\ CatalogTypes /\ history \in [Location -> Seq(HistoryRow)] /\ r \in Seq(HistoryRow)
      /\ loc_head \in [Location -> Snap \union {None}]
  BY DEF CatalogInv, CatalogTypes
<1>3. row \in HistoryRow
  BY <1>2 DEF HistoryRow
<1>4. /\ new \in Seq(HistoryRow) /\ Len(new) = Len(r) + 1 /\ new # <<>> /\ Len(r) \in Nat
      /\ new[Len(r) + 1] = row /\ \A k \in 1..Len(r) : new[k] = r[k]
  <2> HIDE DEF row, r
  <2> QED BY <1>2, <1>3, AppendProperties
<1>5. \A k \in Location : /\ history'[k] = IF k = l THEN new ELSE history[k]
                          /\ loc_head'[k] = IF k = l THEN s ELSE loc_head[k]
  BY <1>1, <1>2
<1>6. CatalogTypes'
  <2>1. history' \in [Location -> Seq(HistoryRow)]
    <3> HIDE DEF new
    <3> QED BY <1>1, <1>2, <1>4
  <2>2. loc_head' \in [Location -> Snap \union {None}]
    BY <1>1, <1>2
  <2>3. IsFiniteSet({k \in Location : history'[k] # <<>>})
    <3> DEFINE F == {k \in Location : history[k] # <<>>}
               G == {k \in Location : history'[k] # <<>>}
    <3>1. G = F \union {l}
      <4> HIDE DEF new
      <4> QED BY <1>4, <1>5
    <3>2. IsFiniteSet(F)
      BY <1>2 DEF CatalogTypes
    <3> SUFFICES IsFiniteSet(G)
      OBVIOUS
    <3> HIDE DEF F, G
    <3> QED BY <3>1, <3>2, FS_AddElement
  <2> QED BY <1>1, <1>2, <2>1, <2>2, <2>3 DEF CatalogTypes
<1>7. Chain(new, s)
  <2>1. Chain(r, h)
    BY DEF CatalogInv
  <2>2. h = IF Len(r) = 0 THEN None ELSE r[Len(r)].id
    BY <1>2, <2>1, EmptySeq DEF Chain
  <2>3. row.id = s /\ row.previous_id = h
    OBVIOUS
  <2> HIDE DEF new, row, r
  <2>4. new[Len(new)].id = s
    BY <1>4, <2>3
  <2>5. ASSUME NEW k \in 1..Len(new)
        PROVE  /\ new[k].previous_id = IF k = 1 THEN None ELSE new[k - 1].id
               /\ new[k].previous_id # new[k].id
    <3>1. CASE k = Len(r) + 1
      <4>1. new[k].previous_id = h /\ new[k].id = s
        BY <1>4, <2>3, <3>1
      <4>2. Len(r) # 0 => k # 1 /\ k - 1 = Len(r) /\ k - 1 \in 1..Len(r)
        BY <1>4, <3>1
      <4>3. Len(r) = 0 => k = 1
        BY <3>1
      <4> QED BY <1>4, <2>2, <4>1, <4>2, <4>3
    <3>2. CASE k # Len(r) + 1
      <4>1. k \in 1..Len(r) /\ (k # 1 => k - 1 \in 1..Len(r))
        BY <1>4, <3>2
      <4>2. r[k].previous_id = (IF k = 1 THEN None ELSE r[k - 1].id) /\ r[k].previous_id # r[k].id
        BY <2>1, <4>1 DEF Chain
      <4> QED BY <1>4, <4>1, <4>2
    <3> QED BY <3>1, <3>2
  <2> QED BY <1>4, <2>4, <2>5 DEF Chain
<1>8. ASSUME ~set_back PROVE Ordered(new)
  <2>1. Ordered(r) /\ NotBefore(r, t)
    BY <1>8 DEF CatalogInv
  <2>2. row.created_at = t
    OBVIOUS
  <2> HIDE DEF new, row, r
  <2>3. ASSUME NEW j \in 1..Len(new), NEW k \in 1..Len(new), j < k
        PROVE  new[j].created_at <= new[k].created_at
    <3>1. j \in 1..Len(r)
      BY <1>4, <2>3
    <3>2. CASE k = Len(r) + 1
      BY <1>4, <2>1, <2>2, <3>1, <3>2 DEF NotBefore
    <3>3. CASE k # Len(r) + 1
      <4>1. k \in 1..Len(r)
        BY <1>4, <3>3
      <4> QED BY <1>4, <2>1, <2>3, <3>1, <4>1 DEF Ordered
    <3> QED BY <3>2, <3>3
  <2> QED BY <2>3 DEF Ordered
<1>9. ASSUME NEW k \in Location PROVE Chain(history'[k], loc_head'[k]) /\ (set_back' \/ Ordered(history'[k]))
  <2>1. Chain(history[k], loc_head[k]) /\ (set_back \/ Ordered(history[k]))
    BY DEF CatalogInv
  <2> HIDE DEF new
  <2> QED BY <1>1, <1>5, <1>7, <1>8, <2>1
<1> QED BY <1>6, <1>9 DEF RowsInv, Chain, Ordered

\* What the process of a logging step is.
LEMMA LoggingProc ==
  ASSUME IInv, NEW p \in Proc, queue[p] # <<>>
  PROVE  /\ snap(p) \in Snap /\ cmd(p).at \in Location /\ cmd(p).cmd \in Kinds
         /\ \A outcome \in {"ok", "failed"} : End(p, outcome) =>
              pc'[p] = "start" /\ \A q \in Proc \ {p} : SameFor(q, {})
         /\ \A label, file : \A work \in SUBSET Work : Move(p, label, work, file, {}) =>
              /\ pc'[p] = label /\ todo'[p] = work /\ hand'[p] = file
              /\ cmd(p)' = cmd(p) /\ snap(p)' = snap(p)
              /\ \A q \in Proc \ {p} : SameFor(q, {})
<1> LocalTypes
  BY DEF IInv
<1>1. cmd(p) \in Command /\ snap(p) \in Snap
  BY Asked
<1>2. cmd(p).at \in Location /\ cmd(p).cmd \in Kinds
  BY <1>1 DEF Command
<1>3. ASSUME NEW outcome \in {"ok", "failed"}, End(p, outcome)
      PROVE  pc'[p] = "start" /\ \A q \in Proc \ {p} : SameFor(q, {})
  <2>1. Left(p, outcome, {})
    BY <1>3, LeaveStep DEF End
  <2> QED BY <2>1 DEF Left
<1>4. ASSUME NEW label, NEW file, NEW work \in SUBSET Work, Move(p, label, work, file, {})
      PROVE  /\ pc'[p] = label /\ todo'[p] = work /\ hand'[p] = file
             /\ cmd(p)' = cmd(p) /\ snap(p)' = snap(p)
             /\ \A q \in Proc \ {p} : SameFor(q, {})
  <2>1. Moved(p, label, work, file, {})
    BY <1>4, MoveStep
  <2> QED BY <2>1 DEF Moved, cmd, snap
<1> QED BY <1>1, <1>2, <1>3, <1>4

\* The command ends, and the file is closed or was not open.
LEMMA EndRows ==
  ASSUME IInv, CatalogInv, NEW p \in Proc, queue[p] # <<>>, NEW outcome \in {"ok", "failed"},
         End(p, outcome), UNCHANGED catalog \/ close(p)
  PROVE  CatalogInv'
<1>1. pc'[p] = "start" /\ \A q \in Proc \ {p} : SameFor(q, {})
  BY LoggingProc
<1>2. UnchangedRows /\ \A q \in Proc : handle'[q] = "open" => handle[q] = "open"
  BY DEF UnchangedRows, catalog, close, IInv, SharedTypes
<1>3. Writing(p)'
  BY <1>1 DEF Writing
<1> QED BY <1>1, <1>2, <1>3, RowsStill

\* The file is opened, by one process at a time.
LEMMA OpenRows ==
  ASSUME IInv, CatalogInv, NEW p \in Proc, log_event(p)
  PROVE  CatalogInv'
<1>1. queue[p] # <<>>
  BY DEF log_event, At
<1>2. CASE UNCHANGED catalog /\ (End(p, "ok") \/ End(p, "failed"))
  BY <1>1, <1>2, EndRows
<1>3. CASE open(p) /\ Goto(p, IF Is(p, {"rebuild"}) THEN "clear" ELSE "log")
  <2>1. Move(p, IF Is(p, {"rebuild"}) THEN "clear" ELSE "log", {}, Empty, {}) /\ {} \in SUBSET Work
    BY <1>3 DEF Goto, GotoWith
  <2>2. pc'[p] \in {"clear", "log"}
    BY <1>1, <2>1, LoggingProc
  <2>3. Writing(p)'
    BY <2>2 DEF Writing
  <2>4. \A q \in Proc : handle'[q] = "open" => q = p
    BY <1>3 DEF open, IInv, SharedTypes
  <2>5. RowsInv'
    BY <1>3 DEF open, RowsInv, CatalogInv, CatalogTypes, Chain, Ordered
  <2> QED BY <2>3, <2>4, <2>5 DEF CatalogInv, RowsInv
<1> QED BY <1>2, <1>3 DEF log_event

\* The event is the latest row there is.
LEMMA EventRows ==
  ASSUME IInv, CatalogInv, NEW p \in Proc, LogEvent(p)
  PROVE  CatalogInv'
<1>1. queue[p] # <<>> /\ Move(p, "head", {}, Empty, {}) /\ {} \in SUBSET Work /\ handle' = handle
  BY DEF LogEvent, At, Goto, GotoWith, log
<1>2. pc'[p] = "head" /\ \A q \in Proc \ {p} : SameFor(q, {})
  BY <1>1, LoggingProc
<1>3. CASE handle[p] # "open"
  <2>1. UnchangedRows /\ UNCHANGED handle
    BY <1>3 DEF LogEvent, log, UnchangedRows
  <2> QED BY <1>2, <1>3, <2>1, RowsStill
<1>4. CASE handle[p] = "open"
  <2>1. PICK t \in {0, Latest, Latest + 1} :
          /\ Now(t)
          /\ events' = Append(events, [event |-> cmd(p).cmd, id |-> snap(p), location |-> cmd(p).at,
                                       created_at |-> t])
    BY <1>4 DEF LogEvent, log
  <2>2. history' = history /\ loc_head' = loc_head
    BY <1>4 DEF LogEvent, log
  <2>3. Latest \in Nat /\ \A l \in Location : NotBefore(history[l], Latest)
    BY LatestBounds DEF CatalogInv
  <2>4. t \in Nat
    BY <2>1, <2>3
  <2> DEFINE row == [event |-> cmd(p).cmd, id |-> snap(p), location |-> cmd(p).at, created_at |-> t]
  <2>5. row \in EventRow /\ row.created_at = t
    BY <1>1, <2>4, LoggingProc DEF EventRow
  <2>6. CatalogTypes /\ events \in Seq(EventRow) /\ set_back \in BOOLEAN
    BY DEF CatalogInv, CatalogTypes
  <2>7. events' \in Seq(EventRow) /\ events' # <<>> /\ events'[Len(events')].created_at = t
    <3>1. events' = Append(events, row)
      BY <2>1
    <3> HIDE DEF row
    <3> QED BY <2>5, <2>6, <3>1, AppendProperties
  <2>8. set_back' \in BOOLEAN /\ (set_back => set_back') /\ (t = 0 => set_back')
    BY <2>1, <2>6 DEF Now
  <2>9. CatalogTypes'
    BY <2>2, <2>6, <2>7, <2>8 DEF CatalogTypes
  <2>10. RowsInv'
    BY <2>2, <2>8, <2>9 DEF CatalogInv, RowsInv, Chain, Ordered
  <2>11. ASSUME ~set_back', NEW l \in Location PROVE NotBefore(history[l], t)
    <3>1. t \in {Latest, Latest + 1}
      BY <2>1, <2>8, <2>11
    <3>2. \A k \in 1..Len(history[l]) : history[l][k].created_at \in Nat
      <4>1. ASSUME NEW k \in 1..Len(history[l]) PROVE history[l][k].created_at \in Nat
        <5>1. history[l][k] \in HistoryRow
          BY <2>6 DEF CatalogTypes
        <5> QED BY <5>1 DEF HistoryRow
      <4> QED BY <4>1
    <3> QED BY <2>3, <3>1, <3>2 DEF NotBefore
  <2>12. Writing(p)'
    BY <1>2, <2>2, <2>7, <2>11 DEF Writing, NotBefore
  <2> QED BY <1>1, <1>4, <2>10, <2>12, RowsStep
<1> QED BY <1>3, <1>4

\* The head that is read stays the head until the record is written.
LEMMA HeadRows ==
  ASSUME IInv, CatalogInv, NEW p \in Proc, ReadHead(p)
  PROVE  CatalogInv'
<1>1. queue[p] # <<>> /\ pc[p] = "head"
  BY DEF ReadHead, At
<1>2. CASE End(p, "ok") /\ close(p)
  BY <1>1, <1>2, EndRows
<1>3. CASE /\ ~(handle[p] = "open" /\ head_id(p, cmd(p).at) = snap(p))
           /\ Move(p, "insert", {}, Named(head_id(p, cmd(p).at)), {}) /\ UNCHANGED catalog
  <2>1. /\ pc'[p] = "insert" /\ hand'[p] = Named(head_id(p, cmd(p).at)) /\ cmd(p)' = cmd(p)
        /\ snap(p)' = snap(p) /\ \A q \in Proc \ {p} : SameFor(q, {})
    <3>1. {} \in SUBSET Work
      OBVIOUS
    <3> QED BY <1>1, <1>3, <3>1, LoggingProc
  <2>2. UnchangedRows /\ handle' = handle
    BY <1>3 DEF UnchangedRows, catalog
  <2>3. hand'[p].name = loc_head[cmd(p).at]
    BY <2>1 DEF Named, Empty, head_id
  <2>4. ASSUME handle[p] = "open" PROVE Writing(p)'
    <3>1. Writing(p) /\ loc_head[cmd(p).at] # snap(p)
      BY <1>3, <2>4 DEF CatalogInv, head_id
    <3>2. events' = events /\ history' = history /\ loc_head' = loc_head /\ set_back' = set_back
      BY <2>2 DEF UnchangedRows
    <3> QED BY <1>1, <2>1, <2>3, <3>1, <3>2 DEF Writing
  <2> QED BY <2>1, <2>2, <2>4, RowsStill
<1> QED BY <1>2, <1>3 DEF ReadHead

\* The record has its event's time.
LEMMA SaveRows ==
  ASSUME IInv, CatalogInv, NEW p \in Proc, Save(p)
  PROVE  CatalogInv'
<1>1. /\ queue[p] # <<>> /\ pc[p] = "insert" /\ Move(p, "close", {}, Empty, {}) /\ {} \in SUBSET Work
      /\ handle' = handle /\ insert_history(p, cmd(p).at, snap(p), hand[p].name, Stamp(p))
  BY DEF Save, At, Goto, GotoWith, insert_history
<1>2. pc'[p] = "close" /\ \A q \in Proc \ {p} : SameFor(q, {})
  BY <1>1, LoggingProc
<1>3. Writing(p)'
  BY <1>2 DEF Writing
<1>4. CASE handle[p] # "open"
  <2>1. UnchangedRows
    BY <1>1, <1>4 DEF insert_history, UnchangedRows
  <2> QED BY <1>1, <1>2, <1>3, <2>1, RowsStill
<1>5. CASE handle[p] = "open"
  <2> DEFINE t == events[Len(events)].created_at
             l == cmd(p).at
  <2>1. Writing(p) /\ CatalogTypes
    BY <1>5 DEF CatalogInv
  <2>2. hand[p].name = loc_head[l] /\ hand[p].name # snap(p) /\ events # <<>>
        /\ (set_back \/ \A k \in Location : NotBefore(history[k], t))
    BY <1>1, <2>1 DEF Writing
  <2>3. Stamp(p) = t
    BY <1>5 DEF Stamp, Last
  <2>4. t \in Nat
    <3>1. events \in Seq(EventRow) /\ Len(events) \in 1..Len(events)
      BY <2>1, <2>2, EmptySeq DEF CatalogTypes
    <3>2. events[Len(events)] \in EventRow
      BY <3>1
    <3> QED BY <3>2 DEF EventRow
  <2>5. l \in Location /\ snap(p) \in Snap
    BY <1>1, LoggingProc
  <2>6. insert_history(p, l, snap(p), hand[p].name, t)
    BY <1>1, <2>3
  <2>7. set_back \/ NotBefore(history[l], t)
    BY <2>2, <2>5
  <2> HIDE DEF t, l
  <2>8. RowsInv'
    BY <1>5, <2>2, <2>4, <2>5, <2>6, <2>7, InsertKeeps
  <2> QED BY <1>1, <1>3, <1>5, <2>8, RowsStep
<1> QED BY <1>4, <1>5

\* A location that is cleared is an empty chain, to which any record may be added.
LEMMA ClearRows ==
  ASSUME IInv, CatalogInv, NEW p \in Proc, ClearLocation(p)
  PROVE  CatalogInv'
<1>1. /\ queue[p] # <<>> /\ pc[p] = "clear" /\ Move(p, "replay", sman, Empty, {})
      /\ handle' = handle /\ clear_location(p, cmd(p).at)
  BY DEF ClearLocation, At, GotoWith, clear_location
<1>2. sman \subseteq Snap /\ sman \in SUBSET Work
  BY DEF IInv, SharedTypes, Work
<1>3. /\ pc'[p] = "replay" /\ todo'[p] = sman /\ hand'[p] = Empty /\ cmd(p)' = cmd(p)
      /\ \A q \in Proc \ {p} : SameFor(q, {})
  BY <1>1, <1>2, LoggingProc
<1>4. CASE handle[p] # "open"
  <2>1. UnchangedRows
    BY <1>1, <1>4 DEF clear_location, UnchangedRows
  <2> QED BY <1>1, <1>3, <1>4, <2>1, RowsStill
<1>5. CASE handle[p] = "open"
  <2>0. PICK l \in Location : l = cmd(p).at
    BY <1>1, LoggingProc
  <2>1. /\ history' = [history EXCEPT ![l] = <<>>] /\ loc_head' = [loc_head EXCEPT ![l] = None]
        /\ events' = events /\ set_back' = set_back
    BY <1>1, <1>5, <2>0 DEF clear_location
  <2>2. /\ history \in [Location -> Seq(HistoryRow)] /\ loc_head \in [Location -> Snap \union {None}]
        /\ IsFiniteSet({k \in Location : history[k] # <<>>})
    BY DEF CatalogInv, CatalogTypes
  <2>3. \A k \in Location : /\ history'[k] = IF k = l THEN <<>> ELSE history[k]
                            /\ loc_head'[k] = IF k = l THEN None ELSE loc_head[k]
    BY <2>1, <2>2
  <2>4. IsFiniteSet({k \in Location : history'[k] # <<>>})
    <3> DEFINE F == {k \in Location : history[k] # <<>>}
               G == {k \in Location : history'[k] # <<>>}
    <3>1. G \in SUBSET F
      BY <2>3
    <3> SUFFICES IsFiniteSet(G)
      OBVIOUS
    <3>2. IsFiniteSet(F)
      BY <2>2
    <3> HIDE DEF F, G
    <3> QED BY <3>1, <3>2, FS_Subset
  <2>5. CatalogTypes'
    <3>1. history' \in [Location -> Seq(HistoryRow)]
      BY <2>1, <2>2
    <3>2. loc_head' \in [Location -> Snap \union {None}]
      BY <2>1, <2>2
    <3> QED BY <2>1, <2>4, <3>1, <3>2 DEF CatalogTypes, CatalogInv
  <2>6. ASSUME NEW k \in Location PROVE Chain(history'[k], loc_head'[k]) /\ (set_back' \/ Ordered(history'[k]))
    <3>1. Chain(history[k], loc_head[k]) /\ (set_back \/ Ordered(history[k]))
      BY DEF CatalogInv
    <3>2. Chain(<<>>, None) /\ Ordered(<<>>)
      BY DEF Chain, Ordered
    <3> QED BY <2>1, <2>3, <3>1, <3>2
  <2>7. RowsInv'
    BY <2>5, <2>6 DEF RowsInv, Chain, Ordered
  <2>8. Writing(p)'
    <3>1. hand'[p].name = None /\ None \notin todo'[p]
      BY <1>2, <1>3, CatalogAssumption DEF Empty
    <3>2. loc_head'[cmd(p)'.at] = None
      BY <1>3, <2>0, <2>3
    <3> QED BY <1>3, <3>1, <3>2 DEF Writing
  <2> QED BY <1>1, <1>5, <2>7, <2>8, RowsStep
<1> QED BY <1>4, <1>5

\* Each snapshot that is replayed follows the one before it.
LEMMA ReplayRows ==
  ASSUME IInv, CatalogInv, NEW p \in Proc, NEW s \in Snap, Replay(p, s)
  PROVE  CatalogInv'
<1>0. PICK t \in {LastStamp(cmd(p).at), LastStamp(cmd(p).at) + 1} :
        IF hand[p].name = s THEN UNCHANGED catalog
                            ELSE insert_history(p, cmd(p).at, s, hand[p].name, t)
  BY DEF Replay
<1>1. /\ queue[p] # <<>> /\ pc[p] = "replay" /\ s \in todo[p]
      /\ Move(p, "replay", todo[p] \ {s}, Named(s), {}) /\ handle' = handle
  BY <1>0 DEF Replay, At, insert_history, catalog
<1>2. todo[p] \ {s} \in SUBSET Work
  BY DEF IInv, LocalTypes
<1>3. /\ pc'[p] = "replay" /\ todo'[p] = todo[p] \ {s} /\ hand'[p] = Named(s) /\ cmd(p)' = cmd(p)
      /\ \A q \in Proc \ {p} : SameFor(q, {})
  BY <1>1, <1>2, LoggingProc
<1>4. CASE handle[p] # "open"
  <2>1. UnchangedRows
    BY <1>0, <1>4 DEF insert_history, UnchangedRows, catalog
  <2> QED BY <1>1, <1>3, <1>4, <2>1, RowsStill
<1>5. CASE handle[p] = "open"
  <2>0. PICK l \in Location : l = cmd(p).at
    BY <1>1, LoggingProc
  <2>1. Writing(p) /\ CatalogTypes
    BY <1>5 DEF CatalogInv
  <2>2. hand[p].name = loc_head[l] /\ hand[p].name # s
    BY <1>1, <2>0, <2>1 DEF Writing
  <2>3. \A k \in 1..Len(history[l]) : history[l][k].created_at \in Nat
    <3>1. ASSUME NEW k \in 1..Len(history[l]) PROVE history[l][k].created_at \in Nat
      <4>1. history[l][k] \in HistoryRow
        BY <2>1 DEF CatalogTypes
      <4> QED BY <4>1 DEF HistoryRow
    <3> QED BY <3>1
  <2>4. t \in Nat /\ (set_back \/ NotBefore(history[l], t))
    <3> DEFINE r == history[l]
    <3>1. r \in Seq(HistoryRow) /\ (set_back \/ Ordered(r))
      BY <2>1 DEF CatalogInv, CatalogTypes
    <3>2. CASE r = <<>>
      <4>1. LastStamp(l) = 0 /\ t \in {0, 1}
        BY <1>0, <2>0, <3>2 DEF LastStamp
      <4> QED BY <3>2, <4>1 DEF NotBefore
    <3>3. CASE r # <<>>
      <4>1. Len(r) \in 1..Len(r) /\ LastStamp(l) = r[Len(r)].created_at
        BY <3>1, <3>3, EmptySeq DEF LastStamp, Last
      <4>2. r[Len(r)].created_at \in Nat
        BY <2>3, <4>1
      <4>3. t \in Nat /\ LastStamp(l) <= t
        BY <1>0, <2>0, <4>1, <4>2
      <4>4. ASSUME Ordered(r), NEW k \in 1..Len(r) PROVE r[k].created_at <= t
        <5>1. r[k].created_at <= r[Len(r)].created_at
          BY <2>3, <4>1, <4>4 DEF Ordered
        <5> QED BY <2>3, <4>1, <4>2, <4>3, <5>1
      <4> QED BY <3>1, <4>3, <4>4 DEF NotBefore
    <3> QED BY <3>2, <3>3
  <2>5. insert_history(p, l, s, hand[p].name, t)
    BY <1>0, <2>0, <2>2
  <2>6. RowsInv'
    BY <1>5, <2>2, <2>4, <2>5, InsertKeeps
  <2>7. loc_head'[l] = s
    BY <1>5, <2>1, <2>5 DEF insert_history, CatalogTypes
  <2>8. Writing(p)'
    <3>1. hand'[p].name = s /\ s \notin todo'[p] /\ loc_head'[cmd(p)'.at] = s
      BY <1>3, <2>0, <2>7 DEF Named, Empty
    <3> QED BY <1>3, <3>1 DEF Writing
  <2> QED BY <1>1, <1>5, <2>6, <2>8, RowsStep
<1> QED BY <1>4, <1>5

\* The file is unlinked: the next to open it finds an empty one.
LEMMA UnlinkRows ==
  ASSUME CatalogInv, unlink
  PROVE  CatalogInv'
<1>1. /\ events' = <<>> /\ history' = [l \in Location |-> <<>>] /\ loc_head' = [l \in Location |-> None]
      /\ set_back' = set_back /\ \A q \in Proc : handle'[q] # "open"
  BY DEF unlink
<1>2. {l \in Location : history'[l] # <<>>} = {}
  BY <1>1
<1>3. CatalogTypes'
  <2>1. IsFiniteSet({l \in Location : history'[l] # <<>>})
    BY <1>2, FS_EmptySet
  <2>2. <<>> \in Seq(EventRow) /\ <<>> \in Seq(HistoryRow)
    BY EmptySeq
  <2>3. history' \in [Location -> Seq(HistoryRow)] /\ loc_head' \in [Location -> Snap \union {None}]
    BY <1>1, <2>2
  <2> QED BY <1>1, <2>1, <2>2, <2>3 DEF CatalogTypes, CatalogInv
<1>4. \A l \in Location : Chain(<<>>, None) /\ Ordered(<<>>)
  BY DEF Chain, Ordered
<1>5. \A l \in Location : history'[l] = <<>> /\ loc_head'[l] = None
  BY <1>1
<1>6. (\A l \in Location : Chain(history[l], loc_head[l]) /\ Ordered(history[l]))'
  BY <1>4, <1>5 DEF Chain, Ordered
<1> QED BY <1>1, <1>3, <1>6 DEF CatalogInv

\* The steps that do not log leave the catalog alone, but for the flush that
\* unlinks it.
LEMMA OtherRows ==
  ASSUME IInv, NEW p \in Proc, Step(p), ~log_event(p), ~LogEvent(p), ~ReadHead(p), ~Save(p),
         ~CloseCatalog(p), ~ClearLocation(p), ~Rebuilt(p), \A s \in Snap : ~Replay(p, s)
  PROVE  (UNCHANGED catalog /\ handle[p] = "closed") \/ unlink
<1>0. pc[p] \notin Logging => handle[p] = "closed"
  BY DEF IInv, ProcInv, ProcOK, Holding
<1>1. CASE \/ CachePush(p) \/ CacheManifest(p) \/ StorePush(p) \/ StoreManifest(p)
           \/ ExternalPush(p) \/ ExternalManifest(p)
           \/ run_stage(p) \/ run_push(p) \/ push_by_id(p) \/ Materialize(p)
  BY <1>0, <1>1 DEF CachePush, CacheManifest, StorePush, StoreManifest, ExternalPush,
                    ExternalManifest, run_stage, run_push, push_by_id, Materialize, At, Logging
<1>2. CASE \/ fetch_inner(p) \/ GetManifest(p) \/ HealCache(p) \/ RemoveStale(p)
           \/ ExternalFetched(p) \/ Validate(p)
  BY <1>0, <1>2 DEF fetch_inner, GetManifest, HealCache, RemoveStale, ExternalFetched, Validate,
                    At, Logging
<1>3. CASE \/ checkout_inner(p) \/ Collect(p) \/ CheckAndRename(p) \/ Materialized(p) \/ Pruned(p)
           \/ BuildStaging(p) \/ RenameAside(p) \/ SwapIn(p) \/ DropOld(p)
  BY <1>0, <1>3 DEF checkout_inner, Collect, CheckAndRename, Materialized, Pruned, BuildStaging,
                    RenameAside, SwapIn, DropOld, At, Logging
<1>4. CASE \/ run_verify(p) \/ run_verify_cache(p) \/ Purge(p) \/ Scanned(p)
           \/ CacheVerified(p) \/ run_flush_cache(p) \/ Flushed(p)
  BY <1>0, <1>4 DEF run_verify, run_verify_cache, Purge, Scanned, CacheVerified, run_flush_cache,
                    Flushed, At, Logging
<1>5. ASSUME NEW d, \/ CacheCopy(p, d) \/ StoreCopy(p, d) \/ ExternalSend(p, d)
                    \/ ExternalFetch(p, d) \/ TornGet(p, d) \/ Scan(p, d)
      PROVE  UNCHANGED catalog /\ handle[p] = "closed"
  BY <1>0, <1>5 DEF CacheCopy, StoreCopy, ExternalSend, ExternalFetch, TornGet, Scan, At, Logging
<1>6. ASSUME NEW x, CopyFile(p, x) \/ Link(p, x) \/ Prune(p, x)
      PROVE  UNCHANGED catalog /\ handle[p] = "closed"
  BY <1>0, <1>6 DEF CopyFile, Link, Prune, At, Logging
<1>7. ASSUME NEW e, FlushEntry(p, e)
      PROVE  (UNCHANGED catalog /\ handle[p] = "closed") \/ unlink
  BY <1>0, <1>7 DEF FlushEntry, At, Logging
<1>8. ASSUME NEW s, NEW d, ListManifest(p, s) \/ ReadListed(p, s) \/ StatObject(p, s, d)
      PROVE  UNCHANGED catalog /\ handle[p] = "closed"
  BY <1>0, <1>8 DEF ListManifest, ReadListed, StatObject, At, Logging
<1> QED BY <1>1, <1>2, <1>3, <1>4, <1>5, <1>6, <1>7, <1>8 DEF Step

\* Every step keeps the chain.
LEMMA CatalogNext ==
  ASSUME IInv, CatalogInv, [Next]_vars
  PROVE  CatalogInv'
<1>1. ASSUME NEW p \in Proc, Step(p) PROVE CatalogInv'
  <2>1. CASE CloseCatalog(p) \/ Rebuilt(p)
    BY <2>1, EndRows DEF CloseCatalog, Rebuilt, At
  <2>2. CASE UNCHANGED catalog /\ handle[p] = "closed"
    <3>1. PICK hit \in SUBSET (Data \union Snap) : Told(p, hit)
      BY <1>1, StepTold
    <3>2. \A q \in Proc \ {p} : SameFor(q, hit)
      BY <3>1 DEF Told, Seen
    <3>3. UnchangedRows /\ handle' = handle
      BY <2>2 DEF UnchangedRows, catalog
    <3> QED BY <2>2, <3>2, <3>3, RowsStill
  <2> QED BY <1>1, <2>1, <2>2, OpenRows, EventRows, HeadRows, SaveRows, ClearRows, ReplayRows,
             OtherRows, UnlinkRows
<1>2. ASSUME NEW p \in Proc, Abort(p) PROVE CatalogInv'
  BY <1>2, EndRows DEF Abort
<1>3. ASSUME UNCHANGED <<catalog, queue, pc, todo, hand>> PROVE CatalogInv'
  <2>1. UNCHANGED <<events, history, loc_head, handle, set_back>>
    BY <1>3 DEF catalog
  <2>2. \A q \in Proc : Writing(q)' <=> Writing(q)
    BY <1>3, <2>1 DEF Writing, NotBefore, cmd, snap
  <2>3. RowsInv'
    BY <2>1 DEF CatalogInv, RowsInv, CatalogTypes, Chain, Ordered
  <2> QED BY <2>1, <2>2, <2>3 DEF CatalogInv, RowsInv
<1>4. ASSUME NEW d \in Data, BitRot(d) PROVE CatalogInv'
  BY <1>3, <1>4 DEF BitRot
<1>5. CASE UNCHANGED vars
  BY <1>3, <1>5 DEF vars, local
<1> QED BY <1>1, <1>2, <1>4, <1>5 DEF Next

\* The chain is empty at first.
LEMMA CatalogInit == Init => CatalogInv
<1> SUFFICES ASSUME Init PROVE CatalogInv
  OBVIOUS
<1>1. /\ events = <<>> /\ history = [l \in Location |-> <<>>] /\ loc_head = [l \in Location |-> None]
      /\ set_back = FALSE /\ handle = [p \in Proc |-> "closed"]
  BY DEF Init, Fresh
<1>2. {l \in Location : history[l] # <<>>} = {}
  BY <1>1
<1>3. CatalogTypes
  <2>1. IsFiniteSet({l \in Location : history[l] # <<>>})
    BY <1>2, FS_EmptySet
  <2>2. <<>> \in Seq(EventRow) /\ <<>> \in Seq(HistoryRow)
    BY EmptySeq
  <2>3. history \in [Location -> Seq(HistoryRow)] /\ loc_head \in [Location -> Snap \union {None}]
    BY <1>1, <2>2
  <2> QED BY <1>1, <2>1, <2>2, <2>3 DEF CatalogTypes
<1>4. Chain(<<>>, None) /\ Ordered(<<>>)
  BY DEF Chain, Ordered
<1>5. \A l \in Location : history[l] = <<>> /\ loc_head[l] = None
  BY <1>1
<1>6. \A p \in Proc : handle[p] # "open"
  BY <1>1
<1> QED BY <1>3, <1>4, <1>5, <1>6 DEF CatalogInv

\* Whatever processes race to log, are killed between the transactions or
\* rebuild a location, its records are one chain up to its head, and so do the
\* queries tell them.
THEOREM HistoriesAreChains == Spec => []HistoryIsAChain
<1>1. IInv /\ CatalogInv /\ [Next]_vars => CatalogInv'
  BY CatalogNext
<1> QED BY <1>1, CatalogInit, CatalogTells, Invariant, PTL DEF Spec

=============================================================================
