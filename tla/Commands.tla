------------------------------ MODULE Commands ------------------------------
(***************************************************************************)
(* The commands of snapdir over one cache, one store, one destination and  *)
(* one catalog, run by several processes at once: stage, push, fetch, pull, *)
(* checkout, verify, verify-cache, flush-cache (snapdir-cli/src/cli.rs) and *)
(* the same calls of the library (snapdir-api/src/lib.rs), the cache they  *)
(* share (snapdir-core/src/cache.rs), materialization and the atomic swap  *)
(* (snapdir-stores/src/file_store.rs), the split store (split.rs) and the  *)
(* external-store shim (shim.rs).                                          *)
(*                                                                         *)
(* A process works through a list of commands.  A step is one access to    *)
(* what the processes share; what a command does to a scratch directory of *)
(* its own is part of the step that uses it.  The store's own protocol is  *)
(* the subject of FileStore and ObjectStore: here a push to it is a probe, *)
(* the objects one by one, and the manifest.                               *)
(***************************************************************************)
EXTENDS Catalog, FiniteSets, FiniteSetsExt

CONSTANTS Data,        \* contents, which are also object addresses
          Tree,        \* snapshot -> path -> content
          DestPath,    \* what may be in the destination, directories too
          Parent,      \* path -> the directory it is in, or None
          Protected,   \* paths an --exclude matches
          Own,         \* the user's bytes, in no snapshot
          Bad,         \* bytes that are not what they should be
          Plans,       \* what the processes may be asked to run, over which store
                       \* and destination
          MaxRot,      \* how many cached objects rot
          MaxAborts    \* how many commands are killed or fail in the middle

Kinds == {"stage", "push", "push_id", "fetch", "pull", "checkout", "swap", "verify",
          "verify_cache", "flush_cache", "rebuild"}

\* What a process may be asked to do.  The library takes no notice of the
\* options for links, mirroring and dry runs.  A verify-cache that is scoped
\* has an --id; any other command is about its snapshot.
Command ==
  {c \in [cmd : Kinds, snap : Snap, store : {"main", "split", "external"}, api : BOOLEAN,
          dryrun : BOOLEAN, linked : BOOLEAN, local : BOOLEAN, delete : BOOLEAN,
          onto : STRING, purge : BOOLEAN, scoped : BOOLEAN, catalog : STRING,
          at : Location] :
     c.api => c.store # "external" /\ ~c.linked /\ ~c.delete /\ ~c.dryrun}

ASSUME CommandsAssumption ==
  /\ \A s \in Snap : /\ DOMAIN Tree[s] \subseteq DestPath
                    /\ \A x \in DOMAIN Tree[s] : Tree[s][x] \in Data
  /\ \A plan \in Plans : /\ plan.run \in [Proc -> Seq(Command)]
                         /\ plan.stored \subseteq Snap
  /\ Own \notin Data \union {Bad, None} /\ Bad \notin Data \union {None} /\ None \notin Data

VARIABLES cobj, cman,     \* the cache: address -> bytes or None; its manifests
          sobj, sman,     \* the store: side -> address -> bytes; its manifests
          dest,           \* the destination: path -> bytes, or a link's target
          links,          \* the paths in it that are links into the cache
          aside,          \* process -> the tree its swap has put aside, and its links
          adrift,         \* the trees swaps that broke off have left aside
          queue, pc,      \* the commands a process has left, and where it is
          todo,           \* what its loop has left to do
          flag,           \* fetch: the manifest is cached with objects missing;
                          \* verify-cache: an object was corrupt or missing
          hand,           \* the file a copy has written and not renamed, or
                          \* the name its loop is at
          status,         \* how its last command ended
          rots, aborts,   \* how many objects rotted and commands broke off
          shimmed,        \* history: an external script has written to the store
          purged,         \* history: objects the cache had and lost
          touched,        \* history: what others spoilt, lost or filed since it began
          found,          \* history: the destination at the beginning
          mirrored        \* history: how its own files were asked to go

cache == <<cobj, cman, purged>>
store == <<sobj, sman, shimmed>>
tree == <<dest, links, aside, adrift, found, mirrored>>
local == <<queue, pc, todo, flag, hand, status, touched>>
faults == <<rots, aborts>>
vars == <<cache, store, tree, local, faults, catalog>>

Side == {"main", "pool"}
NoTree == [x \in DestPath |-> None]
NoSwap == [files |-> NoTree, links |-> {}]
Empty == [name |-> None, bytes |-> None, cloned |-> FALSE]
ObjectsOf(s) == {Tree[s][x] : x \in DOMAIN Tree[s]}

Init ==
  /\ cobj = [d \in Data |-> None] /\ cman = {} /\ purged = {}
  /\ \E plan \in Plans :
       /\ queue = plan.run
       /\ sman = plan.stored
       /\ sobj = [sd \in Side |-> [d \in Data |->
                   IF sd = "main" /\ \E s \in plan.stored : d \in ObjectsOf(s) THEN d ELSE None]]
       /\ dest = IF plan.occupied
                   THEN [x \in DestPath |-> IF \E s \in Snap : x \in DOMAIN Tree[s] THEN None ELSE Own]
                   ELSE NoTree
  /\ found = dest /\ links = {} /\ mirrored = {}
  /\ aside = [p \in Proc |-> NoSwap] /\ adrift = {}
  /\ pc = [p \in Proc |-> "start"]
  /\ todo = [p \in Proc |-> {}]
  /\ flag = [p \in Proc |-> FALSE]
  /\ hand = [p \in Proc |-> Empty]
  /\ status = [p \in Proc |-> "ok"]
  /\ rots = 0 /\ aborts = 0
  /\ shimmed = FALSE
  /\ touched = [p \in Proc |-> {}]
  /\ Fresh

-----------------------------------------------------------------------------
(* Where a process is.                                                     *)

cmd(p) == Head(queue[p])
snap(p) == cmd(p).snap
At(p, label) == queue[p] # <<>> /\ pc[p] = label
Is(p, kinds) == cmd(p).cmd \in kinds

\* What p's step spoils, loses or files in the cache is noted for every other
\* process in the middle of a command.
Touch(p, ends, hit) ==
  touched' = [q \in Proc |->
    IF q = p THEN (IF ends THEN {} ELSE touched[p])
    ELSE IF pc[q] = "start" THEN {}
    ELSE touched[q] \union hit]

\* The command ends, and the next one will begin.
Leave(p, outcome, hit) ==
  /\ queue' = [queue EXCEPT ![p] = Tail(@)]
  /\ pc' = [pc EXCEPT ![p] = "start"]
  /\ status' = [status EXCEPT ![p] = outcome]
  /\ todo' = [todo EXCEPT ![p] = {}]
  /\ flag' = [flag EXCEPT ![p] = FALSE]
  /\ hand' = [hand EXCEPT ![p] = Empty]
  /\ Touch(p, TRUE, hit)

End(p, outcome) == Leave(p, outcome, {})

\* On to the next step with what its loop has to do and what it has in hand.
Move(p, label, work, file, hit) ==
  /\ pc' = [pc EXCEPT ![p] = label]
  /\ todo' = [todo EXCEPT ![p] = work]
  /\ hand' = [hand EXCEPT ![p] = file]
  /\ Touch(p, FALSE, hit)
  /\ UNCHANGED <<queue, flag, status>>

GotoWith(p, label, work) == Move(p, label, work, Empty, {})
Goto(p, label) == GotoWith(p, label, {})
Hold(p, file) == Move(p, pc[p], todo[p], file, {})
Named(x) == [Empty EXCEPT !.name = x]

\* A turn of its loop is over.
Drop(p, x) == GotoWith(p, pc[p], todo[p] \ {x})

\* What follows when the cache, or the store, has the snapshot.
AfterCache(p, filed) ==
  IF cmd(p).api THEN (IF Is(p, {"stage"}) THEN Leave(p, "ok", filed)
                                          ELSE Move(p, "validate", {}, Empty, filed))
  ELSE IF Is(p, {"stage"}) THEN Move(p, "catalog", {}, Empty, filed)
  ELSE IF Is(p, {"push"}) THEN Move(p, "xpush", {}, Empty, filed)
  ELSE IF Is(p, {"pull"}) THEN Move(p, "checkout", {}, Empty, filed)
  ELSE Leave(p, "ok", filed)

AfterStore(p) == IF cmd(p).api THEN End(p, "ok") ELSE Goto(p, "catalog")

side(p) == IF cmd(p).store = "split" THEN "pool" ELSE "main"
External(p) == cmd(p).store = "external"

-----------------------------------------------------------------------------
(* Into the cache: FileStore::push at the cache root, and sync_snapshot to *)
(* it.  An object that is present is trusted.                              *)

\* A manifest that is present ends the push; else the absent objects are
\* collected.
CachePush(p) ==
  /\ At(p, "cpush")
  /\ IF snap(p) \in cman
       THEN AfterCache(p, {})
       ELSE GotoWith(p, "ccopy", {d \in ObjectsOf(snap(p)) : cobj[d] = None})
  /\ UNCHANGED <<cache, store, tree, faults, catalog>>

\* One object, verified on its way in, is renamed into place.
CacheCopy(p, d) ==
  /\ At(p, "ccopy") /\ d \in todo[p]
  /\ cobj' = [cobj EXCEPT ![d] = d]
  /\ purged' = purged \ {d}
  /\ Move(p, "ccopy", todo[p] \ {d}, Empty, {d})
  /\ UNCHANGED <<cman, store, tree, faults, catalog>>

\* Mutant: the manifest is filed whatever is left to copy.
CacheManifestEarly(p) ==
  /\ At(p, "ccopy")
  /\ cman' = cman \union {snap(p)}
  /\ AfterCache(p, {snap(p)})
  /\ UNCHANGED <<cobj, purged, store, tree, faults, catalog>>

\* The manifest, after every object.
CacheManifest(p) ==
  /\ At(p, "ccopy") /\ todo[p] = {}
  /\ cman' = cman \union {snap(p)}
  /\ AfterCache(p, {snap(p)})
  /\ UNCHANGED <<cobj, purged, store, tree, faults, catalog>>

-----------------------------------------------------------------------------
(* Into the store.                                                         *)

\* Store::push of a built-in store, and SplitStore::push: the probe is of the
\* manifest alone, which a split store keeps apart from the objects.
StorePush(p) ==
  /\ At(p, "spush")
  /\ IF snap(p) \in sman
       THEN AfterStore(p)
       ELSE GotoWith(p, "scopy", {d \in ObjectsOf(snap(p)) : sobj[side(p)][d] = None})
  /\ UNCHANGED <<cache, store, tree, faults, catalog>>

\* What an upload reads: the user's tree or a scratch tree, or the cache when
\* the library syncs a staged snapshot from it; get_object verifies it.
SourceIntact(p, d) == (cmd(p).api /\ Is(p, {"push_id"})) => cobj[d] = d

StoreCopy(p, d) ==
  /\ At(p, "scopy") /\ d \in todo[p]
  /\ IF SourceIntact(p, d)
       THEN /\ sobj' = [sobj EXCEPT ![side(p)][d] = d]
            /\ Drop(p, d)
       ELSE End(p, "failed") /\ UNCHANGED sobj
  /\ UNCHANGED <<cache, sman, shimmed, tree, faults, catalog>>

StoreManifest(p) ==
  /\ At(p, "scopy") /\ todo[p] = {}
  /\ sman' = sman \union {snap(p)}
  /\ AfterStore(p)
  /\ UNCHANGED <<cache, sobj, shimmed, tree, faults, catalog>>

\* The script an external store emits reads the cache as it finds it: an
\* object that is missing fails it, the bytes of one that is there are sent as
\* they are.
ExternalPush(p) ==
  /\ At(p, "xpush")
  /\ IF snap(p) \in sman
       THEN AfterStore(p)
       ELSE GotoWith(p, "xsend", {d \in ObjectsOf(snap(p)) : sobj.main[d] = None})
  /\ UNCHANGED <<cache, store, tree, faults, catalog>>

ExternalSend(p, d) ==
  /\ At(p, "xsend") /\ d \in todo[p]
  /\ IF cobj[d] = None
       THEN End(p, "failed") /\ UNCHANGED <<sobj, shimmed>>
       ELSE /\ sobj' = [sobj EXCEPT !.main[d] = cobj[d]]
            /\ shimmed' = TRUE
            /\ Drop(p, d)
  /\ UNCHANGED <<cache, sman, tree, faults, catalog>>

ExternalManifest(p) ==
  /\ At(p, "xsend") /\ todo[p] = {}
  /\ IF snap(p) \in cman
       THEN sman' = sman \union {snap(p)} /\ AfterStore(p)
       ELSE UNCHANGED sman /\ End(p, "failed")
  /\ UNCHANGED <<cache, sobj, shimmed, tree, faults, catalog>>

-----------------------------------------------------------------------------
(* stage and push.                                                         *)

run_stage(p) ==
  /\ At(p, "start") /\ Is(p, {"stage"})
  /\ IF cmd(p).dryrun THEN End(p, "ok") ELSE Goto(p, "cpush")
  /\ UNCHANGED <<cache, store, tree, faults, catalog>>

\* push of a path.  An external store reads from the cache, so the tree is
\* staged there first.
run_push(p) ==
  /\ At(p, "start") /\ Is(p, {"push"})
  /\ IF cmd(p).dryrun THEN End(p, "ok")
     ELSE IF External(p) THEN Goto(p, "cpush")
     ELSE Goto(p, "spush")
  /\ UNCHANGED <<cache, store, tree, faults, catalog>>

\* push --id: the snapshot comes from the cache.  The command line
\* materializes it in a scratch tree, which verifies every object; an external
\* store is handed the cache itself, on the strength of the manifest.
push_by_id(p) ==
  /\ At(p, "start") /\ Is(p, {"push_id"})
  /\ IF snap(p) \notin cman THEN End(p, "failed")
     ELSE IF cmd(p).dryrun THEN End(p, "ok")
     ELSE IF External(p) THEN Goto(p, "xpush")
     ELSE IF cmd(p).api THEN Goto(p, "spush")
     ELSE Goto(p, "scratch")
  /\ UNCHANGED <<cache, store, tree, faults, catalog>>

Materialize(p) ==
  /\ At(p, "scratch")
  /\ IF \A d \in ObjectsOf(snap(p)) : cobj[d] = d THEN Goto(p, "spush") ELSE End(p, "failed")
  /\ UNCHANGED <<cache, store, tree, faults, catalog>>

-----------------------------------------------------------------------------
(* fetch and pull.                                                         *)

missing_cache_objects(s) == {d \in ObjectsOf(s) : cobj[d] = None}

materialize_mode(c) ==
  IF ~c.linked THEN "auto" ELSE IF c.local THEN "linked" ELSE "refused"

\* --delete never prunes the cache, a store, home or the root.
guard_dangerous_dest(c) == c.delete => c.onto = "dir"

Doomed(c) == materialize_mode(c) = "refused" \/ ~guard_dangerous_dest(c)

\* The fast path needs the manifest and every object; a manifest with objects
\* missing is to be healed.  The library always asks the store first.
fetch_inner(p) ==
  /\ At(p, "start") /\ Is(p, {"fetch", "pull"})
  /\ LET cached == snap(p) \in cman
         whole == missing_cache_objects(snap(p)) = {}
     IN  IF Is(p, {"pull"}) /\ Doomed(cmd(p)) THEN End(p, "failed")
         ELSE IF cached /\ whole /\ ~cmd(p).api
           THEN IF Is(p, {"pull"}) THEN Goto(p, "checkout") ELSE End(p, "ok")
         ELSE /\ pc' = [pc EXCEPT ![p] = "get"]
              /\ flag' = [flag EXCEPT ![p] = cached /\ ~cmd(p).api]
              /\ UNCHANGED <<queue, todo, hand, status, touched>>
  /\ UNCHANGED <<cache, store, tree, faults, catalog>>

\* What is fetched into the scratch tree; the library's sync takes what the
\* cache lacks, and nothing when the manifest is there.
Wanted(p) ==
  IF ~cmd(p).api THEN ObjectsOf(snap(p))
  ELSE IF snap(p) \in cman THEN {} ELSE missing_cache_objects(snap(p))

\* The manifest is read from the store, then the objects into a scratch tree
\* (fetch_files verifies them), or by the external script into the cache.
GetManifest(p) ==
  /\ At(p, "get")
  /\ IF snap(p) \notin sman THEN End(p, "failed")
     ELSE IF cmd(p).dryrun
       THEN IF Is(p, {"pull"}) THEN Goto(p, "checkout") ELSE End(p, "ok")
     ELSE IF External(p)
       THEN GotoWith(p, "xfetch", missing_cache_objects(snap(p)))
     ELSE IF \E d \in Wanted(p) : sobj[side(p)][d] # d
       THEN End(p, "failed")
     ELSE Goto(p, IF flag[p] THEN "heal" ELSE "cpush")
  /\ UNCHANGED <<cache, store, tree, faults, catalog>>

\* Mutant: the manifest with objects missing is left in the cache.
KeepStale(p) ==
  /\ At(p, "heal")
  /\ Goto(p, "cpush")
  /\ UNCHANGED <<cache, store, tree, faults, catalog>>

\* The stale manifest goes, so that the push below does not stop at it: if it
\* exists, and unless another process has removed it since.
HealCache(p) ==
  /\ At(p, "heal")
  /\ Goto(p, IF snap(p) \in cman THEN "unlink" ELSE "cpush")
  /\ UNCHANGED <<cache, store, tree, faults, catalog>>

RemoveStale(p) ==
  /\ At(p, "unlink")
  /\ cman' = cman \ {snap(p)}
  /\ IF snap(p) \in cman THEN Move(p, "cpush", {}, Empty, {snap(p)}) ELSE End(p, "failed")
  /\ UNCHANGED <<cobj, purged, store, tree, faults, catalog>>

\* The external script writes straight into the cache.  An object the store
\* lacks fails it; cut off, it may leave an object torn.
ExternalFetch(p, d) ==
  /\ At(p, "xfetch") /\ d \in todo[p]
  /\ \/ /\ sobj.main[d] # None
        /\ cobj' = [cobj EXCEPT ![d] = sobj.main[d]]
        /\ purged' = purged \ {d}
        /\ Move(p, "xfetch", todo[p] \ {d}, Empty,
                IF cobj[d] \in {None, d} /\ sobj.main[d] = d THEN {} ELSE {d})
        /\ UNCHANGED faults
     \/ /\ sobj.main[d] = None
        /\ End(p, "failed")
        /\ UNCHANGED <<cobj, purged, faults>>
     \/ /\ aborts < MaxAborts
        /\ aborts' = aborts + 1
        /\ cobj' = [cobj EXCEPT ![d] = Bad]
        /\ purged' = purged \ {d}
        /\ Leave(p, "failed", {d})
        /\ UNCHANGED rots
  /\ UNCHANGED <<cman, store, tree, catalog>>

\* The sftp script tolerates a `-get` that breaks off, and its last loop takes
\* a file that is there for a file that is whole: the script goes on, and
\* files the torn object.
TornGet(p, d) ==
  /\ At(p, "xfetch") /\ d \in todo[p]
  /\ aborts < MaxAborts
  /\ aborts' = aborts + 1
  /\ cobj' = [cobj EXCEPT ![d] = Bad]
  /\ purged' = purged \ {d}
  /\ Move(p, "xfetch", todo[p] \ {d}, Empty, {d})
  /\ UNCHANGED <<cman, store, tree, rots, catalog>>

\* put_manifest, last.
ExternalFetched(p) ==
  /\ At(p, "xfetch") /\ todo[p] = {}
  /\ cman' = cman \union {snap(p)}
  /\ AfterCache(p, {snap(p)})
  /\ UNCHANGED <<cobj, purged, store, tree, faults, catalog>>

\* validated_cache_manifest: the library trusts nothing it has not hashed.
Validate(p) ==
  /\ At(p, "validate")
  /\ IF snap(p) \in cman /\ \A d \in ObjectsOf(snap(p)) : cobj[d] = d
       THEN IF Is(p, {"fetch"}) THEN End(p, "ok") ELSE Goto(p, "collect")
       ELSE End(p, "failed")
  /\ UNCHANGED <<cache, store, tree, faults, catalog>>

-----------------------------------------------------------------------------
(* checkout: the cache into the destination.                               *)

\* The command line refuses before it reads anything, then looks at the
\* manifest and at the presence of the objects; the library validates.
checkout_inner(p) ==
  /\ \/ At(p, "checkout")
     \/ At(p, "start") /\ Is(p, {"checkout"})
  /\ IF cmd(p).api THEN Goto(p, "validate")
     ELSE IF Doomed(cmd(p)) THEN End(p, "failed")
     ELSE IF cmd(p).dryrun /\ ~cmd(p).delete THEN End(p, "ok")
     ELSE IF snap(p) \notin cman THEN End(p, "failed")
     ELSE IF cmd(p).dryrun THEN End(p, "ok")
     ELSE IF missing_cache_objects(snap(p)) # {} THEN End(p, "failed")
     ELSE IF cmd(p).linked THEN GotoWith(p, "link", DOMAIN Tree[snap(p)])
     ELSE Goto(p, "collect")
  /\ UNCHANGED <<cache, store, tree, faults, catalog>>

\* What a read of a destination path finds: a link is followed.
Content(x) == IF x \in links THEN cobj[dest[x]] ELSE dest[x]

\* fetch_files, its sequential pass: paths already verified are skipped, the
\* objects of the others must be there.
Collect(p) ==
  /\ At(p, "collect")
  /\ LET T == Tree[snap(p)]
         needed == {x \in DOMAIN T : Content(x) # T[x]}
     IN  IF \E x \in needed : cobj[T[x]] = None
           THEN End(p, "failed")
           ELSE GotoWith(p, "copy", needed)
  /\ UNCHANGED <<cache, store, tree, faults, catalog>>

\* copy_file into a temporary file, by a clone or byte by byte.
CopyFile(p, x) ==
  /\ At(p, "copy") /\ x \in todo[p] /\ hand[p] = Empty
  /\ LET bytes == cobj[Tree[snap(p)][x]]
     IN  IF bytes = None THEN End(p, "failed")
         ELSE \E cloned \in BOOLEAN :
                Hold(p, [name |-> x, bytes |-> bytes, cloned |-> cloned])
  /\ UNCHANGED <<cache, store, tree, faults, catalog>>

\* Mutant: the copy is renamed into place without being hashed.
RenameUnchecked(p) ==
  /\ At(p, "copy") /\ hand[p] # Empty
  /\ dest' = [dest EXCEPT ![hand[p].name] = hand[p].bytes]
  /\ links' = links \ {hand[p].name}
  /\ Drop(p, hand[p].name)
  /\ UNCHANGED <<cache, store, aside, adrift, found, mirrored, faults, catalog>>

\* The end of persist.  A clone is trusted when its SOURCE hashes right
\* (clone_skip_decision); a copy, or a clone whose source is gone, is hashed
\* itself, and one that is wrong is made again while the source is right.
CheckAndRename(p) ==
  /\ At(p, "copy") /\ hand[p] # Empty
  /\ LET x == hand[p].name
         d == Tree[snap(p)][x]
         trusted == IF hand[p].cloned /\ cobj[d] # None THEN cobj[d] = d ELSE hand[p].bytes = d
         again == cobj[d] = d
     IN  IF trusted
           THEN /\ dest' = [dest EXCEPT ![x] = hand[p].bytes]
                /\ links' = links \ {x}
                /\ Drop(p, x)
           ELSE /\ IF again THEN Hold(p, Empty) ELSE End(p, "failed")
                /\ UNCHANGED <<dest, links>>
  /\ UNCHANGED <<cache, store, aside, adrift, found, mirrored, faults, catalog>>

\* fetch_files_linked: a link to an object that is there, whatever its bytes.
Link(p, x) ==
  /\ At(p, "link") /\ x \in todo[p]
  /\ LET d == Tree[snap(p)][x]
     IN  IF cobj[d] = None
           THEN End(p, "failed") /\ UNCHANGED <<dest, links>>
           ELSE /\ dest' = [dest EXCEPT ![x] = d]
                /\ links' = links \union {x}
                /\ Drop(p, x)
  /\ UNCHANGED <<cache, store, aside, adrift, found, mirrored, faults, catalog>>

\* Everything in the destination that is not in the manifest, less what an
\* --exclude protects.
prune_set(s) ==
  {x \in DestPath : dest[x] # None /\ x \notin DOMAIN Tree[s] /\ x \notin Protected}

Materialized(p) ==
  /\ pc[p] \in {"copy", "link"} /\ todo[p] = {} /\ queue[p] # <<>>
  /\ IF cmd(p).delete
       THEN GotoWith(p, "prune", prune_set(snap(p))) /\ mirrored' = mirrored \union {"prune"}
       ELSE End(p, "ok") /\ UNCHANGED mirrored
  /\ UNCHANGED <<cache, store, dest, links, aside, adrift, found, faults, catalog>>

\* prune_dest, deepest first.  A directory that holds a protected path is not
\* empty when its turn comes, and ends the command.
Prune(p, x) ==
  /\ At(p, "prune") /\ x \in todo[p]
  /\ \A y \in todo[p] : Parent[y] # x
  /\ IF \E y \in DestPath : Parent[y] = x /\ dest[y] # None
       THEN End(p, "failed") /\ UNCHANGED <<dest, links>>
       ELSE /\ dest' = [dest EXCEPT ![x] = None]
            /\ links' = links \ {x}
            /\ Drop(p, x)
  /\ UNCHANGED <<cache, store, aside, adrift, found, mirrored, faults, catalog>>

Pruned(p) ==
  /\ At(p, "prune") /\ todo[p] = {}
  /\ End(p, "ok")
  /\ UNCHANGED <<cache, store, tree, faults, catalog>>

-----------------------------------------------------------------------------
(* fetch_files_atomic: the destination replaced by two renames.            *)

\* The tree is built in a sibling; a failure leaves the destination alone.
BuildStaging(p) ==
  /\ At(p, "start") /\ Is(p, {"swap"})
  /\ IF snap(p) \in cman /\ \A d \in ObjectsOf(snap(p)) : cobj[d] = d
       THEN Goto(p, "swap")
       ELSE End(p, "failed")
  /\ UNCHANGED <<cache, store, tree, faults, catalog>>

\* A destination that is there is renamed aside.
RenameAside(p) ==
  /\ At(p, "swap")
  /\ IF dest = NoTree
       THEN UNCHANGED <<dest, links, aside>>
       ELSE /\ aside' = [aside EXCEPT ![p] = [files |-> dest, links |-> links]]
            /\ dest' = NoTree /\ links' = {}
  /\ Goto(p, "swapin")
  /\ UNCHANGED <<cache, store, adrift, found, mirrored, faults, catalog>>

NewTree(s) == [x \in DestPath |-> IF x \in DOMAIN Tree[s] THEN Tree[s][x] ELSE None]

\* The tree put aside stays under its temporary name.
LeaveAside(p) ==
  /\ aside' = [aside EXCEPT ![p] = NoSwap]
  /\ adrift' = IF aside[p] = NoSwap THEN adrift ELSE adrift \union {aside[p].files}

\* Mutant: a swap that fails gives up the tree it had put aside.
SwapInNoRollback(p) ==
  /\ At(p, "swapin")
  /\ \/ /\ dest = NoTree
        /\ dest' = NewTree(snap(p))
        /\ mirrored' = mirrored \union {"swap"}
        /\ Goto(p, "dropold")
        /\ UNCHANGED <<aside, faults>>
     \/ /\ aborts < MaxAborts
        /\ aborts' = aborts + 1
        /\ aside' = [aside EXCEPT ![p] = NoSwap]
        /\ End(p, "failed")
        /\ UNCHANGED <<dest, mirrored, rots>>
  /\ UNCHANGED <<cache, store, links, adrift, found, catalog>>

\* The staged tree is renamed in.  When that fails (another swap has filled
\* the place, or an I/O error) the old tree is put back, if it still can be.
SwapIn(p) ==
  /\ At(p, "swapin")
  /\ \/ /\ dest = NoTree
        /\ dest' = NewTree(snap(p))
        /\ mirrored' = mirrored \union {"swap"}
        /\ Goto(p, "dropold")
        /\ UNCHANGED <<links, aside, adrift, faults>>
     \/ /\ dest = NoTree /\ aborts < MaxAborts
        /\ aborts' = aborts + 1
        /\ dest' = aside[p].files /\ links' = aside[p].links
        /\ aside' = [aside EXCEPT ![p] = NoSwap]
        /\ End(p, "failed")
        /\ UNCHANGED <<adrift, mirrored, rots>>
     \/ /\ dest # NoTree
        /\ LeaveAside(p)
        /\ End(p, "failed")
        /\ UNCHANGED <<dest, links, mirrored, faults>>
  /\ UNCHANGED <<cache, store, found, catalog>>

DropOld(p) ==
  /\ At(p, "dropold")
  /\ aside' = [aside EXCEPT ![p] = NoSwap]
  /\ End(p, "ok")
  /\ UNCHANGED <<cache, store, dest, links, adrift, found, mirrored, faults, catalog>>

-----------------------------------------------------------------------------
(* verify, verify-cache and flush-cache.                                   *)

run_verify(p) ==
  /\ At(p, "start") /\ Is(p, {"verify"})
  /\ IF /\ ~cmd(p).purge
        /\ snap(p) \in sman
        /\ \A d \in ObjectsOf(snap(p)) : sobj[side(p)][d] = d
       THEN End(p, "ok")
       ELSE End(p, "failed")
  /\ UNCHANGED <<cache, store, tree, faults, catalog>>

\* The objects that are there are listed, then read and hashed one by one.
run_verify_cache(p) ==
  /\ At(p, "start") /\ Is(p, {"verify_cache"})
  /\ GotoWith(p, "scan", {d \in Data : cobj[d] # None})
  /\ UNCHANGED <<cache, store, tree, faults, catalog>>

\* Only the command line's --purge removes, and not under --dryrun.
purges(c) == c.purge /\ ~c.dryrun /\ ~c.api

Scan(p, d) ==
  /\ At(p, "scan") /\ d \in todo[p] /\ hand[p] = Empty
  /\ IF cobj[d] = d THEN Drop(p, d)
     ELSE IF cobj[d] = None THEN End(p, "failed")
     ELSE /\ flag' = [flag EXCEPT ![p] = TRUE]
          /\ IF purges(cmd(p))
               THEN hand' = [hand EXCEPT ![p] = Named(d)] /\ UNCHANGED todo
               ELSE todo' = [todo EXCEPT ![p] = @ \ {d}] /\ UNCHANGED hand
          /\ UNCHANGED <<queue, pc, status, touched>>
  /\ UNCHANGED <<cache, store, tree, faults, catalog>>

\* What is removed is what is there now.
Purge(p) ==
  /\ At(p, "scan") /\ hand[p] # Empty
  /\ LET d == hand[p].name
     IN  IF cobj[d] = None
           THEN End(p, "failed") /\ UNCHANGED <<cobj, purged>>
           ELSE /\ cobj' = [cobj EXCEPT ![d] = None]
                /\ purged' = purged \union {d}
                /\ Move(p, "scan", todo[p] \ {d}, Empty, {d})
  /\ UNCHANGED <<cman, store, tree, faults, catalog>>

\* What there is to find out about a manifest s: whether it is there, what it
\* names, and whether the object d, which it names, is there.
Listing(s) == [about |-> "list", id |-> s, object |-> None]
Reading(s) == [about |-> "read", id |-> s, object |-> None]
Stating(s, d) == [about |-> "stat", id |-> s, object |-> d]

Outcome(p) == IF flag[p] THEN "failed" ELSE "ok"

\* The command line also looks for objects its manifests name and it lacks: of
\* the snapshot of an --id, or of every manifest the cache lists.
Scanned(p) ==
  /\ At(p, "scan") /\ todo[p] = {}
  /\ IF cmd(p).api THEN End(p, Outcome(p))
     ELSE GotoWith(p, "gaps", IF cmd(p).scoped THEN {Reading(snap(p))}
                                               ELSE {Listing(s) : s \in Snap})
  /\ UNCHANGED <<cache, store, tree, faults, catalog>>

\* list_manifest_ids comes to the directories of its shards one after another.
ListManifest(p, s) ==
  /\ At(p, "gaps") /\ Listing(s) \in todo[p]
  /\ GotoWith(p, "gaps", (todo[p] \ {Listing(s)})
                           \union (IF s \in cman THEN {Reading(s)} ELSE {}))
  /\ UNCHANGED <<cache, store, tree, faults, catalog>>

\* A manifest at a time: one that is not there, or not any more, is an error.
ReadListed(p, s) ==
  /\ At(p, "gaps") /\ Reading(s) \in todo[p]
  /\ \A a \in todo[p] : a.about = "read"
  /\ IF s \notin cman THEN End(p, "failed")
     ELSE GotoWith(p, "gaps", (todo[p] \ {Reading(s)})
                               \union {Stating(s, d) : d \in ObjectsOf(s)})
  /\ UNCHANGED <<cache, store, tree, faults, catalog>>

\* missing_cache_objects, an object at a time.
StatObject(p, s, d) ==
  /\ At(p, "gaps") /\ Stating(s, d) \in todo[p]
  /\ todo' = [todo EXCEPT ![p] = @ \ {Stating(s, d)}]
  /\ flag' = [flag EXCEPT ![p] = @ \/ cobj[d] = None]
  /\ UNCHANGED <<queue, pc, hand, status, touched>>
  /\ UNCHANGED <<cache, store, tree, faults, catalog>>

CacheVerified(p) ==
  /\ At(p, "gaps") /\ todo[p] = {}
  /\ End(p, Outcome(p))
  /\ UNCHANGED <<cache, store, tree, faults, catalog>>

run_flush_cache(p) ==
  /\ At(p, "start") /\ Is(p, {"flush_cache"})
  /\ IF cmd(p).dryrun THEN End(p, "ok") ELSE GotoWith(p, "flush", {".objects", ".manifests", "catalog"})
  /\ UNCHANGED <<cache, store, tree, faults, catalog>>

\* The entries of the cache directory in any order, each emptied before the
\* next: the default catalog is one of them.
FlushEntry(p, e) ==
  /\ At(p, "flush") /\ e \in todo[p] /\ hand[p].name \in {None, e}
  /\ \/ /\ e = ".objects"
        /\ IF \A d \in Data : cobj[d] = None
             THEN Drop(p, e) /\ UNCHANGED <<cobj, purged>>
             ELSE \E d \in {o \in Data : cobj[o] # None} :
                    /\ cobj' = [cobj EXCEPT ![d] = None]
                    /\ purged' = purged \union {d}
                    /\ Move(p, "flush", todo[p], Named(e), {d})
        /\ UNCHANGED <<cman, catalog>>
     \/ /\ e = ".manifests"
        /\ IF cman = {}
             THEN Drop(p, e) /\ UNCHANGED cman
             ELSE \E s \in cman :
                    /\ cman' = cman \ {s}
                    /\ Move(p, "flush", todo[p], Named(e), {s})
        /\ UNCHANGED <<cobj, purged, catalog>>
     \/ /\ e = "catalog"
        /\ unlink
        /\ Drop(p, e)
        /\ UNCHANGED cache
  /\ UNCHANGED <<store, tree, faults>>

Flushed(p) ==
  /\ At(p, "flush") /\ todo[p] = {}
  /\ End(p, "ok")
  /\ UNCHANGED <<cache, store, tree, faults, catalog>>

-----------------------------------------------------------------------------
(* log_event: what a push or a stage adds to the catalog when it is done.  *)

\* An open that finds the file locked fails the command, its work done.
log_event(p) ==
  /\ \/ At(p, "catalog")
     \/ At(p, "start") /\ Is(p, {"rebuild"})
  /\ IF cmd(p).catalog = "none" THEN End(p, "ok") /\ UNCHANGED catalog
     ELSE \/ Locked /\ End(p, "failed") /\ UNCHANGED catalog
          \/ open(p) /\ Goto(p, IF Is(p, {"rebuild"}) THEN "clear" ELSE "log")
  /\ UNCHANGED <<cache, store, tree, faults>>

LogEvent(p) ==
  /\ At(p, "log")
  /\ log(p, cmd(p).cmd, snap(p), cmd(p).at)
  /\ Goto(p, "head")
  /\ UNCHANGED <<cache, store, tree, faults>>

\* save: the head is read, and a snapshot that is already the head ends it.
ReadHead(p) ==
  /\ At(p, "head")
  /\ IF handle[p] = "open" /\ head_id(p, cmd(p).at) = snap(p)
       THEN End(p, "ok") /\ close(p)
       ELSE Move(p, "insert", {}, Named(head_id(p, cmd(p).at)), {}) /\ UNCHANGED catalog
  /\ UNCHANGED <<cache, store, tree, faults>>

Save(p) ==
  /\ At(p, "insert")
  /\ insert_history(p, cmd(p).at, snap(p), hand[p].name, Stamp(p))
  /\ Goto(p, "close")
  /\ UNCHANGED <<cache, store, tree, faults>>

CloseCatalog(p) ==
  /\ At(p, "close")
  /\ close(p)
  /\ End(p, "ok")
  /\ UNCHANGED <<cache, store, tree, faults>>

\* rebuild: the location is cleared, then the store's snapshots are replayed.
ClearLocation(p) ==
  /\ At(p, "clear")
  /\ clear_location(p, cmd(p).at)
  /\ GotoWith(p, "replay", sman)
  /\ UNCHANGED <<cache, store, tree, faults>>

\* Each has the store's own time, and comes after the earlier ones; those of
\* one time come in any order (in the code, by id).  What is the head is left
\* out.  A store's time ahead of the clock is the clock's being set back.
Replay(p, s) ==
  /\ At(p, "replay") /\ s \in todo[p]
  /\ \E t \in {LastStamp(cmd(p).at), LastStamp(cmd(p).at) + 1} :
       IF hand[p].name = s THEN UNCHANGED catalog
                           ELSE insert_history(p, cmd(p).at, s, hand[p].name, t)
  /\ Move(p, "replay", todo[p] \ {s}, Named(s), {})
  /\ UNCHANGED <<cache, store, tree, faults>>

Rebuilt(p) ==
  /\ At(p, "replay") /\ todo[p] = {}
  /\ close(p)
  /\ End(p, "ok")
  /\ UNCHANGED <<cache, store, tree, faults>>

-----------------------------------------------------------------------------
(* What the commands must live with.                                       *)

\* A cached object rots on the disk.
BitRot(d) ==
  /\ rots < MaxRot /\ cobj[d] = d
  /\ rots' = rots + 1
  /\ cobj' = [cobj EXCEPT ![d] = Bad]
  /\ touched' = [q \in Proc |-> IF pc[q] = "start" THEN {} ELSE touched[q] \union {d}]
  /\ UNCHANGED <<cman, purged, store, tree, queue, pc, todo, flag, hand, status, aborts, catalog>>

\* A command is killed, or an I/O error ends it: its scratch trees and
\* temporary files are nobody's, the catalog's lock is free.
Abort(p) ==
  /\ aborts < MaxAborts
  /\ queue[p] # <<>> /\ pc[p] # "start"
  /\ aborts' = aborts + 1
  /\ End(p, "failed")
  /\ close(p)
  /\ LeaveAside(p)
  /\ UNCHANGED <<cache, store, dest, links, found, mirrored, rots>>

Step(p) ==
  \/ CachePush(p) \/ CacheManifest(p) \/ StorePush(p) \/ StoreManifest(p)
  \/ ExternalPush(p) \/ ExternalManifest(p)
  \/ run_stage(p) \/ run_push(p) \/ push_by_id(p) \/ Materialize(p)
  \/ fetch_inner(p) \/ GetManifest(p) \/ HealCache(p) \/ RemoveStale(p)
  \/ ExternalFetched(p) \/ Validate(p)
  \/ checkout_inner(p) \/ Collect(p) \/ CheckAndRename(p) \/ Materialized(p) \/ Pruned(p)
  \/ BuildStaging(p) \/ RenameAside(p) \/ SwapIn(p) \/ DropOld(p)
  \/ run_verify(p) \/ run_verify_cache(p) \/ Purge(p) \/ Scanned(p) \/ CacheVerified(p)
  \/ run_flush_cache(p) \/ Flushed(p)
  \/ log_event(p) \/ LogEvent(p) \/ ReadHead(p) \/ Save(p) \/ CloseCatalog(p)
  \/ ClearLocation(p) \/ Rebuilt(p)
  \/ \E d \in Data : CacheCopy(p, d) \/ StoreCopy(p, d) \/ ExternalSend(p, d)
                       \/ ExternalFetch(p, d) \/ TornGet(p, d) \/ Scan(p, d)
  \/ \E x \in DestPath : CopyFile(p, x) \/ Link(p, x) \/ Prune(p, x)
  \/ \E e \in {".objects", ".manifests", "catalog"} : FlushEntry(p, e)
  \/ \E s \in Snap : Replay(p, s) \/ ListManifest(p, s) \/ ReadListed(p, s)
                       \/ \E d \in Data : StatObject(p, s, d)

Next ==
  \/ \E p \in Proc : Step(p) \/ Abort(p)
  \/ \E d \in Data : BitRot(d)

Spec == Init /\ [][Next]_vars
-----------------------------------------------------------------------------
(* Properties.                                                             *)

Bytes == Data \union {Own, Bad, None}
Logging == {"log", "head", "insert", "close", "clear", "replay"}

\* The variables have their types, a process has a file in hand only in the
\* loops that take one, and it holds the catalog's lock only while it logs, so
\* that no command ends with the file still open (log_event drops its Catalog).
TypeOK ==
  /\ cobj \in [Data -> Data \union {Bad, None}] /\ cman \subseteq Snap /\ purged \subseteq Data
  /\ sobj \in [Side -> [Data -> Data \union {Bad, None}]] /\ sman \subseteq Snap
  /\ dest \in [DestPath -> Bytes] /\ links \subseteq DestPath
  /\ aside \in [Proc -> [files : [DestPath -> Bytes], links : SUBSET DestPath]]
  /\ adrift \subseteq [DestPath -> Bytes]
  /\ status \in [Proc -> {"ok", "failed"}]
  /\ \A p \in Proc :
       /\ hand[p] # Empty => pc[p] \in {"copy", "scan", "flush", "insert", "replay"}
       /\ handle[p] # "closed" => pc[p] \in Logging

\* A manifest in the cache that names an object the cache lacks is the doing of
\* a verify-cache --purge or a flush-cache that removed the object: no stage,
\* fetch, heal or external fetch, whatever it races with and wherever it is
\* killed, files a manifest before its objects (FileStore::push, fetch_inner).
\* And a snapshot the store lists has all its objects on one side of it, and
\* they are intact unless an external script has shipped the cache's bytes
\* (SplitStore::push and the push of a path, of an id, from the library).
\* With the types of the state.
ManifestsBacked ==
  /\ TypeOK
  /\ \A s \in cman : \A d \in ObjectsOf(s) : cobj[d] = None => d \in purged
  /\ \A s \in sman : \E sd \in Side : \A d \in ObjectsOf(s) :
       /\ sobj[sd][d] # None
       /\ sobj[sd][d] = d \/ shimmed

\* The user's own files are in the destination, or in a tree a swap has put
\* aside, until a command that mirrors has come to the point of removing them;
\* --exclude keeps its files from --delete (fetch_files_atomic's rollback and
\* its two renames, prune_dest).
OwnFilesSurvive ==
  \A x \in DestPath :
    found[x] = Own =>
      \/ dest[x] = Own
      \/ \E p \in Proc : aside[p].files[x] = Own
      \/ \E t \in adrift : t[x] = Own
      \/ "swap" \in mirrored
      \/ "prune" \in mirrored /\ x \notin Protected

\* p's command ends here, and reports success.
Succeeds(p, kinds) ==
  /\ queue[p] # <<>> /\ queue'[p] # queue[p]
  /\ status'[p] = "ok"
  /\ Is(p, kinds) /\ ~cmd(p).dryrun

\* No other process writes the destination of a checkout.
Writes(c) == c.cmd = "swap" \/ (c.cmd \in {"checkout", "pull"} /\ ~c.dryrun)
Exclusive(plan) ==
  \A p, q \in Proc : \A i \in DOMAIN plan.run[p], j \in DOMAIN plan.run[q] :
    /\ plan.run[p][i].cmd # "swap" /\ Writes(plan.run[p][i])
    /\ Writes(plan.run[q][j])
    => p = q

\* A checkout or pull that succeeds, in a destination no other process writes,
\* leaves every file of the snapshot with its bytes, and with --delete nothing
\* else but what is protected, or with --linked a link to every object; an
\* object that rotted or was replaced while the command ran is excepted
\* (checkout_inner, fetch_files, persist).
CheckoutExact ==
  [][\A p \in Proc : Succeeds(p, {"checkout", "pull"}) =>
       LET T == Tree[snap(p)]
       IN  /\ \A x \in DOMAIN T :
                IF cmd(p).linked
                  THEN x \in links /\ dest[x] = T[x]
                  ELSE Content(x) = T[x] \/ T[x] \in touched[p]
           /\ cmd(p).delete =>
                \A x \in DestPath \ DOMAIN T : dest[x] = None \/ x \in Protected]_vars

\* A fetch or pull that succeeds leaves the manifest and every object in the
\* cache, holes an earlier purge had left included, unless another command
\* removed objects, or filed or removed that manifest, while it ran
\* (fetch_inner's heal, fetch_sync).  And a verify-cache that succeeds has told
\* the truth: no object is corrupt but what was spoilt while it ran; and from
\* the command line, a manifest that was cached throughout and that no other
\* command filed again lacks no object but what was lost while it ran: the one
\* of its --id, which was there, or without one every manifest (verify_cache,
\* missing_cache_objects_for_verify).  It says nothing of a manifest that is
\* filed while it runs, over a hole that was there before.
CacheClaimsHold ==
  [][\A p \in Proc :
       /\ Succeeds(p, {"fetch", "pull"}) =>
            \/ snap(p) \in touched[p]
            \/ snap(p) \in cman' /\ missing_cache_objects(snap(p)) \subseteq touched[p]
       /\ Succeeds(p, {"verify_cache"}) =>
            /\ \A d \in Data : cobj[d] = Bad => d \in touched[p]
            /\ ~cmd(p).api /\ cmd(p).scoped => snap(p) \in cman \union touched[p]
            /\ ~cmd(p).api => \A s \in cman \ touched[p] :
                  \/ missing_cache_objects(s) \subseteq touched[p]
                  \/ cmd(p).scoped /\ s # snap(p)]_vars

=============================================================================
