-------------------------------- MODULE Walk --------------------------------
(***************************************************************************)
(* The directory walk of snapdir-core: discovery (one thread, depth        *)
(* first), the parallel hash pass, and the bottom-up merkle pass that      *)
(* yields a manifest, while other programs go on editing the tree and the  *)
(* object pool its symbolic links may point into.                          *)
(*                                                                         *)
(* Paths are sequences of names below the root.  A checksum is the record  *)
(* of what was hashed and by which function, so equal checksums mean equal *)
(* bytes; a directory's is the set of its children's.                      *)
(***************************************************************************)
EXTENDS Integers, Sequences, FiniteSets, SequencesExt, FiniteSetsExt

CONSTANTS
  Names,          \* file names
  Blocks,         \* a read takes a block of bytes at a time
  Contents,       \* what a file may hold, a sequence of blocks
  MmapThreshold,  \* lengths from here on are hashed through a mapping
  Scenes,         \* the trees a walk may start from, and the object pools
                  \* (address -> bytes) their links may lead to
  Requests,       \* the walks that may be asked for
  MaxLinks,       \* symbolic links the kernel follows in one lookup (40)
  RefDepth,       \* no lookup of so many names leads anywhere
  MaxEdits        \* edits other programs make during the walk

VARIABLES
  tree,      \* path -> node: what is on disk below the root
  objects,   \* <<root, key>> -> the bytes filed under that address
  opts,      \* the options of this walk
  phase,     \* "idle", "discover", "hash", "done" or "failed"
  stack,     \* the directories being read, innermost last
  dirs,      \* directory records: what discovery and hashing filled in
  pending,   \* files queued for hashing, with the length lstat reported
  stats,     \* file -> length its hasher saw before opening it
  open,      \* file -> what its hasher has opened, and read so far
  manifest,  \* the entries of a finished walk
  error,     \* why a walk failed
  meter,     \* the advisory progress counters
  seen,      \* file -> contents it has held since the walk began
  midread,   \* files rewritten in place under their own hasher
  edits      \* edits made so far

vars == <<tree, objects, opts, phase, stack, dirs, pending, stats, open, manifest,
          error, meter, seen, midread, edits>>
fsVars == <<tree, objects, seen, midread, edits>>

Nil == "nil"
Zero == "zero"  \* a block of zeros

\* f with the value v for k.
With(f, k, v) == [x \in DOMAIN f \cup {k} |-> IF x = k THEN v ELSE f[x]]

-----------------------------------------------------------------------------
(* The file system, as the walk's calls see it. *)

DirNode(perm) == [kind |-> "dir", perm |-> perm]
FileNode(c) == [kind |-> "file", perm |-> "644", bytes |-> c]
LockedFile(c) == [kind |-> "file", perm |-> "000", bytes |-> c]
LinkTo(target) == [kind |-> "link", perm |-> "777", to |-> target]
Special == [kind |-> "special", perm |-> "600"]
Kinds == {"dir", "file", "link", "special"}

(* The walk may neither list nor search a directory of mode 000, nor open  *)
(* a file of that mode.                                                    *)
Shut(node) == node.kind = "dir" /\ node.perm = "000"
Locked(node) == node.kind = "file" /\ node.perm = "000"

(* A tree: whatever is in it is below directories, a file has bytes, and a *)
(* link says where it leads to in the end: by no other link, to no link.   *)
IsTree(t) ==
  /\ DOMAIN t \subseteq Seq(Names) /\ \A p \in DOMAIN t : t[p].kind \in Kinds
  /\ << >> \in DOMAIN t /\ t[<< >>].kind = "dir"
  /\ \A p \in DOMAIN t : \A k \in 0..(Len(p) - 1) :
       SubSeq(p, 1, k) \in DOMAIN t /\ t[SubSeq(p, 1, k)].kind = "dir"
  /\ \A p \in DOMAIN t : t[p].kind = "file" =>
       /\ p # << >> /\ t[p].bytes \in Contents
       /\ t[p] \in {FileNode(t[p].bytes), LockedFile(t[p].bytes)}
  /\ \A p \in DOMAIN t : (t[p].kind = "link" /\ t[p].to.at = "tree") =>
       \A q \in Prefixes(t[p].to.path) \cap DOMAIN t : t[q].kind # "link"

(* A link's target: a path of the tree, or a file of a local store's pool; *)
(* a misshapen address is one whose shards are not 3/3/3/rest of 64 hex.   *)
InTree(p) == [at |-> "tree", path |-> p]
InPool(root, key, shaped) ==
  [at |-> "pool", root |-> root, key |-> key, shaped |-> shaped]

(* How the kernel fares with a link's target: a shut directory on the way  *)
(* denies it, and what is no directory ends it.                            *)
LookUp(t, q) ==
  LET above == (Prefixes(q) \ {q}) \cap DOMAIN t IN
  IF \E d \in above : Shut(t[d]) THEN "Denied"
  ELSE IF \E d \in above : t[d].kind # "dir" THEN "NotDirectory"
  ELSE IF q \in DOMAIN t THEN "ok" ELSE "NotFound"

(* Following a path one name at a time; each link crossed counts. *)
Follow(t, o, st, name) ==
  LET p == Append(st.at, name) IN
  IF st.res # "ok" THEN st
  ELSE IF st.node.kind # "dir" THEN [st EXCEPT !.res = "NotDirectory"]
  ELSE IF Shut(st.node) THEN [st EXCEPT !.res = "Denied"]
  ELSE IF p \notin DOMAIN t THEN [st EXCEPT !.res = "NotFound"]
  ELSE IF t[p].kind # "link" THEN [st EXCEPT !.at = p, !.node = t[p]]
  ELSE IF st.links = MaxLinks THEN [st EXCEPT !.res = "Loop"]
  ELSE LET to == t[p].to IN
       IF to.at = "tree"
       THEN IF LookUp(t, to.path) = "ok"
            THEN [st EXCEPT !.at = to.path, !.node = t[to.path], !.links = @ + 1]
            ELSE [st EXCEPT !.res = LookUp(t, to.path)]
       ELSE IF <<to.root, to.key>> \in DOMAIN o
            THEN [st EXCEPT !.node = FileNode(o[<<to.root, to.key>>]), !.links = @ + 1]
            ELSE [st EXCEPT !.res = "NotFound"]

Start(t) == [at |-> <<>>, node |-> t[<<>>], links |-> 0, res |-> "ok"]

(* metadata(p): follows every link.  symlink_metadata(p): all but the last. *)
StatIn(t, o, p) ==
  LET st[i \in 0..Len(p)] == IF i = 0 THEN Start(t) ELSE Follow(t, o, st[i - 1], p[i])
  IN st[Len(p)]
LstatIn(t, o, p) ==
  IF p = <<>> THEN [res |-> "ok", node |-> t[p]]
  ELSE LET d == StatIn(t, o, Front(p))
           e == Append(d.at, Last(p))
       IN IF d.res # "ok" THEN [res |-> d.res, node |-> Special]
          ELSE IF d.node.kind # "dir" THEN [res |-> "NotDirectory", node |-> Special]
          ELSE IF Shut(d.node) THEN [res |-> "Denied", node |-> Special]
          ELSE IF e \notin DOMAIN t THEN [res |-> "NotFound", node |-> Special]
          ELSE [res |-> "ok", node |-> t[e]]

(* Trees end, and the kernel gives up on a cycle of links: RefDepth is a   *)
(* number of names that leads nowhere in any scene.                        *)
ASSUME WalkAssumptions ==
  /\ \A s \in Scenes : IsTree(s.tree) /\ \A a \in DOMAIN s.pool : s.pool[a] \in Contents
  /\ \A s \in Scenes : \A p \in [1..RefDepth -> Names] :
       StatIn(s.tree, s.pool, p).res # "ok"
  /\ \A r \in Requests : r.root \in {"dir", "relative", "file", "missing"}
  /\ Contents \subseteq Seq(Blocks)
  /\ MmapThreshold \in Nat \ {0} /\ RefDepth \in Nat \ {0}
  /\ MaxLinks \in Nat /\ MaxEdits \in Nat

Stat(p) == StatIn(tree, objects, p)
Lstat(p) == LstatIn(tree, objects, p)

ListingIn(t, p) == {n \in Names : Append(p, n) \in DOMAIN t}

(* The file an open of p gets: its own, or the one its link leads to. *)
Inode(p) ==
  LET own == Lstat(p).node IN
  IF own.kind = "link" THEN own.to ELSE InTree(Stat(p).at)
Unlinked == [at |-> "nowhere"]

(* lstat's length: a link's is that of the target's name. *)
LinkLength == 9
LengthOf(node) == IF node.kind = "file" THEN Len(node.bytes)
                  ELSE IF node.kind = "link" THEN LinkLength ELSE 0

-----------------------------------------------------------------------------
(* Checksums, the manifest's lines and the options. *)

hash_hex(alg, c) == [alg |-> alg, bytes |-> c]
directory_checksum(alg, sums) == [alg |-> alg, sums |-> sums]
Unfilled == [alg |-> Nil]
recovers_object_keys(alg) == alg = "blake3"

(* Each --exclude value is expanded on its own and the results are or-ed;  *)
(* %system% forces no-follow whichever value carries it.                   *)
SystemNames == {"proc"}
CommonNames == {"git"}
expand_excludes(pat) ==
  [matches |-> CASE pat = "%system%" -> SystemNames
                 [] pat = "%common%" -> CommonNames
                 [] OTHER -> {pat},
   forces_no_follow |-> pat = "%system%"]
combine_excludes(pats) ==
  [matches |-> UNION {expand_excludes(p).matches : p \in pats},
   forces_no_follow |-> \E p \in pats : expand_excludes(p).forces_no_follow]

resolve_walk(req) ==
  LET combined == combine_excludes(req.exclude)
      plain_blake3 == req.alg = "blake3"
  IN [root |-> req.root,
      alg |-> req.alg,
      follow |-> ~(req.no_follow \/ combined.forces_no_follow),
      exclude |-> combined.matches,
      object_store_roots |-> IF plain_blake3 THEN req.stores ELSE {},
      verify_linked_objects |-> plain_blake3 /\ req.verify_copies,
      walk_jobs |-> req.walk_jobs]

NoWalk == [root |-> Nil]

(* The API compiles the patterns as they are and hints no store. *)
build_walk_options(req) ==
  [root |-> req.root, alg |-> req.alg, follow |-> ~req.no_follow,
   exclude |-> req.exclude, object_store_roots |-> {},
   verify_linked_objects |-> FALSE, walk_jobs |-> req.walk_jobs]

MAX_WALK_JOBS == 2
resolve_jobs(walk_jobs) == IF walk_jobs > 0 THEN walk_jobs ELSE MAX_WALK_JOBS

(* The key a link's target encodes, when it is an object of a hinted store. *)
recover_object_key(to, roots) ==
  IF to.at = "pool" /\ to.root \in roots /\ to.shaped
  THEN {hash_hex("blake3", to.key)} ELSE {}

KeyIn(keys) == CHOOSE k \in keys : TRUE

recover_keys == opts.object_store_roots # {} /\ recovers_object_keys(opts.alg)
is_excluded(p) == Last(p) \in opts.exclude

Entry(type, perm, sum, size, path) ==
  [type |-> type, perm |-> perm, checksum |-> sum, size |-> size, path |-> path]
Slot(perm, sum, size) == [perm |-> perm, checksum |-> sum, size |-> size]
DirRecord(perm) == [perm |-> perm, child_dirs |-> {}, files |-> << >>]

Meter0 == [discovered |-> 0, done |-> 0, total |-> 0, bytes_in |-> 0]
object_discovered(m) == [m EXCEPT !.discovered = @ + 1]
object_finished(m) == [m EXCEPT !.done = @ + 1]
add_in(m, n) == [m EXCEPT !.bytes_in = @ + n]
set_total(m, n) == [m EXCEPT !.total = n]

-----------------------------------------------------------------------------
FilesOf(t) == {p \in DOMAIN t : t[p].kind = "file"}
SeenIn(t) == [p \in FilesOf(t) |-> {t[p].bytes}]

Init ==
  /\ \E s \in Scenes : tree = s.tree /\ objects = s.pool
  /\ opts = NoWalk /\ phase = "idle" /\ stack = << >> /\ dirs = << >>
  /\ pending = << >> /\ stats = << >> /\ open = << >> /\ manifest = {} /\ error = Nil
  /\ meter = Meter0 /\ seen = SeenIn(tree) /\ midread = {} /\ edits = 0

Fail(e) ==
  /\ phase' = "failed" /\ error' = e
  /\ stack' = << >> /\ stats' = << >> /\ open' = << >>
  /\ UNCHANGED <<opts, dirs, pending, manifest, meter>>

RootError(root) == CASE root = "relative" -> "RootNotAbsolute"
                     [] root = "file" -> "RootNotDirectory"
                     [] root = "missing" -> "Io"

(* walk_inner's checks of the root, then discovery of the root itself. *)
BeginWalk ==
  /\ phase = "idle"
  /\ \E req \in Requests :
       \E o \in {resolve_walk(req), build_walk_options(req)} :
         /\ opts' = o
         /\ IF o.root # "dir"
            THEN /\ phase' = "failed"
                 /\ error' = RootError(o.root)
                 /\ UNCHANGED <<stack, dirs>>
            ELSE /\ phase' = "discover"
                 /\ stack' = <<[dir |-> <<>>, read |-> FALSE, left |-> {}]>>
                 /\ dirs' = [d \in {<<>>} |-> DirRecord(tree[d].perm)]
                 /\ UNCHANGED error
  /\ UNCHANGED <<pending, stats, open, manifest, meter, fsVars>>

Top == stack[Len(stack)]
WithTop(f) == [stack EXCEPT ![Len(stack)] = f]

(* read_dir of the directory on top of the recursion. *)
ReadDir ==
  /\ phase = "discover" /\ stack # << >> /\ ~Top.read
  /\ LET d == Stat(Top.dir) IN
     IF d.res # "ok" \/ d.node.kind # "dir" \/ Shut(d.node)
     THEN Fail("Io")
     ELSE /\ stack' = WithTop([Top EXCEPT !.read = TRUE,
                                         !.left = ListingIn(tree, d.at)])
          /\ UNCHANGED <<opts, phase, dirs, pending, stats, open, manifest, error, meter>>
  /\ UNCHANGED fsVars

Dropped(n) == WithTop([Top EXCEPT !.left = @ \ {n}])

(* Mutant: the loop does not move past an entry it skips. *)
SkipStuck(n) ==
  /\ n \in Top.left /\ stack' = stack
  /\ UNCHANGED <<opts, phase, dirs, pending, stats, open, manifest, error, meter>>

Skip(n) ==
  /\ stack' = Dropped(n)
  /\ UNCHANGED <<opts, phase, dirs, pending, stats, open, manifest, error, meter>>

PutFile(d, n, slot) == dirs' = [dirs EXCEPT ![d].files = With(@, n, slot)]

(* Mutant: the parent does not record the directory among its children. *)
DescendIntoUnlisted(p, own) ==
  /\ dirs' = With(dirs, p, DirRecord(own.perm))
  /\ stack' = Append(Dropped(Last(p)), [dir |-> p, read |-> FALSE, left |-> {}])
  /\ UNCHANGED <<opts, phase, pending, stats, open, manifest, error, meter>>

DescendInto(p, own) ==
  /\ dirs' = With([dirs EXCEPT ![Top.dir].child_dirs = @ \cup {p}], p, DirRecord(own.perm))
  /\ stack' = Append(Dropped(Last(p)), [dir |-> p, read |-> FALSE, left |-> {}])
  /\ UNCHANGED <<opts, phase, pending, stats, open, manifest, error, meter>>

(* A symbolic link into a hinted store: its checksum comes from its address;*)
(* under verify_linked_objects the bytes are hashed and must agree.        *)
RecordLinked(p, own, key, bytes) ==
  IF opts.verify_linked_objects /\ hash_hex(opts.alg, bytes) # key
  THEN Fail("LinkedObjectIntegrity")
  ELSE /\ PutFile(Top.dir, Last(p), Slot(own.perm, key, LengthOf(own)))
       /\ stack' = Dropped(Last(p))
       /\ meter' = object_finished(object_discovered(meter))
       /\ UNCHANGED <<opts, phase, pending, stats, open, manifest, error>>

QueueFile(p, own) ==
  /\ PutFile(Top.dir, Last(p), Slot(own.perm, Unfilled, LengthOf(own)))
  /\ stack' = Dropped(Last(p))
  /\ pending' = With(pending, p, [recorded_size |-> LengthOf(own),
                                  is_symlink |-> own.kind = "link"])
  /\ meter' = object_discovered(meter)
  /\ UNCHANGED <<opts, phase, stats, open, manifest, error>>

(* find -L leaves out a link that leads nowhere or round in a circle. *)
LeftOut(res) == res \in {"NotFound", "Loop"}

Recovered(own) == IF recover_keys /\ own.kind = "link"
                  THEN recover_object_key(own.to, opts.object_store_roots) ELSE {}

(* One turn of the readdir loop: exclude, lstat, follow mode, stat, type. *)
Visit ==
  /\ phase = "discover" /\ stack # << >> /\ Top.read
  /\ \E n \in Top.left :
       LET p == Append(Top.dir, n)
           own == Lstat(p)
           target == Stat(p)
       IN IF is_excluded(p) THEN Skip(n)
          ELSE IF own.res # "ok" THEN Fail("Io")
          ELSE IF own.node.kind = "link" /\ ~opts.follow THEN Skip(n)
          ELSE IF target.res # "ok"
               THEN IF own.node.kind # "link" \/ ~LeftOut(target.res) THEN Fail("Io")
                    ELSE IF target.res = "NotFound" /\ Recovered(own.node) # {}
                         THEN Fail("DanglingLinkedObject")
                         ELSE Skip(n)
          ELSE IF target.node.kind = "dir" THEN DescendInto(p, own.node)
          ELSE IF target.node.kind # "file" THEN Skip(n)
          ELSE IF Recovered(own.node) # {}
               THEN RecordLinked(p, own.node, KeyIn(Recovered(own.node)), target.node.bytes)
          ELSE QueueFile(p, own.node)
  /\ UNCHANGED fsVars

(* discover_dir returns to the directory that called it. *)
LeaveDir ==
  /\ phase = "discover" /\ stack # << >> /\ Top.read /\ Top.left = {}
  /\ stack' = Front(stack)
  /\ IF Len(stack) = 1
     THEN /\ phase' = "hash"
          /\ meter' = set_total(meter, Cardinality(DOMAIN pending))
     ELSE UNCHANGED <<phase, meter>>
  /\ UNCHANGED <<opts, dirs, pending, stats, open, manifest, error, fsVars>>

SlotOf(p) == dirs[Front(p)].files[Last(p)]
Unhashed == {p \in DOMAIN pending : SlotOf(p).checksum = Unfilled}

HashError(res) == IF res = "NotFound" THEN "FileVanishedDuringWalk" ELSE "Io"

(* A worker of the bounded pool takes a file.  The BLAKE3 engine asks for  *)
(* the length before it opens the file.                                    *)
BeginHash ==
  /\ phase = "hash" /\ Cardinality(DOMAIN stats) < resolve_jobs(opts.walk_jobs)
  /\ \E p \in Unhashed \ DOMAIN stats :
       LET f == Stat(p) IN
       IF opts.alg = "blake3" /\ f.res # "ok"
       THEN Fail(HashError(f.res))
       ELSE /\ stats' = With(stats, p, IF opts.alg = "blake3"
                                          THEN Len(f.node.bytes) ELSE 0)
            /\ UNCHANGED <<opts, phase, stack, dirs, pending, open, manifest, error, meter>>
  /\ UNCHANGED fsVars

(* It opens the file to read it to its end, or, when the BLAKE3 engine was *)
(* told of a long one, to map it at the length it has now; the library may *)
(* still choose to read a file that has become short.                      *)
OpenFile ==
  /\ phase = "hash"
  /\ \E p \in DOMAIN stats \ DOMAIN open :
       LET f == Stat(p) IN
       IF f.res # "ok" THEN Fail(HashError(f.res))
       ELSE IF Locked(f.node) THEN Fail("Io")
       ELSE \E m \in {FALSE, opts.alg = "blake3" /\ stats[p] >= MmapThreshold} :
              /\ open' = With(open, p, [inode |-> Inode(p), bytes |-> f.node.bytes,
                                        mapped |-> m, length |-> Len(f.node.bytes),
                                        got |-> << >>])
              /\ UNCHANGED <<opts, phase, stack, dirs, pending, stats, manifest, error, meter>>
  /\ UNCHANGED fsVars

(* Where the hasher of an open file is done: at the end of what it mapped, *)
(* or at the end of the file as it is when the read gets there.            *)
Through(h) == IF h.mapped THEN Len(h.got) = h.length ELSE Len(h.got) >= Len(h.bytes)

Got(p, b) ==
  /\ open' = [open EXCEPT ![p].got = Append(@, b)]
  /\ UNCHANGED <<opts, phase, stack, dirs, pending, stats, manifest, error, meter>>

(* The bytes are taken a block at a time.  Beyond the end of a mapped file *)
(* that has shrunk there are zeros, to the end of the page, and then a     *)
(* fault, which the SIGBUS guard turns into an error.                      *)
ReadBlock ==
  /\ phase = "hash"
  /\ \E p \in DOMAIN open :
       LET h == open[p]
           next == Len(h.got) + 1
       IN /\ ~Through(h)
          /\ \/ next <= Len(h.bytes) /\ Got(p, h.bytes[next])
             \/ next > Len(h.bytes) /\ (Got(p, Zero) \/ Fail("FileChangedDuringWalk"))
  /\ UNCHANGED fsVars

(* What the hasher reports as the length hashed: the keyed, MD5 and SHA-256 *)
(* engines count the bytes they read, the BLAKE3 engine returns the length  *)
(* it asked for first.                                                      *)
hashed_bytes(p, c) == IF opts.alg = "blake3" THEN stats[p] ELSE Len(c)

WriteBack(p, c) ==
  /\ dirs' = [dirs EXCEPT ![Front(p)].files[Last(p)].checksum = hash_hex(opts.alg, c)]
  /\ stats' = [q \in DOMAIN stats \ {p} |-> stats[q]]
  /\ open' = [q \in DOMAIN open \ {p} |-> open[q]]
  /\ meter' = object_finished(add_in(meter, hashed_bytes(p, c)))
  /\ UNCHANGED <<opts, phase, stack, pending, manifest, error>>

(* Mutant: without the guard against a length that drifted. *)
HashDoneUnguarded(p, c) == WriteBack(p, c)

HashDone(p, c) ==
  IF ~pending[p].is_symlink /\ hashed_bytes(p, c) # pending[p].recorded_size
  THEN Fail("FileChangedDuringWalk")
  ELSE WriteBack(p, c)

FinishHash ==
  /\ phase = "hash"
  /\ \E p \in DOMAIN open : Through(open[p]) /\ HashDone(p, open[p].got)
  /\ UNCHANGED fsVars

-----------------------------------------------------------------------------
(* The bottom-up pass over the records: children sort after their parents, *)
(* so the reverse key order finalises them first; a recursion from the     *)
(* parent to its children stands for it.                                   *)
Finalized[p \in DOMAIN dirs] ==
  LET fs == dirs[p].files
      below == dirs[p].child_dirs
  IN [checksum |-> directory_checksum(opts.alg,
           {fs[n].checksum : n \in DOMAIN fs} \cup {Finalized[q].checksum : q \in below}),
      size |-> SumFunction([n \in DOMAIN fs |-> fs[n].size]) +
               SumFunction([q \in below |-> Finalized[q].size])]

(* Entries keep their path below the root; the rewriting to "./" and the   *)
(* trailing slash of a directory only rename them.                         *)
EntriesOf ==
  {Entry("D", dirs[p].perm, Finalized[p].checksum, Finalized[p].size, p) : p \in DOMAIN dirs}
  \cup UNION {{Entry("F", dirs[p].files[n].perm, dirs[p].files[n].checksum,
                     dirs[p].files[n].size, Append(p, n)) : n \in DOMAIN dirs[p].files}
              : p \in DOMAIN dirs}

Finalize ==
  /\ phase = "hash" /\ Unhashed = {}
  /\ manifest' = EntriesOf /\ phase' = "done"
  /\ UNCHANGED <<opts, stack, dirs, pending, stats, open, error, meter, fsVars>>

-----------------------------------------------------------------------------
(* Other programs: they rewrite, replace and remove files of the tree and  *)
(* of the pool while the walk is under way.  A hasher keeps the file it has*)
(* opened: it sees what is written into it, and nothing of one that takes  *)
(* its place.                                                              *)
Walking == phase \in {"discover", "hash"}
walkVars == <<opts, phase, stack, dirs, pending, stats, manifest, error, meter>>

Readers(inode) == {q \in DOMAIN open : open[q].inode = inode}
InPlace(readers, c) ==
  open' = [q \in DOMAIN open |-> IF q \in readers THEN [open[q] EXCEPT !.bytes = c] ELSE open[q]]
Aside(readers) ==
  open' = [q \in DOMAIN open |->
             IF q \in readers THEN [open[q] EXCEPT !.inode = Unlinked] ELSE open[q]]

EditFile ==
  /\ Walking /\ edits < MaxEdits /\ edits' = edits + 1
  /\ \E p \in FilesOf(tree), c \in Contents :
       /\ tree[p].bytes # c
       /\ tree' = [tree EXCEPT ![p].bytes = c]
       /\ seen' = [seen EXCEPT ![p] = @ \cup {c}]
       /\ \/ InPlace(Readers(InTree(p)), c) /\ midread' = midread \cup Readers(InTree(p))
          \/ Aside(Readers(InTree(p))) /\ midread' = midread
  /\ UNCHANGED <<objects, walkVars>>

RemoveFile ==
  /\ Walking /\ edits < MaxEdits /\ edits' = edits + 1
  /\ \E p \in FilesOf(tree) :
       tree' = [q \in DOMAIN tree \ {p} |-> tree[q]] /\ Aside(Readers(InTree(p)))
  /\ UNCHANGED <<objects, seen, midread, walkVars>>

PoolReaders(a) == {q \in DOMAIN open : /\ open[q].inode.at = "pool"
                                       /\ <<open[q].inode.root, open[q].inode.key>> = a}
DamageObject ==
  /\ Walking /\ edits < MaxEdits /\ edits' = edits + 1
  /\ \E a \in DOMAIN objects :
       \/ /\ objects' = [b \in DOMAIN objects \ {a} |-> objects[b]]
          /\ Aside(PoolReaders(a))
       \/ \E c \in Contents \ {objects[a]} :
            objects' = [objects EXCEPT ![a] = c] /\ InPlace(PoolReaders(a), c)
  /\ UNCHANGED <<tree, seen, midread, walkVars>>

Rest == phase \in {"done", "failed"} /\ UNCHANGED vars

Walker == BeginWalk \/ ReadDir \/ Visit \/ LeaveDir \/ BeginHash \/ OpenFile \/ ReadBlock
          \/ FinishHash \/ Finalize
Next == Walker \/ EditFile \/ RemoveFile \/ DamageObject \/ Rest
Spec == Init /\ [][Next]_vars /\ WF_vars(Walker)

-----------------------------------------------------------------------------
(* Types of the walker's state. *)
TypeOK ==
  /\ phase \in {"idle", "discover", "hash", "done", "failed"}
  /\ DOMAIN open \subseteq DOMAIN stats /\ DOMAIN stats \subseteq DOMAIN pending
  /\ \A p \in DOMAIN pending :
       Front(p) \in DOMAIN dirs /\ Last(p) \in DOMAIN dirs[Front(p)].files
  /\ edits \in 0..MaxEdits
  /\ (phase = "failed") = (error # Nil)

(* What one sequential reading of an unchanging tree must list: the        *)
(* reference the concurrent walk is compared with.  A path counts when it  *)
(* and its parents are neither excluded nor unfollowed links.              *)
RefPaths == UNION {[1..k -> Names] : k \in 0..RefDepth}

RefKind(p) ==
  LET own == Lstat(p)  all == Stat(p) IN
  IF p = <<>> THEN "dir"
  ELSE IF is_excluded(p) \/ own.res # "ok" \/ (own.node.kind = "link" /\ ~opts.follow)
       THEN "none"
  ELSE IF all.res = "ok" THEN all.node.kind ELSE "broken"

RefFound == {p \in RefPaths : \A k \in 0..(Len(p) - 1) : RefKind(SubSeq(p, 1, k)) = "dir"}
RefDirs == {p \in RefFound : RefKind(p) = "dir"}
RefListed == {p \in RefFound : RefKind(p) \in {"dir", "file"}}
RefBelow(p, kind) == {n \in Names : RefKind(Append(p, n)) = kind}

RefFileSum(p) ==
  LET own == Lstat(p).node IN
  IF Recovered(own) # {} THEN KeyIn(Recovered(own))
  ELSE hash_hex(opts.alg, Stat(p).node.bytes)
RefFileSize(p) == LengthOf(Lstat(p).node)

RefMerkle[p \in RefDirs] ==
  LET files == RefBelow(p, "file")
      below == {Append(p, n) : n \in RefBelow(p, "dir")}
  IN [checksum |-> directory_checksum(opts.alg,
           {RefFileSum(Append(p, n)) : n \in files} \cup {RefMerkle[q].checksum : q \in below}),
      size |-> SumFunction([n \in files |-> RefFileSize(Append(p, n))]) +
               SumFunction([q \in below |-> RefMerkle[q].size])]

RefEntry(p) ==
  LET perm == Lstat(p).node.perm IN
  IF RefKind(p) = "file"
  THEN Entry("F", perm, RefFileSum(p), RefFileSize(p), p)
  ELSE Entry("D", perm, RefMerkle[p].checksum, RefMerkle[p].size, p)

(* What the walk must refuse: a directory it cannot list; a link its lookup*)
(* fails on, unless it leads nowhere or in a circle; a file it cannot open;*)
(* and a link into a hinted store whose object is gone, or, when copies are*)
(* verified, is not the bytes of its address.                              *)
RefRefused(p) ==
  LET own == Lstat(p).node  all == Stat(p) IN
  \/ RefKind(p) = "dir" /\ Shut(all.node)
  \/ RefKind(p) = "broken" /\ ~LeftOut(all.res)
  \/ RefKind(p) = "broken" /\ all.res = "NotFound" /\ Recovered(own) # {}
  \/ RefKind(p) = "file" /\ Recovered(own) = {} /\ Locked(all.node)
  \/ /\ RefKind(p) = "file" /\ Recovered(own) # {} /\ opts.verify_linked_objects
     /\ hash_hex(opts.alg, all.node.bytes) # RefFileSum(p)

RefRefuses == opts.root # "dir" \/ \E p \in RefFound : RefRefused(p)

(* On a tree nobody edits the walk, in whatever order directories list and *)
(* workers finish, yields exactly the reference manifest, also through     *)
(* links that form a cycle; it fails only when it must refuse the root, a  *)
(* directory or file it may not read, a link whose lookup fails otherwise  *)
(* than by leading nowhere, or a linked object it must not trust           *)
(* (walk_inner, discover_dir, hash_pending).                               *)
(* With the types of the state: every pending hash keeps its slot.         *)
QuiescentExact ==
  /\ TypeOK
  /\ (phase = "done" /\ edits = 0) =>
       ~RefRefuses /\ manifest = {RefEntry(p) : p \in RefListed}
  /\ (phase = "failed" /\ edits = 0) => RefRefuses

(* A block the file held, in its place, at some moment of the walk. *)
HeldAt(p, i, b) == \E c \in seen[p] : i \in DOMAIN c /\ c[i] = b

(* Under edits, every checksum a finished walk reports for a plain file is *)
(* that of bytes the file held at some moment of the walk, never the bytes *)
(* of another file or a slot nobody filled.  Only a file rewritten in place*)
(* while its own hasher had it open can be recorded with a mixture, and    *)
(* then every block is one the file held in that place, or, of a mapped    *)
(* file that was cut, zeros.  With the engines that count what they read   *)
(* (keyed BLAKE3, MD5, SHA-256) the recorded size is the length of the very*)
(* bytes hashed, even when the file is rewritten between discovery and     *)
(* hashing (hash_pending, hash_file).                                      *)
EntriesWitnessed ==
  phase = "done" =>
    \A e \in manifest : (e.type = "F" /\ e.path \in DOMAIN seen) =>
      LET c == e.checksum.bytes
          torn == e.path \in midread
      IN /\ torn \/ c \in seen[e.path]
         /\ \A i \in DOMAIN c : HeldAt(e.path, i, c[i]) \/
                                (torn /\ opts.alg = "blake3" /\ c[i] = Zero)
         /\ opts.alg # "blake3" => e.size = Len(c)

(* Every walk that begins ends, with a manifest or an error, whatever the  *)
(* links and the edits: cycles of links are cut by the kernel's limit.     *)
WalkEnds == (phase = "discover") ~> (phase \in {"done", "failed"})

=============================================================================
