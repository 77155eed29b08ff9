# snapdir in TLA+

snapdir takes content-addressed snapshots of directories: every file becomes an
*object* filed under the BLAKE3 hash of its bytes, and a *manifest* lists the
files of a tree with their checksums and is filed under its own hash, the
snapshot id. Snapshots are pushed to, fetched from and synced between *stores*
(a directory, an ssh or sftp host, S3, GCS, B2). There is no server and no lock:
any number of processes write one store at a time, and what keeps it sound is a
discipline that every adapter follows on its own.

> An object appears at its address whole or not at all, and a manifest appears
> only after every object it names. So a manifest that is present is
> restorable, and whoever finds it present may skip the work.

The project states that discipline once (`ContentStore`) and shows for each
write path which part of it holds, under which failures and races; what the read
side, the cache and the commands make of it; and where the code and its own
comments disagree.

## 1. Inventory

| component (source) | state | operations | what makes it correct |
|---|---|---|---|
| store contract (`snapdir-core/store.rs`, `snapdir-stores/stream.rs`) | objects, manifests | put_object, put_manifest, push, delete_manifest | objects whole, manifest last, objects never removed |
| walk (`walk.rs`, `hash_file.rs`, `excludes.rs`, `recover.rs`) | directory records, pending hashes, guards | discover_dir, hash_pending, merkle pass | the manifest of the tree, whatever the order; a checksum of bytes that were there, but for a rewrite under the hasher |
| file store (`file_store.rs`) | `.objects`, `.manifests`, temporary siblings | push, persist, clone/copy, write_manifest, fetch_files, delete_manifest | nothing partial or foreign at an address; bounded retries |
| pack receiver (`pack.rs`, `fsync.rs`) | staged file, `written` list | objects_needed, read_pack, FileSink | verified before filed, manifest at `end`, durable objects before a durable manifest |
| ssh push and fetch scripts (`ssh_engine.rs`) | remote store, local lists | probe, dispatch, accelerated path, plain path | either path keeps the contract; a failure of any part fails the push |
| sftp push and fetch scripts (`sftp_engine.rs`) | remote store, batches | `-ls` probe, put / -rm / rename / chmod, manifest batch | as ssh, with requests that are not atomic together |
| sync and mirror (`sync.rs`) | counters, the two id listings | sync_snapshot, sync_snapshot_mirror | prune what the source lacks, never what it has |
| split store (`split.rs`) | two stores | routing, push | a manifest's objects are all on one side |
| transfer loops (`push.rs`, `fetch.rs`, `transfer.rs`), object stores (`s3_store.rs`, `gcs_store.rs`, `b2_store.rs`) | uploads in flight | concurrent upload and download | manifest last; first error wins |
| adaptive gate and controller (`adaptive.rs`) | limit, permits, debt, phase | acquire, drop, set_limit, tick | no permit made or lost, no lost wakeup |
| rate limiter (`transfer.rs`) | tokens, rate, last_refill | acquire, set_rate | never above the budget; every request served |
| retry policy (`retry.rs`) | attempt, delay | classify, backoff | bounded, only what may be retried |
| cache (`cache.rs`, `cli.rs`) | a local store | stage, fetch, heal, verify-cache, flush-cache | holes only where a purge made them; corrupt objects found |
| catalog (`snapdir-catalog`) | event log, history, heads | open, log, save, rebuild; locations, revisions, ancestors | one chain per location; the queries agree |
| commands (`cli.rs`, `snapdir-api`) | cache, store, destination | stage, push, fetch, pull, checkout, verify, flush, sync, diff | what the success of each means, beside the others |
| C ABI (`snapdir-ffi`) | runtime, error slots, strings | some twenty entry points | errors explained, nothing lost, calls return |
| manifest, merkle, mirror set, diff | none | pure functions | directory checksums are order-free; diff says what changed |
| router, external-store shim | none | dispatch, run a script | what the script does to the cache and the store |
| progress display | counters | draw | presentation |

How they interact: `push` and `stage` call walk, then a store's push. `sync`
calls StreamStore operations of two stores, from rayon threads that pass an
AdaptiveGate and a BlockingRateLimiter, both retuned by a ticker thread. The ssh
push script runs `snapdir send-pack` locally against `snapdir receive-pack` on
the remote, which files into a file store through FileSink. All writers of one
store directory share nothing but the directory.

What is hard: interleaving of processes that never synchronise; a crash or a
power failure between any two steps; values that are stale when used (the probe
of a manifest, the list of missing objects, the guard of a source file, the
mirror's two listings); one of several parallel copies failing; the drop of a
permit racing a shrink; time that must not be credited twice. `PROJECT.json`
lists each of these under "hazards", at its line.

## 2. Modules

| module | models | composes with |
|---|---|---|
| `ContentStore` | the store contract, abstractly: AddObject, CommitManifest, DeleteManifest | refined by the write paths below |
| `FileStore` | walk, then FileStore::push with persist and write_manifest, for several processes on one file system | implements `ContentStore` |
| `ReceivePack` | objects-needed, the streamed records, FileSink, the barrier and the manifest, on a disk that loses power | implements `ContentStore` until the first power failure |
| `Scripts` | what the push scripts share: the snapshots they push and the one remote | part of `SshPush` and `SftpPush` |
| `SshPush` | the emitted ssh push script, both paths and the fallback | implements `ContentStore` until a remote move fails |
| `SshFetch` | the emitted ssh fetch script, beside push scripts on one remote | extends `SshPush` |
| `SftpPush` | the emitted sftp push script, one request a step | measured against the contract's conclusion |
| `ObjectStore` | the upload and download loops, the S3, GCS and B2 adapters and the retry policy | implements `ContentStore` |
| `Sync` | sync_snapshot and sync_snapshot_mirror | implements `ContentStore` at the destination |
| `Walk` | discovery, hashing and the merkle pass of a tree that is being edited | the manifests of all the others |
| `Diff` | `snapdir diff`, as operators on manifests | extends `Walk` |
| `Catalog` | the redb catalog, a transaction a step | part of `Commands` |
| `Commands` | the commands over one cache, store, destination and catalog | extends `Catalog` |
| `AdaptiveGate` | both permit pools and set_limit, one atomic access a step | |
| `RateLimiter` | both token buckets, in discrete time | |
| `Controller` | the adaptive controller and its driver | stands above the gate and the limiter |
| `Ffi` | the C ABI's entry points, for host threads | |
| `FileStoreProofs`, `ReceivePackProofs`, `ObjectStoreProofs`, `SyncProofs`, `CommandsProofs` | the theorems (section 5) | extend their component |
| `LibraryProofs` | the theorems about the walk, diff and the C ABI, each with an invariant of its own | extends `Diff` and `Ffi` |
| `ScriptProofs` | the theorems about the ssh and the sftp scripts, each with an invariant of its own | extends `SshFetch` and `SftpPush` |
| `FlowControlProofs` | the theorems about the gate, the limiter and the controller, each a model with a state of its own | extends `AdaptiveGate`, `RateLimiter` and `Controller` |
| `MC...` | constants, symmetry sets, plans and scenes for TLC | extend their component |

`PROJECT.json` "map" gives the source lines of every definition. A definition
whose comment starts with "Mutant", and one without a comment directly before
the definition it resembles, is a plausible bug of that definition; no
specification uses it.

### Abstractions common to all modules

* Checksums are collision free. An object *is* its address and a manifest is
  the function from its file entries to addresses, hence its own id. Permissions,
  sizes and directory entries are in `Walk` and `Diff` only, and the text format
  nowhere: no other property depends on them.
* A file system entry is looked up at each use. `FileStore` keeps inodes apart
  from names, so that writing through an open file, truncating an existing one,
  and renaming whatever a name stands for *now* are different things.
* The progress display, messages and statistics are left out.

### FileStore

Init has the source tree in any state and the store empty. `Discover` is
discover_dir (and takes the CopyGuards), `HashFile` one file of hash_pending,
`StartPush` the skip-if-present test, `CollectJob` one turn of the collecting
loop, then per job: `OpenTemp` or `CloneTemp` (temp_sibling and the open of
copy_file or of the clone), `WriteTemp`, `DecideClone` (clone_skip_decision),
`VerifyTemp`, `RetryOrFail`, `RenameTemp`; `FailPush` is the first error's way
out. The manifest goes through the same slot machinery without the re-read, as
write_manifest does. `EditSource` (the user), `DeleteManifest` (a mirror) and
`Crash` happen at any time. A file read while it is edited may give any
checksum; a byte copy may be torn. An edit always changes the stat version: this
is CopyGuard's own premise (size, mtime, ctime and inode).

### ReceivePack

The directory tree is a journal of renames of which a power failure keeps a
prefix no shorter than `stable`, as on the journaling file systems that fsync.rs
names; file data that was not synced may survive with wrong bytes. A barrier
(sync_file_range or fsync, by platform) is a full sync of the file. `Abort` is
any early end of a session, a record that does not verify included; its retry is
another session. Whether a receiver runs with SNAPDIR_FSYNC=batch or off is
chosen per session (`batch`).

### SshPush, SshFetch and SftpPush

The scripts are modelled as emitted, command by command. Under `set -e` with
pipefail any failing command of the local script ends it: `Stop`. In the ssh
push script's remote loop the status is that of the last turn, which is what
`status` holds. The fetch script is emitted (`Emit`: the manifest is read and
the objects the cache lacks are listed) before it runs; `DispatchFetch` chooses
the accelerated path (`StreamRecord`, `StreamDone`) or the plain one
(`Preflight`, `RemoteTar`, `MoveIn`), `Epilogue` is the last presence check.
Other local commands may purge the cache (`Evict`), and objects on the remote
may rot (`Rot`). In the sftp script an object is put, removed, renamed and
chmodded by four requests; `chunk` says which parallel batch has it. `ListObjects`
allows any spread of the objects over the batches; the script's round robin is
one of them.

### ObjectStore

A job is one push, fetch_files or list_manifest_ids; its tasks are the file
entries, and one more (Root) for the manifest. Each network call is a step of
retry_network: it succeeds, fails for good, or fails and is counted. A PUT that
is given up, by a timeout, a cancelled window or a kill, goes to `late` and may
land at any later time. The bucket itself is strongly consistent, as S3 and GCS
are. A download may arrive damaged; fetch_verified tries again. A task has a place
in the window of `concurrency` tasks from its start to its end, and keeps it while
it waits for the byte limiter (`acquire`: a push after the verification of the
bytes, a fetch before the download). `Fits` are the objects that one second's
budget covers at every rate the limiter may have: those are granted after a time.
What is larger is granted only if a retune to a higher rate comes at the right
time (`GrantLarge`, which no fairness promises), and otherwise never. The request
limiter asks for one token, which every budget covers: it delays an attempt and
does nothing else. `standing` is a history variable: the manifests that were in the
bucket when a listing was called.

### Sync

`source` is the source's set of manifests, changed by others (`ChangeSource`);
its objects are always there, since no store removes any. `Begin` is the fast
path, `ReadManifest`, `StartObject`, `CopyObject`, `CopyFails`, `FinishCopy` and
`FailCopy` the copy, `ListSource`, `ListDest` and `DeleteOne` the prune. The
order of deletions is left open (the code sorts them). The adaptive pass
(sync_objects_adaptive) does the same with other scheduling, so it is the same
here; what it passes through are `AdaptiveGate` and `RateLimiter`.

### Walk and Diff

A tree is a function from paths to nodes (directory, file, link, special); the
kernel's lookup follows links up to MaxLinks, and tells apart why it fails: nothing
is there, the links go round in a circle, something on the way is no directory, or
a directory on the way may not be searched. Only the first two make discover_dir
leave a link out; the others end the walk. `ReadDir` takes a directory's
listing, `Visit` does one entry of discover_dir's loop (skip, descend, record a
linked object, queue a file), `LeaveDir` ends a directory; then the hash workers
take pending files in any order. `BeginHash` asks for the length, `OpenFile` opens
or maps the file, `ReadBlock` takes a block, `FinishHash` compares the lengths and
fills the slot; `Finalize` is the bottom-up merkle pass. A file that is replaced or
removed leaves its reader the old inode; one that is rewritten in place, or cut,
shows the reader the new blocks from then on (`InPlace`). A mapping that was cut
shows zeros up to the end of its page and then faults, which the SIGBUS guard makes
FileChangedDuringWalk. The options come from the
command line (resolve_walk) or the library (build_walk_options), with the
exclude patterns as the sets of names that they match. Edits of files, removals
and damaged objects of the linked pools happen at any time.

`Diff` has no state: its operators are run_diff with resolve_side, union_side
and classify, evaluated on the walk's manifest and the tree as it is now.

### Commands and Catalog

A process works through a list of commands; a step is one access to what the
processes share (the cache, the store, the destination, the catalog), and what a
command does to a scratch directory of its own is part of the step that uses it.
The store's own protocol is the subject of the modules above: here a push is a
probe, the objects one by one, and the manifest. The command line's verify-cache
scans (and purges) the objects one by one (`Scan`, `Purge`) and then searches for
gaps: `ListManifest` reads one entry of the manifests' directory, `ReadListed` one
listed manifest, which may have gone since and is then an error, and `StatObject`
looks for one of its objects; under --id (`scoped`) it is the one manifest that is
read. `Abort` kills a command or
makes it fail anywhere, `BitRot` spoils a cached object. An external store is
its emitted script: `ExternalSend`, `ExternalFetch`, and `TornGet` for the sftp
script, which tolerates a `get` that broke off. A fetch (`fetch_inner`) has its
heal, a checkout its copy, verify and rename, its links, its atomic swap
(`RenameAside`, `SwapIn`) and its prune (prune_set). `aside` is the tree, and
its links, that a swap of a process has put aside. When its second rename fails
it goes back if the place is still empty, and stays under its temporary name
(`adrift`) when another swap has filled it, or when the process is killed. The
library's calls are the same commands with `api`, where they differ; a library
command takes no notice of the options for links, mirroring and dry runs, and
its pull through an external store is left out (`Command`). `Writes` and
`Exclusive` say which commands write the destination, and that a plan has a
checkout's written by one process.

In `Catalog` every transaction is a step and is durable at its end. The wall
clock may stand still, so that stamps are equal, and be set back once. The file
is locked while it is open; flush-cache unlinks it under whoever has it open,
whose writes, a rebuild's clear among them, are then lost (`orphan`). A rebuild
replays the snapshots under the store's own times, each of which is that of the one
before it or later; the code breaks ties by id, and here those of one time come in
any order, that one among them. A snapshot that is the head already is left out.

Some properties except what is in `touched`, the history of what others spoilt,
lost or filed while the command ran. What stands behind the exceptions: a clone
whose cached source is hashed instead of the clone (file_store.rs, the
TrustedObject branch); a fetch that trusts the manifest a stage files over an
object that was purged; two healers that race to remove one manifest, of which
the slower fails. `CacheClaimsHold` says nothing of a manifest that another command
files while verify-cache runs, over an object that was missing before: verify-cache
lists the manifests once and may not see it.

### AdaptiveGate, RateLimiter and Controller

`AdaptiveGate` has one step per atomic access, semaphore call and critical
section, except take_debt, whose load and successful compare-exchange see one
value and are therefore one step; a compare_exchange_weak that fails spuriously
repeats with the same value, which is a stutter. `RateLimiter` has one step per
critical section of the bucket's mutex, and a clock; the two limiters are line
for line the same, so a worker is either. A sleeper may be late, never early.
Both are retuned by any sequence of calls.

`Controller` is what makes those calls: `Begin` turns options into a policy and a
first limit, `Operate` is a completed (or failed) operation, `DriverTick` one tick of
the control law with slow start, AIMD, congestion and CPU back-off, the probe and
its revert, and the memory and ceiling caps, and `ApplyRate` one of the tasks
that set the limiter's rate. Rates and latencies are small integers; an EWMA is
rounded towards its sample. A failed operation ends the transfer (first error
wins), so that a congestion back-off after one governs only what drains.

### Ffi

The entry points are lists of what each does with its parameters, in its order
(a required string, an optional one, an id, a store URI, an array, the runtime).
A C string is NULL, not UTF-8, malformed, or fine, chosen when it is read. What
the library does below is any outcome, a panic included. The host follows the
contract: it looks at the error slot, frees what it finds, and uses one slot for
all calls of a thread (`HostReads`).

## 3. Runs

`tlc -workers 2 -config X.cfg M`; every run finishes within three minutes.

| run | instance | states | checks |
|---|---|---|---|
| `file_store` | 2 processes, 1 file, 2 contents, 2 attempts, 1 edit | 440k | `ObjectsIntact`, `ManifestsComplete`, `ImplementsContentStore`, and under fairness `PushEnds` |
| `receive_pack` | 2 sessions, 2 files, 2 contents, 2 power failures | 103k (symmetry) | `PackSurvives`, `SuccessIsDurable`, `ImplementsContentStore` until power fails |
| `ssh_scripts` | 2 push scripts, 1 fetch script, 2 files, 2 contents, 2 failing moves, 1 eviction | 2.9M (symmetry) | `GapsExplained`, `FetchExplained`, `ImplementsContentStore` until a move fails |
| `sftp_push` | 2 scripts, 2 batches, 2 files, no posix-rename | 1.03M | `GapIsARename`, and under fairness `GapsClose` |
| `sync` | 2 jobs, 2 files, 2 contents, 1 change of the source | 3.4M (symmetry) | `SuccessIsRestorable`, `PruneExact`, `ImplementsContentStore` |
| `object_store` | 2 jobs (6 mixes), 2 files, 2 contents, 2 attempts of 2 fetches, window of 1 or 2, objects within the byte limiter's burst or not, up to 4 faults | 790k | `RequestsBounded`, `ResultsExact`, `ImplementsContentStore`, and under fairness `JobsEnd` |
| `walk` | 9 trees, 3 pools, 8 requests, contents of 1 or 2 blocks, 1 edit | 133k | `QuiescentExact`, `EntriesWitnessed`, `DiffExact`, and under fairness `WalkEnds` |
| `commands` | 2 processes, 15 plans, 2 snapshots that share an object, 1 rotten object, 1 kill | 1.92M | `ManifestsBacked`, `OwnFilesSurvive`, `HistoryIsAChain`, `CheckoutExact`, `CacheClaimsHold` |
| `adaptive_gate` | 3 tasks, 3 threads, ceiling 3, 3 retunes | 1.05M | `PermitsConserved`, `BlockingExact`, `NoLostWakeup`, and under fairness `AllServed` |
| `rate_limiter` | 2 workers, 3 requests each, rates 1 to 3 and unlimited, any retunes | 163k | `BudgetRespected`, and under fairness `BudgetServed` |
| `controller` | 3 command lines, ceiling up to 3, 2 waiting retunes | 527k | `BudgetsHold`, `CooldownHolds`, and under fairness `Recovers` |
| `ffi` | 1 thread with every entry point, or 2 that race for the runtime | 47k | `ErrorsExplained`, `LeaksBounded`, and under fairness `CallsReturn` |

The types of the state are a conjunct of one invariant of each run; those of
FileStore and AdaptiveGate are proved instead (section 5). `MCCommands` also has
TLC check that its plans are `Exclusive`, as the theorem about `CheckoutExact`
supposes.

What they show:

* **file_store.** Whatever is at an object address hashes to it, and the manifest
  is last, through racing pushes of one tree, edits between discovery, hashing,
  clone and the fresh stat, torn copies, failing writes and crashes; persist's
  retries end, and so does every push.
* **receive_pack.** A damaged or truncated stream files verified objects at most.
  What survives a power failure under a durable receiver's manifest is whole as
  far as that receiver wrote it itself, and a reported success is not taken back.
* **ssh_scripts.** No stale list of missing objects, no fallback after a failed
  objects-needed and no interruption leads to an incomplete manifest. Only a
  move that fails before a later one succeeds does, and only that (or a purge
  under the epilogue) makes a fetch report a missing object. A fetch that
  succeeds has filled the cache but for what was purged meanwhile; rotten bytes
  get in by the plain path only.
* **sftp_push.** The only gap in a filed snapshot is an object that some script has
  removed and not yet renamed. Without kills or failing requests all scripts end
  and all gaps close, although scripts rename and chmod each other's files.
* **object_store.** Neither a source edited since the walk nor a request that lands
  after its push has failed or been killed makes the bucket anything but a
  content store. A fetch that succeeds is the snapshot, one that fails leaves
  whole files only; the nested retry budgets multiply and no more. A listing has
  every manifest that was in the bucket when it was called, through pages, retries
  and pushes beside it, and none that is not there. Every job ends, except one whose
  tasks in the window all wait for objects larger than the limiter's burst (section
  4, no. 4): also with a window of one, where each task waits for the one before it.
* **sync.** A destination is written as a content store is. A mirror prunes only
  what the source lacked at some time after the copy-in, never its own snapshot,
  and leaves nothing behind that was stale all along. `PruneExact` says no
  more than that on purpose: a snapshot that reaches the source after the mirror
  has listed it, and the destination (by another sync) before the mirror lists
  that, *is* pruned although the source has it, since the two listings are not
  taken at once. `SuccessIsRestorable` names that as the only way for a reported
  success to lose its manifest.
* **walk.** Undisturbed, the walk yields exactly what a sequential reading of the
  tree yields, through links, cycles and excludes, and refuses exactly what it
  must: the root, a directory or file it may not read, a link whose lookup fails
  otherwise than by leading nowhere or in a circle, a linked object it must not
  trust. Disturbed, every checksum is of bytes the file held, unless the file is
  rewritten in place while its own hasher reads it. The guard against a drifting
  length does not see that when the lengths agree, and the checksum is then of a
  mixture: of blocks that the file held in those places, or of zeros of a mapping
  that was cut. The recorded size is that of the bytes hashed for the engines that
  count what they read; plain BLAKE3 takes the length beforehand and is excepted. diff differs exactly when a
  file does, in both directions, alone or united.
* **commands.** No command files a cached manifest before its objects, whatever it
  races with and wherever it is killed; only purges and flushes make holes, and a
  fetch closes them. A checkout that succeeds is exact. A verify-cache that
  succeeds told the truth about every object it scanned, and about every manifest
  that was cached throughout (or the one of its --id). The
  user's own files survive a killed or failing swap (in the tree put aside). The
  catalog stays one chain per location through races, kills and rebuilds.
* **adaptive_gate.** No permit is made or lost by any race of drops and retunes, the
  blocking pool is exact, nobody sleeps beside a free permit unnoticed, and every
  transfer ends. `PermitsConserved` is an equation and not a bound on holders: a
  drop that read no debt just before a shrink recorded one still returns its
  permit, so for a while one more transfer may run than the new limit allows,
  until a later drop pays the debt (GatePermit's comment says "exactly").
* **rate_limiter.** Over any stretch of time, and across retunes, no more is granted
  than a burst and what the rate paid for. Requests within one second's budget
  are all served, though retunes never cease.
* **controller.** The memory budget, the operator's rate cap and the cooldown hold
  whatever the order of late ticks and retunes. A retune that is overtaken may leave
  an older target in force until the next decision, within the cap still. When the network is calm at its
  best latency the limit climbs back to all the policy allows.
* **ffi.** A failure comes with its own error and a dropped parameter can be seen,
  unless an earlier optional string was undecodable; each of those costs at most
  one error and one string. A panic in the build of the runtime blocks nobody.

### Bounds, and why they are enough

Two actors are enough for every race in the code: no step looks at more than
what is at one path or in one pool, and the retry of a crashed actor is another
actor. Two files with two contents give snapshots that share all, one or no
objects, and one failing copy of several. One file in `file_store` pays for
retries, edits and liveness; the theorems lift that instance. Two power failures
let a session run over the remains of one that ran over remains. Three tasks and
threads with a ceiling of three let the limit shrink below what is in flight by
more than one and grow again before the debt is paid. In the rate limiter the
sizes include nothing, one token and the whole capacity of the smallest rate;
age is capped at a second because the refill is. `sync` starts with at most one
snapshot in the destination, so that a stale manifest and the fast path can meet
in one mirror. On the ssh remote one object is rotten at a time. In `commands`
the plans pair the commands that touch the same things; one rotten object
(MaxRot) and one kill (MaxAborts) in any step of either process give every
single fault before, in and after each command. In `walk` MaxLinks is 2, not 40:
a cycle is entered and cut; a content has one or two blocks and a mapping starts at
two (MmapThreshold), so that one edit falls before, between and after the blocks of
either engine; RefDepth is 4, a number of names that no scene's lookup
survives (TLC evaluates that assumption), so the reference sees the whole tree. In `controller` a cooldown of 2 and a re-probe
interval of 3 ticks, with ticks up to 2 late, keep their order and overlap.

Bounds named in the modules: MaxEdits, MaxPowerLoss, MaxMoveFailures,
MaxEvictions, MaxChanges, MaxRetunes (gate), MaxRequests, MaxRot, MaxAborts,
MaxLinks, RefDepth, MaxGap, MaxSpawned, MaxUris, the faults of a mix and the calls of a
host. MaxRetries, MaxAttempts and MAX_FETCH_RETRIES are the code's own
constants, smaller.

Symmetry is used only in runs without liveness; PidOf is symmetric with Proc.
CHECK_DEADLOCK FALSE stands where the actors all end and the system then stops;
the rate limiter's clock never does, and a finished walk rests (`Rest`), so there
it is checked.

### Fairness

Weak fairness of each actor's own steps, and nothing else, but for the limiter: a
live process, shell or thread is scheduled, and the calls it makes return.
Crashes, kills, failures, edits, retunes, requests for new work, bit rot and
spurious wakeups are not fair. In `AdaptiveGate` the code's semaphore is FIFO,
which is stronger than needed. In `Controller` ticks, spawned tasks and operations
go on; the weather need not become calm. `Commands`, `Sync` and `ReceivePack`
assume no fairness: their properties are safety. In `RateLimiter` time passes, and a worker
is scheduled strongly fairly among the ticks that have something to credit:
retunes never end there, each one discards the time not yet credited, and only a
worker that wakes for ever in the very tick of a retune would starve. The wakeup
of a sleep and a ticker that drifts do not coincide for ever; a discrete clock
without this assumption would let them.

## 4. Disagreements with the documentation

Where a sentence of the repository and its code part, the properties follow the
code and name the exception:

1. README.md:164 says that with SNAPDIR_FSYNC=batch a manifest that survives a
   crash is backed by durable objects, and pack.rs:337-341 that objects found
   present "were made durable by whatever pack first wrote them". The barrier
   (pack.rs:464) syncs only what this receiver wrote; an object left unsynced by
   an interrupted push is taken as present by the retry. Hence the "itself" of
   `PackSurvives`.
2. ssh_engine.rs:451-453 says that either side failing fails the push, and :420-421
   that a manifest present implies its objects. The remote loop (:458) forgets a
   failed move when a later one succeeds, and the manifest is committed; every
   retry then finds it present. `GapsExplained` and `FetchExplained` name it.
3. sftp_engine.rs:26-28 says a killed transfer leaves only temporary files. A kill
   between `-rm` and `rename` (:339) of an object that another script has filed
   since the probe leaves that script's manifest incomplete: `GapIsARename`.
4. transfer.rs:381-384 (and 532-535) says a request larger than the bucket is still
   satisfied. The refill is capped at the capacity (:400), so acquire never
   returns; `BudgetServed` is about requests within one second's budget, and `JobsEnd`
   excepts the jobs that come to wait so.
5. snapdir-ffi/src/lib.rs:16-17 says that `*err_out == NULL` means success and
   non-NULL failure. An optional string that is not UTF-8 sets the error and the
   call goes on without it (:409-426, :507, :897), and may succeed.
   `ErrorsExplained` says exactly when.
6. diff.rs:91-93 says a directory's mode-only change still surfaces as `M`; classify
   (:188-196) drops every path that is a directory on both sides. The file to
   directory change it mentions cannot meet at one path either, since a
   directory's path ends in a slash. `DiffExact` has rows of files only. (Within one
   side union_side does compare such a directory, and would report a collision that
   diff has no row for; the edits of `Walk` leave the modes of directories alone.)
7. cli.rs:3374 says that deepest-first order guarantees an empty directory. One that
   holds a file protected by --exclude is not, and the checkout fails there.
8. cli.rs:1745 and 2148 call the catalog log best-effort; an error of it (a catalog
   another process has open) fails a push or stage whose work is done.
9. snapdir-catalog/src/lib.rs:17 calls the head of a location the one with the
   latest `created_at`; it is the last inserted, which differs once the clock was
   set back. `HistoryIsAChain` excepts that of its queries.
10. sftp_engine.rs:248 calls the post-check of the fetch "the verify discipline"; it
    looks at presence only, and a `get` cut short leaves a torn object in the
    cache (`TornGet`).
11. transfer.rs:67 calls `concurrency` the slow-start seed; the controller starts at
    its own first limit whatever it is.

Two more limit a result: object temporaries are unique only among processes with
distinct pids (`UniquePids`, section 5), and the slower of two receivers of one
object replaces a synced file by an unsynced one (the hazard at the rename in
pack.rs).

## 5. Proofs

`tlapm M.tla` for each of `FileStoreProofs`, `ReceivePackProofs`, `ScriptProofs`,
`ObjectStoreProofs`, `SyncProofs`, `FlowControlProofs`, `CommandsProofs` and
`LibraryProofs`. TLC shows the properties on small instances; these theorems
hold for every value of the constants that satisfies the ASSUMEs of the modules.

| theorem | module | states |
|---|---|---|
| `ObjectsStayIntact`, `ManifestsStayComplete`, `Refinement` | `FileStoreProofs` | `ObjectsIntact`, `ManifestsComplete`, `ImplementsContentStore` |
| `PackSurvivesPowerLoss`, `PackSuccessIsDurable`, `PackRefinement` | `ReceivePackProofs` | `PackSurvives`, `SuccessIsDurable`, `ImplementsContentStore` |
| `PushGapsExplained`, `PushRefinement`, `FetchIsExplained` | `ScriptProofs` | `GapsExplained`, `ImplementsContentStore`, `FetchExplained` |
| `SftpGapIsARename` | `ScriptProofs` | `GapIsARename` |
| `FetchRequestsBounded`, `BucketRefinement`, `ReportsAreExact` | `ObjectStoreProofs` | `RequestsBounded`, `ImplementsContentStore`, `ResultsExact` |
| `SyncSuccess`, `SyncRefinement`, `MirrorPrunesExactly` | `SyncProofs` | `SuccessIsRestorable`, `ImplementsContentStore`, `PruneExact` |
| `PermitsStayConserved`, `BlockingStaysExact`, `NoWakeupIsLost`, `BudgetIsRespected`, `BudgetsAlwaysHold`, `CooldownIsKept` | `FlowControlProofs` | `PermitsConserved`, `BlockingExact`, `NoLostWakeup`, `BudgetRespected`, `BudgetsHold`, `CooldownHolds` |
| `ManifestsAreBacked`, `OwnFilesAreSafe`, `ClaimsAreTrue`, `CheckoutIsExact`, `HistoriesAreChains` | `CommandsProofs` | `ManifestsBacked`, `OwnFilesSurvive`, `CacheClaimsHold`, `CheckoutExact`, `HistoryIsAChain` |
| `WalkTypeCorrect`, `UndisturbedWalkExact`, `ChecksumsWitnessed` | `LibraryProofs` | Walk's `TypeOK` (part of `QuiescentExact`), `QuiescentExact`, `EntriesWitnessed` |
| `DiffTellsTheDifference` | `LibraryProofs` | `DiffExact` |
| `FailuresExplained`, `NothingElseLeaks` | `LibraryProofs` | `ErrorsExplained`, `LeaksBounded` |

Every one goes the same way: an inductive invariant (IInv, or a name of its own), a lemma per action (or
group of alike actions) that the step keeps it, and the property from IInv, or,
for an action property, from IInv and the step.
The five refinements map every step to a step of
ContentStore or to a stutter. `FetchLeavesPush` adds that fetch scripts,
evictions and rot do not disturb the push scripts, so that SshPush's theorems
hold of SshFetch.

**FileStoreProofs** assumes the constants' assumptions of `FileStore` (at least one
attempt, Torn and None distinct from the rest) and `UniquePids`: no two processes
on one store have one pid, which temp_sibling takes for granted. It proves

* `TypeCorrect`: Spec => []TypeOK;
* `ObjectsStayIntact` and `ManifestsStayComplete`: the two safety invariants;
* `Refinement`: Spec => CS!Spec, by the mapping to what verifies at its address.

None of these is inductive. `ObjectsIntact` needs to know that a file about to be
renamed has the right bytes *and keeps them*: that between the verification and
the rename nobody writes that inode. The inductive invariant therefore says, of
every inode, who may still write it: a temporary path belongs to the process
whose pid it carries and to a number its counter has passed (so a new path is
never filed), an inode filed under a temporary path belongs to the one job that
opened it, an inode at an address is nobody's open file, and a job in state
`verified` has its target's content in its inode. For the clone it adds that a
guarded file whose version still equals the one seen at discovery was hashed
from that very content. `ManifestsComplete` then follows from: a job that is done
has its object present, objects are never unfiled, and the manifest slot opens
only when all jobs are done.

**ReceivePackProofs** assumes that an object's address is not a manifest's
(`NamesAssumption`: they are in different directories). The property speaks of a
manifest after a power failure, so of every prefix of the journal that has it:
IInv says of each manifest in the journal that its objects come *before* it there,
and that each inode its own durable receiver wrote is synced and undamaged or was
renamed over before it (the barrier syncs what a name stands for by then). For
that it keeps, of every session, which of its renames the barrier still has to
sync, and that it never renames one address twice. The renames that a failure
leaves are a prefix no shorter than `stable`; the largest position of a name in
it is found with the well-foundedness of the natural numbers (WFMin), not by
induction.

**ScriptProofs** needs of every ssh push script that each object of its snapshot is on
the remote, in its list, or lost to a failed move of *this* script, and that once
the last turn of its loop succeeded the snapshot has an object besides the lost
ones: that is how a masked failure looks from inside. For the fetch scripts IInv
adds what the list of missing objects was when it was emitted, and what was
evicted since.

Of the sftp scripts it cannot promise an object to anybody, since another script's
`-rm` may come at any time (`SftpIInv`). What is inductive is *cover*: an object is filed, or
some script has removed it and has not renamed yet, or was stopped there. A
script that skips an object counts on its cover.

**ObjectStoreProofs** has requests in flight in its invariant: whatever lands late
is an object under its own address, or a manifest whose objects are all in the
bucket already. A request that a download sent in vain is paid for by a
verification used up (a full budget of attempts) or by the one under way. Of a
listing it says that what was there when it was called is listed already or on a
page still to be read, and is in the bucket: no push removes a manifest.

**SyncProofs** says that a destination's manifests are always backed (the fast path
may trust one), that what a copy has brought stays unless another mirror prunes
its manifest, and of a mirror's prune set that it is within what the source lacked
at some time since the copy, and contains all that was stale throughout.

**FlowControlProofs**, of the gate, assumes finitely many transfers, a positive ceiling and a
start within it. `Invariance` proves IInv = TypeOK, the sign of `delta` in each
phase of set_limit (positive while growing, negative while shrinking, zero
otherwise), `PermitsConserved`, `BlockingExact` and `NoLostWakeup`. The sign is
what makes the counters natural numbers: fetch_add(to_remove) and add_permits
never receive a negative amount. Cardinalities of the holder sets change by one
per acquire and drop, from the finite-set theorems.

Of the limiter it assumes natural rates and sizes and a positive number of ticks to the
second. The bucket's level alone is not bounded by the budget inductively: the
budget grows with every tick, the bucket only when somebody looks. IInv says that
what acquire *would find now* is within the budget; the arithmetic lemmas are
about the capped product of age and rate.

Of the controller it assumes `ControllerAssumption`: the types of the options and rates, and a
cooldown and a ceiling of at least one. `ControllerIInv` adds to the types that
once the driver has ticked the gate holds the last target, that no retune still to
run is above the cap, that the cooldown left and the calm so far make up a whole
cooldown, and that the limit a probe would go back to is, capped as `finish` caps
it, not above the target. The last two are why the property is not obvious: a
revert happens *before* the law looks at the cooldown, and a tick that saw
congestion may revert as well. Before the first tick the gate still has the limit
the transfer began with, above or below the target; that a back-off then does not
raise it needs slow start to begin at no more than two. The limit that the caps
are applied to is bounded by case analysis of the law (`DecideSound`), and the
memory budget by the arithmetic of quotients (`MemoryCap`).

**CommandsProofs** assumes that a snapshot's paths and contents are of the constants'
sets, that processes run sequences of commands, and that Own, Bad and None are
distinct from the data and from each other (`CommandsAssumption`). Its IInv
says where each command may be (`May`), what its loop has left
and what it has in hand, and what it has brought already: an object that a push
into the cache has copied is there or another process has noted that it took it
(`purged`, `touched`). That a fetch's success is true rests on the heal: a fetch
that goes on to push into the cache has no manifest there to stop at, or another
command has filed it since. A scan that succeeds has no corrupt object behind it
that nobody spoilt meanwhile. Of the search for gaps `Checked` says, of every
manifest that is there and that nobody has touched since the command began, that it
is still to be listed or read, or that each of its objects is still to be looked
for, or is there, or was lost meanwhile, or has made the search fail. The user's files are at paths no snapshot has, so
only a prune or a swap removes them, and every tree a swap puts aside is in `aside`
until it is put back, dropped or left adrift. `CheckoutIsExact` alone has a
hypothesis besides: that the processes' plans are `Exclusive`. Two checkouts
into one destination interleave file by file, and neither may claim anything.
What a checkout has materialized then stays, but for objects that it is told of.

`HistoriesAreChains` adds `CatalogInv` to IInv, and assumes that None is no
snapshot (`CatalogAssumption`). The chain itself follows from what the process that
has the file open knows (`Writing`): the head that save has read is still the head,
and its event is still the latest row there is, because nobody else has the file
open. The second is what the queries need: without it a record could be filed
with a time before an earlier record's. The scans are stated by the rank of a row,
the number of rows it comes after, so that the proofs go by cardinalities of
intervals and need no induction over a sort; that the largest stamp exists is again
the well-foundedness of the natural numbers.

**LibraryProofs**, of the walk, proves `EntriesWitnessed` from two facts that lie
apart. One is about the file system: a file of the tree when the walk began is
below directories that no edit removes, and is either gone or a file still, whose
bytes have been seen (`FilesKnown`). So a lookup of its path crosses no link, and
`PlainFileFound` says that stat and lstat, as recursive lookups of any length, find
that very file. The other is about the records: a slot of such a file either waits in
the queue, as no link and under the length its entry will state, or holds a checksum
of bytes the file has held, of that length for the engines that count
(`SlotsWitnessed`). In between, what a reader has got so far is the beginning of the
bytes of the inode it opened, which the file has held, or the file is among those
rewritten under their hasher and every block got is one of some content in that
place (`ReadersWitnessed`). It is inductive only with what the workers know: a file in
somebody's hands is queued and its slot unfilled (`HashingUnfilled`), so that no
slot is filled twice, from two readings. That no path is read twice is not needed
for it, but is for `WalkTypeCorrect`: every queued file keeps the slot its checksum
goes to, since a directory being descended to has no record whose files could be
lost (`DescentOnce`: the stack goes down one name a level, and what is left to visit
is not recorded yet). The lookup is a recursive function and the prover has no induction over
data; both that it exists and what it reaches go by the least length at which they
would fail.

`UndisturbedWalkExact` compares the walk with a sequential reading of the tree, as
long as nobody has edited it (`Undisturbed`). Its invariant `Exact` says that every
recorded directory is one the reference has, with its permissions and children;
that every slot is that of a file of the reference and holds its checksum or waits
for it, that whoever reads a file has got the beginning of its bytes (`ReadersExact`); and, so that nothing is missing at the end, that of a directory being read
each name is still to be visited or is *settled*: recorded if the reference lists
it, and nothing the walk would have had to refuse. When the stack and the queue are
empty, records and reference are therefore the same set. What remains is that the
two merkle passes agree, one over the records and one over the tree. Each is a
recursive function, and both satisfy the same equations (`IsMerkle`); that such a
function exists, and that there is only one, goes by the least depth at which it
would fail. Directories are bounded in depth because a lookup of RefDepth names
leads nowhere: trees end, and the kernel cuts a cycle of links. That, the types of
the scenes (whatever is in a tree is below directories, a file's bytes are of
Contents, a link names what it finally leads to) and the types of the pools and
options are what `WalkAssumptions` asks for.

`DiffTellsTheDifference` is mostly about the operators: under each path either
manifest has at most one entry, a directory's path is never a file's
(`DiffAssumption`: no name has a slash), and so the rows are those of the files that
only one side has, or that differ (`RowsTold`); the union of two manifests and the
resolution of a side are recursions of one or two turns, unfolded. What it needs of
the walk is that an edited tree still agrees with the manifest on the permissions of
every directory they share, or a union would collide where diff has no row. The
invariant `Landmarks` says that every recorded directory is still found, by lstat
and by stat, as it was: edits touch files alone, no lookup that leads to a directory
goes through one (`FollowStays`), and the records form a tree, so that the shortest
path to have gone astray would have a parent that had not (`DirsStand`). That an
undisturbed walk has no rows at all is `UndisturbedWalkExact` again.

Of the C ABI it keeps, for each thread, two accounts. An error allocated and not freed
is that of the failure the host has yet to read, or a dropped parameter has paid
for it; a string is the result the host has yet to read, or paid for likewise,
where an error still in the variable counts as a string too: it is what makes the
host take a later success for a failure and lose its string. Without that last
term the bound on the strings is not inductive. That a failure's error is of its
own call needs that during a call the variable carries the call's number exactly
when the call has dropped a parameter. Every step of a call has one of five
outcomes (`Outcome`: it goes on, drops a parameter, fails, fails under an error
that is there already, or succeeds), and the invariant is shown to survive each.

Left to TLC:

* every liveness property (`PushEnds`, `GapsClose`, `AllServed`, `BudgetServed`,
  `WalkEnds`, `JobsEnd`, `CallsReturn`, `Recovers`): fairness and ENABLED are out
  of this prover's reach.

Every invariant and every action property that the runs check is stated by
a theorem above.

## 6. Not modelled, and the plan

Modelled so far, in the order of work: ContentStore and FileStore;
ReceivePack; the ssh and sftp push scripts; AdaptiveGate and RateLimiter; Sync;
then the read side and the cache (Commands), the catalog, the
split store, the object stores with their loops and retries, the walk with its
merkle pass, diff, the controller, the C ABI and the ssh fetch script.

Left, and why:

* The text format of a manifest (parsing, quoting, the order of its lines), URL,
  option and config parsing, pattern compilation: conversions of strings, which
  unit tests reach and no property here tells apart.
* The sftp fetch script's batches: of it only the effect on the cache is modelled.
* Permission bits outside `Walk` and `Diff`. So a checkout over the links of an
  earlier linked one, which may change the mode of the cached object a link leads to,
  shows nothing of that here.
* A torn read of a source file that is rewritten under its hasher is a state of
  `Walk`; in `FileStore` such a file may have any checksum, which is more than the
  code can produce.
* The progress display, messages, and the SDK clients of the object stores.
* The bindings of other languages on top of the C ABI: generated or thin.
