----------------------------- MODULE ObjectStore -----------------------------
(***************************************************************************)
(* The cloud adapters (S3, B2 over S3, GCS): the concurrent upload and     *)
(* download loops that they share, each network call under the retry       *)
(* policy, against a bucket whose requests fail, answer late, or take      *)
(* effect after their sender has given up.                                 *)
(*                                                                         *)
(* A job is one call of push, fetch_files (after get_manifest) or          *)
(* list_manifest_ids.  Its tasks are the file entries of the snapshot, and *)
(* one more, Root, for the calls about the manifest itself.                *)
(***************************************************************************)
EXTENDS Naturals, FiniteSets

CONSTANTS
    Job,           \* calls of the adapter, by any number of processes
    File,          \* the file entries of a manifest
    Data,          \* object contents (an object is its own address)
    Root,          \* the task that stands for the manifest
    None,          \* no file, no bytes
    Torn,          \* bytes that hash to no address
    MaxAttempts,   \* RetryPolicy::max_attempts, after its clamp to 1
    MAX_FETCH_RETRIES,
    Fits,          \* the objects that one second of the byte limiter's budget
                   \* covers at any rate it may have (all, if it has none)
    Mixes,         \* the adapter, what the jobs are ("push", "fetch", "list"),
                   \* their window, and a bound on the network's faults
    Sources,       \* the trees a run may start from
    MaxEdits       \* bound: edits of the source tree

ASSUME ObjectStoreAssumptions ==
    /\ MaxAttempts \in Nat \ {0} /\ MAX_FETCH_RETRIES \in Nat \ {0}
    /\ Fits \subseteq Data
    /\ Mixes \subseteq [adapter : {"s3", "gcs"}, concurrency : Nat \ {0}, faults : Nat,
                       kind : [Job -> {"push", "fetch", "list", "none"}]]
    /\ Sources \subseteq [File -> Data] /\ MaxEdits \in Nat
    /\ Root \notin File /\ None \notin Data /\ Torn \notin Data /\ None # Torn
    \* Objects and manifests have different key prefixes.
    /\ Data \cap [File -> Data] = {}

Snapshot == [File -> Data]
Entry == File \cup {Root}

VARIABLES
    source,     \* the tree the pushes read
    edits,      \* its edits so far
    objects,    \* address -> bytes, None when the key is absent
    manifests,  \* the manifests in the bucket
    late,       \* PUTs whose sender no longer listens and that may still land
    faults,     \* network faults yet to come, at most
    adapter,    \* "s3" (and B2) or "gcs"
    concurrency, \* TransferConfig::concurrency (the gate's ceiling)
    kind,       \* what each job does
    snap,       \* the snapshot a job is about
    pc,         \* where the job is
    task,       \* where each of its tasks is
    dest,       \* the tree a fetch writes
    listed,     \* ids a listing has returned so far
    unlisted,   \* ids whose page it has yet to read
    standing    \* history: the manifests there when it was called

tree == <<source, edits>>
bucket == <<objects, manifests, late>>
config == <<adapter, concurrency, kind, snap>>
listing == <<listed, unlisted, standing>>
vars == <<tree, bucket, faults, config, pc, task, dest, listing>>

Ended == {"ok", "failed", "killed"}
Idle == [st |-> "idle", n |-> 0, left |-> 0, got |-> None, sent |-> 0]
Fresh == [Idle EXCEPT !.st = "wait", !.left = MAX_FETCH_RETRIES]
Active(j) == {f \in File : task[j][f].st \notin {"idle", "wait", "done"}}

\* The bucket is empty or holds one snapshot, whole or but for its manifest.
Init ==
    /\ source \in Sources /\ edits = 0
    /\ objects \in {[d \in Data |-> None], [d \in Data |-> d]}
    /\ manifests \in {m \in SUBSET {source} : m # {} => objects = [d \in Data |-> d]}
    /\ late = {}
    /\ \E mix \in Mixes : /\ adapter = mix.adapter /\ concurrency = mix.concurrency
                         /\ kind = mix.kind /\ faults = mix.faults
    /\ snap = [j \in Job |-> source]
    /\ pc = [j \in Job |-> "new"]
    /\ task = [j \in Job |-> [e \in Entry |-> Idle]]
    /\ dest = [j \in Job |-> [f \in File |-> None]]
    /\ listed = [j \in Job |-> {}]
    /\ unlisted = [j \in Job |-> {}]
    /\ standing = [j \in Job |-> {}]

\* The caller: a push comes from a walk of the source, a fetch names a
\* snapshot that is there, or may come to be, and finds a destination in any state.
Begin(j) ==
    /\ pc[j] = "new"
    /\ pc' = [pc EXCEPT ![j] = "start"]
    /\ \/ /\ kind[j] = "push"
          /\ snap' = [snap EXCEPT ![j] = source]
          /\ UNCHANGED <<dest, unlisted, standing>>
       \/ /\ kind[j] = "fetch"
          /\ \E s \in manifests \cup {source}, old \in [File -> {None, Torn}] :
               snap' = [snap EXCEPT ![j] = s] /\ dest' = [dest EXCEPT ![j] = old]
          /\ UNCHANGED <<unlisted, standing>>
       \/ /\ kind[j] = "list"
          /\ unlisted' = [unlisted EXCEPT ![j] = Snapshot]
          /\ standing' = [standing EXCEPT ![j] = manifests]
          /\ UNCHANGED <<snap, dest>>
    /\ UNCHANGED <<tree, bucket, faults, adapter, concurrency, kind, task, listed>>

-----------------------------------------------------------------------------
(* Errors.  What a request may answer when it does not succeed:            *)
(* "slowdown" is 429, 503 and their codes, "timeout" a lost or late answer *)
(* or a reset connection, "internal" a 500 that says so.                   *)

Fault == {"slowdown", "timeout", "internal", "forbidden"}

\* The words in the error's text; a 500 has none of them.
text_is_transient(fault) == fault \in {"slowdown", "timeout"}
classify_error(fault) == IF text_is_transient(fault) THEN "Throttle" ELSE "HardErr"

s3_attempt_from_err(fault) ==
    fault = "slowdown" \/ classify_error(fault) = "Throttle" \/ fault = "internal"
gcs_attempt_from_err(fault) ==
    fault \in {"slowdown", "internal"} \/ classify_error(fault) = "Throttle"

Transient(fault) == IF adapter = "s3" THEN s3_attempt_from_err(fault)
                                      ELSE gcs_attempt_from_err(fault)

Faulty == faults > 0 /\ faults' = faults - 1

\* A job's PUTs under way when it ends: each may still land, or not.
Sending(j) ==
    {[key |-> snap[j][f], bytes |-> task[j][f].got] :
       f \in {g \in File : task[j][g].st = "put"}}
      \cup {[key |-> snap[j], bytes |-> snap[j]] : e \in {r \in {Root} : pc[j] = "commit"}}

\* The job ends: the first error wins and the other tasks are dropped where
\* they are.
Cancel(j, end) ==
    /\ pc' = [pc EXCEPT ![j] = end]
    /\ task' = [task EXCEPT ![j] = [e \in Entry |-> Idle]]
    /\ \E l \in SUBSET Sending(j) : late' = late \cup l
    /\ UNCHANGED <<objects, manifests>>

SetTask(j, e, t) == task' = [task EXCEPT ![j][e] = t]
\* A request sent in vain; and an attempt failed, to be tried again.
Sent(t) == [t EXCEPT !.sent = @ + 1]
Again(t) == [Sent(t) EXCEPT !.n = @ + 1]

\* A failed attempt: a transient one is tried again within the budget, after
\* a backoff of any length; any other error ends the call, and so the job.
retry_network(j, e, fault) ==
    IF Transient(fault) /\ task[j][e].n + 1 < MaxAttempts
    THEN /\ SetTask(j, e, Again(task[j][e]))
         /\ UNCHANGED <<pc, bucket>>
    ELSE Cancel(j, "failed")

\* An attempt that fails and has no effect.
CallFails(j, e) ==
    /\ Faulty
    /\ \E fault \in Fault : retry_network(j, e, fault)

Goto(j, stage) == pc' = [pc EXCEPT ![j] = stage]
\* The next call of the task starts with a full budget of attempts.
Then(t, st) == [t EXCEPT !.st = st, !.n = 0]

-----------------------------------------------------------------------------
(* push.                                                                   *)

\* The skip-if-manifest-present probe.
ProbeManifest(j) ==
    /\ kind[j] = "push" /\ pc[j] = "start"
    /\ \/ /\ IF snap[j] \in manifests
             THEN Goto(j, "ok") /\ UNCHANGED task
             ELSE /\ Goto(j, "objects")
                  /\ task' = [task EXCEPT ![j] =
                        [e \in Entry |-> IF e \in File THEN Fresh ELSE Idle]]
          /\ UNCHANGED <<bucket, faults>>
       \/ CallFails(j, Root)
    /\ UNCHANGED <<tree, config, dest, listing>>

\* run_concurrent and run_adaptive take the next item into the window.  A
\* download waits for its budget first, an upload once it has its bytes.
StartTask(j, f) ==
    /\ pc[j] = "objects" /\ task[j][f].st = "wait"
    /\ Cardinality(Active(j)) < concurrency
    /\ SetTask(j, f, [task[j][f] EXCEPT !.st = IF kind[j] = "push" THEN "head" ELSE "pace"])
    /\ UNCHANGED <<tree, bucket, faults, config, pc, dest, listing>>

\* Mutant: an object that is skipped is never counted as done.
HeadObjectUncounted(j, f) ==
    /\ task[j][f].st = "head"
    /\ SetTask(j, f, Then(task[j][f],
               IF objects[snap[j][f]] = None THEN "read" ELSE "skipped"))
    /\ UNCHANGED <<tree, bucket, faults, config, pc, dest, listing>>

\* upload_object's key_exists: a present object is skipped.
HeadObject(j, f) ==
    /\ task[j][f].st = "head"
    /\ \/ /\ SetTask(j, f, Then(task[j][f],
                     IF objects[snap[j][f]] = None THEN "read" ELSE "done"))
          /\ UNCHANGED <<pc, bucket, faults>>
       \/ CallFails(j, f)
    /\ UNCHANGED <<tree, config, dest, listing>>

\* Mutant: the bytes are uploaded as they are read.
read_unverified(j, f) ==
    /\ task[j][f].st = "read"
    /\ SetTask(j, f, [Then(task[j][f], "pace") EXCEPT !.got = source[f]])
    /\ UNCHANGED <<tree, bucket, faults, config, pc, dest, listing>>

\* The source file must still have the bytes of its checksum.
read_verified(j, f) ==
    /\ task[j][f].st = "read"
    /\ IF source[f] = snap[j][f]
       THEN /\ SetTask(j, f, [Then(task[j][f], "pace") EXCEPT !.got = source[f]])
            /\ UNCHANGED <<pc, bucket>>
       ELSE Cancel(j, "failed")
    /\ UNCHANGED <<tree, faults, config, dest, listing>>

\* The byte limiter grants the object's length, while the task keeps its place
\* in the window.  (The request limiter's one token before each attempt is
\* within any budget it can be given: it only delays the attempt.)
acquire(j, f) ==
    /\ task[j][f].st = "pace"
    /\ SetTask(j, f, [task[j][f] EXCEPT !.st = IF kind[j] = "push" THEN "put" ELSE "get"])
    /\ UNCHANGED <<tree, bucket, faults, config, pc, dest, listing>>

\* A PUT is atomic at the bucket.  It fails before it has had any effect, or
\* its answer is lost and it lands, now or later.
put_bytes(j, f) ==
    /\ task[j][f].st = "put"
    /\ \/ /\ objects' = [objects EXCEPT ![snap[j][f]] = task[j][f].got]
          /\ SetTask(j, f, Then(task[j][f], "done"))
          /\ UNCHANGED <<pc, manifests, late, faults>>
       \/ CallFails(j, f)
       \/ /\ Faulty
          /\ Transient("timeout") /\ task[j][f].n + 1 < MaxAttempts
          /\ SetTask(j, f, Again(task[j][f]))
          /\ late' = late \cup {[key |-> snap[j][f], bytes |-> task[j][f].got]}
          /\ UNCHANGED <<pc, objects, manifests>>
    /\ UNCHANGED <<tree, config, dest, listing>>

\* push_objects_concurrent and fetch_files_concurrent once every task is done.
EndPass(j) ==
    /\ pc[j] = "objects" /\ \A f \in File : task[j][f].st = "done"
    /\ Goto(j, IF kind[j] = "push" THEN "commit" ELSE "ok")
    /\ UNCHANGED <<tree, bucket, faults, config, task, dest, listing>>

write_manifest(j) ==
    /\ pc[j] = "commit"
    /\ \/ /\ manifests' = manifests \cup {snap[j]}
          /\ Goto(j, "ok")
          /\ UNCHANGED <<task, objects, late, faults>>
       \/ CallFails(j, Root)
    /\ UNCHANGED <<tree, config, dest, listing>>

\* A request that its sender has given up reaches the bucket after all.
LateLands ==
    /\ \E p \in late :
         /\ late' = late \ {p}
         /\ IF p.key \in Snapshot
            THEN manifests' = manifests \cup {p.key} /\ UNCHANGED objects
            ELSE objects' = [objects EXCEPT ![p.key] = p.bytes] /\ UNCHANGED manifests
    /\ UNCHANGED <<tree, faults, config, pc, task, dest, listing>>

-----------------------------------------------------------------------------
(* get_manifest and fetch_files.                                           *)

\* Mutant: a file that is present is left alone.
file_present(j, f) == dest[j][f] # None

\* util.rs: only a regular file with the right bytes is left alone.
file_present_and_verified(j, f) == dest[j][f] = snap[j][f]

\* A manifest that is absent, or that does not hash back to its id, is an
\* error; otherwise the sequential first pass sorts out what to download.
get_manifest(j) ==
    /\ kind[j] = "fetch" /\ pc[j] = "start"
    /\ \/ /\ snap[j] \in manifests
          /\ Goto(j, "objects")
          /\ task' = [task EXCEPT ![j] = [e \in Entry |->
                        IF e = Root THEN Idle
                        ELSE IF file_present_and_verified(j, e)
                             THEN [Fresh EXCEPT !.st = "done"] ELSE Fresh]]
          /\ UNCHANGED <<bucket, faults>>
       \/ /\ snap[j] \notin manifests
          /\ Cancel(j, "failed") /\ UNCHANGED faults
       \/ /\ snap[j] \in manifests /\ Faulty   \* damaged on the way
          /\ Cancel(j, "failed")
       \/ CallFails(j, Root)
    /\ UNCHANGED <<tree, config, dest, listing>>

\* Mutant: bytes that do not verify are fetched again for ever.
VerifyAgain(j, f) ==
    /\ SetTask(j, f, [Sent(task[j][f]) EXCEPT !.n = 0])
    /\ UNCHANGED <<pc, bucket>>

\* Bytes that do not verify: fetched again, a bounded number of times, each
\* with a full budget of attempts.
VerifyFails(j, f) ==
    IF task[j][f].left > 1
    THEN /\ SetTask(j, f, [Sent(task[j][f]) EXCEPT !.n = 0, !.left = @ - 1])
         /\ UNCHANGED <<pc, bucket>>
    ELSE Cancel(j, "failed")

\* One GET of fetch_verified.
fetch_verified(j, f) ==
    LET d == snap[j][f] IN
    /\ task[j][f].st = "get"
    /\ \/ /\ objects[d] = None
          /\ Cancel(j, "failed") /\ UNCHANGED faults
       \/ /\ objects[d] = d
          /\ SetTask(j, f, [Then(task[j][f], "write") EXCEPT !.got = d])
          /\ UNCHANGED <<pc, bucket, faults>>
       \/ /\ objects[d] # None /\ Faulty       \* damaged on the way
          /\ VerifyFails(j, f)
       \/ CallFails(j, f)
    /\ UNCHANGED <<tree, config, dest, listing>>

\* write_atomic: a temporary sibling, then its rename.
write_atomic(j, f) ==
    /\ task[j][f].st = "write"
    /\ SetTask(j, f, Then(task[j][f], "rename"))
    /\ UNCHANGED <<tree, bucket, faults, config, pc, dest, listing>>

RenameTemp(j, f) ==
    /\ task[j][f].st = "rename"
    /\ dest' = [dest EXCEPT ![j][f] = task[j][f].got]
    /\ SetTask(j, f, Then(task[j][f], "done"))
    /\ UNCHANGED <<tree, bucket, faults, config, pc, listing>>

-----------------------------------------------------------------------------
(* list_manifest_ids: the keys come in pages, in key order, each page as   *)
(* the bucket is when it is read.                                          *)

\* Mutant: one page is all that is read.
list_first_page(j) ==
    /\ kind[j] = "list" /\ pc[j] = "start"
    /\ \E page \in SUBSET unlisted[j] :
         /\ listed' = [listed EXCEPT ![j] = @ \cup (page \cap manifests)]
         /\ unlisted' = [unlisted EXCEPT ![j] = @ \ page]
    /\ Goto(j, "ok")
    /\ UNCHANGED <<tree, bucket, faults, config, task, dest, standing>>

list_keys_under(j) ==
    /\ kind[j] = "list" /\ pc[j] = "start"
    /\ \/ \E page \in SUBSET unlisted[j] :
            /\ page # {}
            /\ listed' = [listed EXCEPT ![j] = @ \cup (page \cap manifests)]
            /\ unlisted' = [unlisted EXCEPT ![j] = @ \ page]
            /\ IF page = unlisted[j] THEN Goto(j, "ok") ELSE UNCHANGED pc
            /\ SetTask(j, Root, Then(task[j][Root], "idle"))
            /\ UNCHANGED <<bucket, faults, standing>>
       \/ CallFails(j, Root) /\ UNCHANGED listing
    /\ UNCHANGED <<tree, config, dest>>

-----------------------------------------------------------------------------
(* The rest of the world. *)

Edit ==
    /\ edits < MaxEdits /\ edits' = edits + 1
    /\ \E f \in File : \E d \in Data \ {source[f]} : source' = [source EXCEPT ![f] = d]
    /\ UNCHANGED <<bucket, faults, config, pc, task, dest, listing>>

Kill(j) ==
    /\ pc[j] \notin Ended \cup {"new"}
    /\ Cancel(j, "killed")
    /\ UNCHANGED <<tree, faults, config, dest, listing>>

Step(j) ==
    \/ Begin(j) \/ ProbeManifest(j) \/ EndPass(j) \/ write_manifest(j)
    \/ get_manifest(j) \/ list_keys_under(j)
    \/ \E f \in File :
         \/ StartTask(j, f) \/ HeadObject(j, f) \/ read_verified(j, f)
         \/ snap[j][f] \in Fits /\ acquire(j, f)
         \/ put_bytes(j, f) \/ fetch_verified(j, f)
         \/ write_atomic(j, f) \/ RenameTemp(j, f)

\* What is larger than the burst of some rate may be granted, at another
\* rate, or never.
GrantLarge(j) == \E f \in File : snap[j][f] \notin Fits /\ acquire(j, f)

Next == (\E j \in Job : Step(j) \/ GrantLarge(j) \/ Kill(j)) \/ LateLands \/ Edit
Spec == Init /\ [][Next]_vars /\ \A j \in Job : WF_vars(Step(j))

-----------------------------------------------------------------------------
(* Types of the state. *)
TypeOK ==
    /\ source \in Snapshot /\ edits \in 0..MaxEdits /\ faults \in Nat
    /\ objects \in [Data -> Data \cup {None}]
    /\ manifests \subseteq Snapshot
    /\ \A j \in Job :
         /\ listed[j] \cup unlisted[j] \cup standing[j] \subseteq Snapshot
         /\ dest[j] \in [File -> Data \cup {None, Torn}]
         /\ \A e \in Entry : task[j][e].n < MaxAttempts

CS == INSTANCE ContentStore WITH
        objects <- {d \in Data : objects[d] = d}, manifests <- manifests

(* The bucket is written as a content store is: no upload of a source file *)
(* edited since the walk, no manifest before its objects, not even by      *)
(* requests that land after their push has failed, been cancelled or been  *)
(* killed (push_objects_concurrent, put_bytes).                            *)
ImplementsContentStore == [][CS!Next]_(CS!vars)

(* The retries nest, and their product bounds the GETs of one object:      *)
(* max_attempts of each of MAX_FETCH_RETRIES verifications.  With the types*)
(* of the state.                                                           *)
RequestsBounded ==
    /\ TypeOK
    /\ \A j \in Job, f \in File :
         kind[j] = "fetch" => task[j][f].sent < MaxAttempts * MAX_FETCH_RETRIES

Reports(j, what) == kind[j] = what /\ pc'[j] = "ok" /\ pc[j] # "ok"

(* A fetch that reports success leaves the whole snapshot at its           *)
(* destination, over files that were missing or stale, whatever arrived    *)
(* damaged or was retried; and a destination file changes only to the      *)
(* bytes its entry names, so that a fetch that fails or is killed leaves   *)
(* none half written (fetch_files_concurrent, fetch_verified,              *)
(* write_atomic).  A listing that ends has every manifest that was in the  *)
(* bucket when it was called, whatever pages it came in, was retried or    *)
(* was filed meanwhile, and none that is not in the bucket                 *)
(* (list_keys_under, list_manifest_ids).                                   *)
ResultsExact ==
    [][\A j \in Job :
         /\ Reports(j, "fetch") => dest'[j] = snap[j]
         /\ \A f \in File :
              (pc[j] # "new" /\ dest'[j][f] # dest[j][f]) => dest'[j][f] = snap[j][f]
         /\ Reports(j, "list") => standing[j] \subseteq listed'[j] /\ listed'[j] \subseteq manifests]_vars

\* All that the job has in hand waits for budget larger than the burst.
Starved(j) ==
    /\ Active(j) # {}
    /\ \A f \in Active(j) : task[j][f].st = "pace" /\ snap[j][f] \notin Fits

(* Every job ends, with a result or an error, unless it comes to wait for  *)
(* ever for the byte limiter to grant objects larger than its burst:       *)
(* retries are bounded, and no task waits for a window that never frees    *)
(* (retry_network, run_concurrent, acquire).                               *)
JobsEnd ==
    \A j \in Job : kind[j] # "none" => (<>(pc[j] \in Ended) \/ <>[]Starved(j))

=============================================================================
