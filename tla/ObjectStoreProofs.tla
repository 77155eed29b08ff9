-------------------------- MODULE ObjectStoreProofs --------------------------
(***************************************************************************)
(* The cloud adapters, for any number of jobs, snapshots, faults and       *)
(* retries: the bucket is written as a content store is, the retries of a  *)
(* download are bounded, and what a fetch or a listing reports is so.      *)
(***************************************************************************)
EXTENDS ObjectStore, Integers, TLAPS

Stage == {"new", "start", "objects", "commit"} \cup Ended
Pushing == {"head", "read", "put"}
Fetching == {"get", "write", "rename"}

\* A task: where it is, the attempts its call has failed, the verifications it
\* has left, the bytes it holds and the requests it has sent in vain.
Task == [st : {"idle", "wait", "pace", "done"} \cup Pushing \cup Fetching, n : 0..(MaxAttempts - 1),
         left : 0..MAX_FETCH_RETRIES, got : Data \cup {None}, sent : Nat]

Typed ==
    /\ source \in Snapshot /\ edits \in 0..MaxEdits /\ faults \in Nat
    /\ objects \in [Data -> Data \cup {None}] /\ manifests \subseteq Snapshot
    /\ kind \in [Job -> {"push", "fetch", "list", "none"}]
    /\ snap \in [Job -> Snapshot]
    /\ pc \in [Job -> Stage]
    /\ task \in [Job -> [Entry -> Task]]
    /\ dest \in [Job -> [File -> Data \cup {None, Torn}]]
    /\ listed \in [Job -> SUBSET Snapshot] /\ unlisted \in [Job -> SUBSET Snapshot]
    /\ standing \in [Job -> SUBSET Snapshot]

\* All objects of a snapshot are in the bucket.
Complete(m) == \A f \in File : objects[m[f]] = m[f]

\* The bucket holds an address's own bytes or none, and a manifest only if it is
\* complete; and so it stays when a late request lands.
BucketInv ==
    /\ \A d \in Data : objects[d] \in {d, None}
    /\ \A m \in manifests : Complete(m)
    /\ \A p \in late : \/ p.key \in Data /\ p.bytes = p.key
                       \/ p.key \in Snapshot /\ Complete(p.key)

\* The requests that a download has sent in vain: each verification that it has
\* used up may have cost it a full budget of attempts, and the one under way as
\* many as have failed.
SentInv(t) ==
    /\ t.st \in {"wait", "pace", "get"} => t.left >= 1 /\ t.sent <= (MAX_FETCH_RETRIES - t.left) * MaxAttempts + t.n
    /\ t.st \in {"wait", "pace", "get"} \/ t.sent < MaxAttempts * MAX_FETCH_RETRIES

\* What a job's tasks may count on.
TaskInv(j, f) ==
    /\ task[j][f].st \notin {"idle", "done"} => pc[j] = "objects"
    /\ task[j][f].st \in Pushing => kind[j] = "push"
    /\ task[j][f].st \in Fetching => kind[j] = "fetch"
    /\ task[j][f].st \in {"put", "write", "rename"} => task[j][f].got = snap[j][f]
    /\ task[j][f].st = "pace" /\ kind[j] = "push" => task[j][f].got = snap[j][f]
    /\ task[j][f].st = "done" => IF kind[j] = "push" THEN objects[snap[j][f]] = snap[j][f]
                                                     ELSE dest[j][f] = snap[j][f]
    /\ kind[j] = "fetch" => SentInv(task[j][f])

\* What the bucket had when a listing was called is listed, or on a page to
\* come, and what is listed is in the bucket: manifests stay.
ListInv(j) ==
    /\ listed[j] \subseteq manifests /\ standing[j] \subseteq manifests
    /\ standing[j] \subseteq listed[j] \cup unlisted[j]

JobInv(j) ==
    /\ pc[j] \in {"new", "start"} => \A f \in File : task[j][f].st = "idle"
    /\ pc[j] = "objects" => kind[j] \in {"push", "fetch"}
    /\ pc[j] = "commit" => kind[j] = "push" /\ Complete(snap[j])
    /\ ListInv(j)
    /\ \A f \in File : TaskInv(j, f)

\* The inductive invariant.
IInv ==
    /\ Typed
    /\ BucketInv
    /\ \A j \in Job : JobInv(j)

-----------------------------------------------------------------------------
(* The arithmetic of the nested retries.                                   *)

\* The product of the two budgets is positive.
LEMMA ProductPositive == 0 < MaxAttempts * MAX_FETCH_RETRIES
BY ObjectStoreAssumptions

\* A download that has a verification left is within the product.
LEMMA WithinProduct ==
    ASSUME NEW left \in 1..MAX_FETCH_RETRIES, NEW n \in 0..(MaxAttempts - 1), NEW s \in Nat,
           s <= (MAX_FETCH_RETRIES - left) * MaxAttempts + n
    PROVE  s < MaxAttempts * MAX_FETCH_RETRIES
<1>1. MaxAttempts \in Nat /\ MAX_FETCH_RETRIES \in Nat
  BY ObjectStoreAssumptions
<1>2. PICK k \in Nat : k = left - 1
  OBVIOUS
<1>3. PICK u \in Nat : u = MAX_FETCH_RETRIES - left
  BY <1>1
<1>4. MAX_FETCH_RETRIES = u + (k + 1)
  BY <1>1, <1>2, <1>3
<1>5. MaxAttempts * (u + (k + 1)) = u * MaxAttempts + (k * MaxAttempts + MaxAttempts)
  BY <1>1, <1>2, <1>3
<1>6. 0 <= k * MaxAttempts /\ k * MaxAttempts \in Nat /\ u * MaxAttempts \in Nat
  BY <1>1, <1>2, <1>3
<1>7. s <= u * MaxAttempts + n
  BY <1>3
<1>. HIDE <1>3
<1>8. s < u * MaxAttempts + (k * MaxAttempts + MaxAttempts)
  BY <1>1, <1>6, <1>7
<1>. QED
  BY <1>4, <1>5, <1>8

\* A verification that is used up pays for a full budget of attempts.
LEMMA VerificationPays ==
    ASSUME NEW left \in 2..MAX_FETCH_RETRIES, NEW n \in 0..(MaxAttempts - 1), NEW s \in Nat,
           s <= (MAX_FETCH_RETRIES - left) * MaxAttempts + n
    PROVE  s + 1 <= (MAX_FETCH_RETRIES - (left - 1)) * MaxAttempts
<1>1. MaxAttempts \in Nat /\ MAX_FETCH_RETRIES \in Nat
  BY ObjectStoreAssumptions
<1>2. PICK u \in Nat : u = MAX_FETCH_RETRIES - left
  BY <1>1
<1>3. MAX_FETCH_RETRIES - (left - 1) = u + 1
  BY <1>1, <1>2
<1>4. (u + 1) * MaxAttempts = u * MaxAttempts + MaxAttempts /\ u * MaxAttempts \in Nat
  BY <1>1, <1>2
<1>5. s <= u * MaxAttempts + n
  BY <1>2
<1>6. s + 1 <= u * MaxAttempts + MaxAttempts
  BY <1>1, <1>4, <1>5
<1>. QED
  BY <1>3, <1>4, <1>6

-----------------------------------------------------------------------------
(* What the building blocks of the actions do.                             *)

\* The idle and the fresh task are tasks.
LEMMA IdleTask == Idle \in Task /\ Fresh \in Task
<1>1. 0 \in 0..(MaxAttempts - 1) /\ 0 \in 0..MAX_FETCH_RETRIES
      /\ MAX_FETCH_RETRIES \in 0..MAX_FETCH_RETRIES
  BY ObjectStoreAssumptions
<1>2. Idle \in Task
  BY <1>1 DEF Idle, Task
<1>3. PICK u \in Task : u = [Idle EXCEPT !.st = "wait"]
  BY <1>2 DEF Task
<1>4. [u EXCEPT !.left = MAX_FETCH_RETRIES] \in Task
  BY <1>1, <1>3 DEF Task
<1>5. Fresh = [u EXCEPT !.left = MAX_FETCH_RETRIES]
  BY <1>2, <1>3 DEF Fresh, Task
<1>. QED
  BY <1>2, <1>4, <1>5

\* Only the named task of the named job changes.
LEMMA SetTaskEffect ==
    ASSUME Typed, NEW j \in Job, NEW e \in Entry, NEW t \in Task, SetTask(j, e, t)
    PROVE  /\ task' \in [Job -> [Entry -> Task]]
           /\ task'[j][e] = t
           /\ \A x \in Entry \ {e} : task'[j][x] = task[j][x]
           /\ \A k \in Job \ {j} : task'[k] = task[k]
<1>1. task \in [Job -> [Entry -> Task]]
  BY DEF Typed
<1>2. task' = [task EXCEPT ![j] = [task[j] EXCEPT ![e] = t]]
  BY DEF SetTask
<1>3. [task[j] EXCEPT ![e] = t] \in [Entry -> Task]
  BY <1>1
<1>4. task'[j] = [task[j] EXCEPT ![e] = t]
  BY <1>1, <1>2
<1>5. task[j] \in [Entry -> Task]
  BY <1>1
<1>6. task'[j][e] = t /\ \A x \in Entry \ {e} : task'[j][x] = task[j][x]
  BY <1>4, <1>5
<1>7. \A k \in Job \ {j} : task'[k] = task[k]
  BY <1>1, <1>2
<1>. QED
  BY <1>1, <1>2, <1>3, <1>6, <1>7

\* Cancelling a job idles its tasks, may leave its PUTs to land late, and no more.
LEMMA CancelEffect ==
    ASSUME Typed, NEW j \in Job, NEW end \in Ended, Cancel(j, end)
    PROVE  /\ pc' \in [Job -> Stage] /\ task' \in [Job -> [Entry -> Task]]
           /\ pc'[j] = end /\ \A e \in Entry : task'[j][e] = Idle
           /\ \A k \in Job \ {j} : pc'[k] = pc[k] /\ task'[k] = task[k]
           /\ late' \subseteq late \cup Sending(j)
           /\ objects' = objects /\ manifests' = manifests
<1>1. task \in [Job -> [Entry -> Task]] /\ pc \in [Job -> Stage] /\ end \in Stage
  BY DEF Typed, Stage
<1>2. pc' = [pc EXCEPT ![j] = end] /\ task' = [task EXCEPT ![j] = [e \in Entry |-> Idle]]
  BY DEF Cancel
<1>3. [e \in Entry |-> Idle] \in [Entry -> Task]
  BY IdleTask
<1>4. pc' \in [Job -> Stage] /\ task' \in [Job -> [Entry -> Task]]
  BY <1>1, <1>2, <1>3
<1>5. pc'[j] = end /\ task'[j] = [e \in Entry |-> Idle]
  BY <1>1, <1>2
<1>6. \A k \in Job \ {j} : pc'[k] = pc[k] /\ task'[k] = task[k]
  BY <1>1, <1>2
<1>7. late' \subseteq late \cup Sending(j) /\ objects' = objects /\ manifests' = manifests
  BY DEF Cancel
<1>. QED
  BY <1>4, <1>5, <1>6, <1>7

\* A failed attempt is counted, or ends the job.
LEMMA CallFailsEffect ==
    ASSUME Typed, NEW j \in Job, NEW e \in Entry, CallFails(j, e)
    PROVE  /\ faults' \in Nat
           /\ \/ Cancel(j, "failed")
              \/ /\ task[j][e].n + 1 < MaxAttempts
                 /\ SetTask(j, e, Again(task[j][e]))
                 /\ UNCHANGED <<pc, bucket>>
<1>1. faults' \in Nat
  BY DEF CallFails, Faulty, Typed
<1>2. PICK fault \in Fault : retry_network(j, e, fault)
  BY DEF CallFails
<1>3. CASE Transient(fault) /\ task[j][e].n + 1 < MaxAttempts
  BY <1>1, <1>2, <1>3 DEF retry_network
<1>4. CASE ~(Transient(fault) /\ task[j][e].n + 1 < MaxAttempts)
  BY <1>1, <1>2, <1>4 DEF retry_network
<1>. QED
  BY <1>3, <1>4

\* A task that is tried again is a task, one attempt and one request further on.
LEMMA AgainTask ==
    ASSUME NEW t \in Task, t.n + 1 < MaxAttempts
    PROVE  /\ Again(t) \in Task
           /\ Again(t).st = t.st /\ Again(t).left = t.left /\ Again(t).got = t.got
           /\ Again(t).n = t.n + 1 /\ Again(t).sent = t.sent + 1
<1>1. t.n + 1 \in 0..(MaxAttempts - 1) /\ t.sent + 1 \in Nat
  BY ObjectStoreAssumptions DEF Task
<1>2. PICK u \in Task : u = Sent(t)
  BY <1>1 DEF Sent, Task
<1>3. u.st = t.st /\ u.n = t.n /\ u.left = t.left /\ u.got = t.got /\ u.sent = t.sent + 1
  BY <1>2 DEF Sent, Task
<1>4. Again(t) = [u EXCEPT !.n = u.n + 1]
  BY <1>2 DEF Again
<1>. QED
  BY <1>1, <1>3, <1>4 DEF Task

\* The next call of a task begins with no failed attempt.
LEMMA ThenTask ==
    ASSUME NEW t \in Task, NEW st \in {"idle", "wait", "pace", "done"} \cup Pushing \cup Fetching
    PROVE  /\ Then(t, st) \in Task
           /\ Then(t, st).st = st /\ Then(t, st).n = 0
           /\ Then(t, st).left = t.left /\ Then(t, st).got = t.got /\ Then(t, st).sent = t.sent
<1>1. 0 \in 0..(MaxAttempts - 1)
  BY ObjectStoreAssumptions
<1>2. PICK u \in Task : u = [t EXCEPT !.st = st]
  BY DEF Task
<1>3. u.st = st /\ u.left = t.left /\ u.got = t.got /\ u.sent = t.sent
  BY <1>2 DEF Task
<1>4. Then(t, st) = [u EXCEPT !.n = 0]
  BY <1>2 DEF Then, Task
<1>. QED
  BY <1>1, <1>3, <1>4 DEF Task

-----------------------------------------------------------------------------
(* What a step of one job leaves true of the bucket and of the others.     *)

\* Objects in place stay, and manifests too.
Grows ==
    /\ \A d \in Data : objects[d] = d => objects'[d] = d
    /\ manifests \subseteq manifests'

\* A step leaves a job alone.
Untouched(k) ==
    /\ pc'[k] = pc[k] /\ task'[k] = task[k] /\ kind'[k] = kind[k] /\ snap'[k] = snap[k]
    /\ dest'[k] = dest[k] /\ listed'[k] = listed[k]
    /\ unlisted'[k] = unlisted[k] /\ standing'[k] = standing[k]

\* A step leaves a task alone, and its job where it is as far as it matters to it.
TaskUntouched(k, f) ==
    /\ task'[k][f] = task[k][f] /\ kind'[k] = kind[k] /\ snap'[k] = snap[k]
    /\ dest'[k][f] = dest[k][f]
    /\ task[k][f].st \in {"idle", "done"} \/ pc'[k] = pc[k]

\* A complete snapshot stays complete.
LEMMA StaysComplete ==
    ASSUME Grows, NEW m \in Snapshot, Complete(m)
    PROVE  Complete(m)'
BY DEF Grows, Complete, Snapshot

\* A task that a step leaves alone keeps what it counts on.
LEMMA TaskFrame ==
    ASSUME Typed, Grows, NEW k \in Job, NEW f \in File, TaskInv(k, f), TaskUntouched(k, f)
    PROVE  TaskInv(k, f)'
<1>1. snap[k][f] \in Data
  BY DEF Typed, Snapshot
<1>2. SentInv(task[k][f])' <=> SentInv(task'[k][f])
  BY DEF SentInv
<1>3. objects[snap[k][f]] = snap[k][f] => objects'[snap[k][f]] = snap[k][f]
  BY <1>1 DEF Grows
<1>. QED
  BY <1>2, <1>3 DEF TaskInv, TaskUntouched

\* A job that a step leaves alone keeps what it counts on.
LEMMA JobFrame ==
    ASSUME Typed, Grows, NEW k \in Job, JobInv(k), Untouched(k)
    PROVE  JobInv(k)'
<1>1. \A f \in File : TaskInv(k, f)'
  BY TaskFrame DEF JobInv, Untouched, TaskUntouched
<1>2. (\A f \in File : objects[snap[k][f]] = snap[k][f]) =>
         \A f \in File : objects'[snap[k][f]] = snap[k][f]
  BY DEF Grows, Typed, Snapshot
<1>3. Complete(snap[k]) => (Complete(snap[k]))'
  BY <1>2 DEF Complete, Untouched
<1>4. pc'[k] = "commit" => kind'[k] = "push" /\ (Complete(snap[k]))'
  BY <1>3 DEF JobInv, Untouched
<1>5. ListInv(k)'
  BY DEF JobInv, ListInv, Untouched, Grows
<1>. QED
  BY <1>1, <1>4, <1>5 DEF JobInv, Untouched

\* The bucket keeps its invariant when a job is cancelled: what may still land is
\* an object that was verified, or a manifest whose objects are all there.
LEMMA CancelKeepsBucket ==
    ASSUME IInv, NEW j \in Job, late' \subseteq late \cup Sending(j),
           objects' = objects, manifests' = manifests
    PROVE  BucketInv'
<1>1. \A p \in Sending(j) : \/ p.key \in Data /\ p.bytes = p.key
                            \/ p.key \in Snapshot /\ Complete(p.key)
  <2>1. \A f \in File : task[j][f].st = "put" =>
            snap[j][f] \in Data /\ task[j][f].got = snap[j][f]
    BY DEF IInv, JobInv, TaskInv, Typed, Snapshot
  <2>2. pc[j] = "commit" => snap[j] \in Snapshot /\ Complete(snap[j])
    BY DEF IInv, JobInv, Typed
  <2>. QED
    BY <2>1, <2>2 DEF Sending
<1>2. \A p \in late' : \/ p.key \in Data /\ p.bytes = p.key
                       \/ p.key \in Snapshot /\ Complete(p.key)
  BY <1>1 DEF IInv, BucketInv
<1>. QED
  BY <1>2 DEF IInv, BucketInv, Complete

\* A cancelled job counts on nothing any more.
LEMMA CancelKeepsJob ==
    ASSUME IInv, NEW j \in Job, NEW end \in Ended, Cancel(j, end),
           kind' = kind, snap' = snap, dest' = dest, UNCHANGED listing
    PROVE  JobInv(j)'
<1>1. /\ pc'[j] = end /\ \A e \in Entry : task'[j][e] = Idle
      /\ objects' = objects /\ manifests' = manifests
  BY CancelEffect DEF IInv
<1>2. Idle.st = "idle" /\ Idle.sent = 0
  BY DEF Idle
<1>3. \A f \in File : task'[j][f].st = "idle" /\ task'[j][f].sent = 0
  BY <1>1, <1>2 DEF Entry
<1>4. \A f \in File : TaskInv(j, f)'
  BY <1>3, ProductPositive DEF TaskInv, SentInv, Pushing, Fetching
<1>5. pc'[j] \notin {"new", "start", "objects", "commit"}
  BY <1>1 DEF Ended
<1>6. ListInv(j)'
  BY <1>1 DEF IInv, JobInv, ListInv, listing
<1>. QED
  BY <1>4, <1>5, <1>6 DEF JobInv

-----------------------------------------------------------------------------
(* Type correctness of the steps, and the three ways in which most of them *)
(* move a job: a task moves, the job is cancelled, or a call fails.        *)

\* A step that types, keeps the bucket and moves one job only.
LEMMA OneJobMoves ==
    ASSUME IInv, Typed', BucketInv', Grows, NEW j \in Job, JobInv(j)',
           \A k \in Job \ {j} : Untouched(k)
    PROVE  IInv'
<1>1. \A k \in Job \ {j} : JobInv(k)'
  BY JobFrame DEF IInv
<1>. QED
  BY <1>1 DEF IInv

\* A step that moves one task of a job.
LEMMA TaskMoves ==
    ASSUME IInv, NEW j \in Job, NEW e \in Entry, NEW t \in Task, SetTask(j, e, t),
           UNCHANGED <<tree, config, pc, listing>>, faults' \in Nat,
           objects' \in [Data -> Data \cup {None}], manifests' \subseteq Snapshot,
           dest' \in [Job -> [File -> Data \cup {None, Torn}]],
           BucketInv', Grows,
           \A k \in Job \ {j} : dest'[k] = dest[k],
           \A g \in File \ {e} : dest'[j][g] = dest[j][g],
           e \in File => pc[j] = "objects" /\ TaskInv(j, e)'
    PROVE  IInv'
<1>1. /\ task' \in [Job -> [Entry -> Task]]
      /\ \A x \in Entry \ {e} : task'[j][x] = task[j][x]
      /\ \A k \in Job \ {j} : task'[k] = task[k]
  BY SetTaskEffect DEF IInv
<1>2. Typed'
  BY <1>1 DEF IInv, Typed, tree, config, listing
<1>3. \A k \in Job \ {j} : Untouched(k)
  BY <1>1 DEF Untouched, config, listing
<1>4. \A g \in File \ {e} : TaskUntouched(j, g)
  BY <1>1 DEF TaskUntouched, config, Entry
<1>5. \A g \in File : TaskInv(j, g)'
  BY <1>4, TaskFrame DEF IInv, JobInv
<1>6. pc[j] \in {"new", "start"} => \A f \in File : task'[j][f].st = "idle"
  BY <1>1 DEF IInv, JobInv, Entry
<1>7. Complete(snap[j]) => (Complete(snap[j]))'
  <2>1. (\A f \in File : objects[snap[j][f]] = snap[j][f]) =>
           \A f \in File : objects'[snap[j][f]] = snap[j][f]
    BY DEF Grows, IInv, Typed, Snapshot
  <2>. QED
    BY <2>1 DEF Complete, config
<1>8. JobInv(j)'
  BY <1>5, <1>6, <1>7 DEF IInv, JobInv, ListInv, config, listing, Grows
<1>. QED
  BY <1>2, <1>3, <1>8, OneJobMoves

\* A step that cancels a job.
LEMMA JobCancelled ==
    ASSUME IInv, NEW j \in Job, NEW end \in Ended, Cancel(j, end),
           UNCHANGED <<tree, config, dest, listing>>, faults' \in Nat
    PROVE  IInv'
<1>1. /\ pc' \in [Job -> Stage] /\ task' \in [Job -> [Entry -> Task]]
      /\ \A k \in Job \ {j} : pc'[k] = pc[k] /\ task'[k] = task[k]
      /\ late' \subseteq late \cup Sending(j)
      /\ objects' = objects /\ manifests' = manifests
  BY CancelEffect DEF IInv
<1>2. Typed'
  BY <1>1 DEF IInv, Typed, tree, config, listing
<1>3. BucketInv'
  BY <1>1, CancelKeepsBucket
<1>4. Grows
  BY <1>1 DEF Grows
<1>5. JobInv(j)'
  BY CancelKeepsJob DEF config, listing
<1>6. \A k \in Job \ {j} : Untouched(k)
  BY <1>1 DEF Untouched, config, listing
<1>. QED
  BY <1>2, <1>3, <1>4, <1>5, <1>6, OneJobMoves

\* A bucket that does not change keeps its invariant.
LEMMA BucketKept ==
    ASSUME IInv, UNCHANGED bucket
    PROVE  BucketInv' /\ Grows /\ objects' \in [Data -> Data \cup {None}] /\ manifests' \subseteq Snapshot
BY DEF IInv, BucketInv, Complete, Grows, bucket, Typed

\* A task that is tried again keeps what it counts on.
LEMMA AgainKeepsTask ==
    ASSUME IInv, NEW j \in Job, NEW f \in File, task[j][f].st \in {"head", "put", "get"},
           task[j][f].n + 1 < MaxAttempts, task'[j][f] = Again(task[j][f]),
           UNCHANGED <<config, pc>>, objects' = objects
    PROVE  TaskInv(j, f)'
<1>1. task[j][f] \in Task
  BY DEF IInv, Typed, Entry
<1>2. PICK t \in Task : t = task[j][f]
  BY <1>1
<1>3. PICK u \in Task : u = Again(t)
  BY <1>2, AgainTask
<1>4. u.st = t.st /\ u.left = t.left /\ u.got = t.got /\ u.n = t.n + 1 /\ u.sent = t.sent + 1
  BY <1>2, <1>3, AgainTask
<1>5. TaskInv(j, f)
  BY DEF IInv, JobInv
<1>6. kind[j] = "fetch" => SentInv(u)
  <2>. SUFFICES ASSUME kind[j] = "fetch"
                PROVE  SentInv(u)
    OBVIOUS
  <2>1. t.st = "get" /\ SentInv(t)
    BY <1>2, <1>5 DEF TaskInv, Pushing
  <2>2. t.left >= 1 /\ t.sent <= (MAX_FETCH_RETRIES - t.left) * MaxAttempts + t.n
    BY <2>1 DEF SentInv
  <2>3. (MAX_FETCH_RETRIES - t.left) * MaxAttempts \in Int /\ t.n \in Int /\ t.sent \in Int
    BY ObjectStoreAssumptions DEF Task
  <2>4. u.sent <= (MAX_FETCH_RETRIES - u.left) * MaxAttempts + u.n
    BY <1>4, <2>2, <2>3
  <2>. QED
    BY <1>4, <2>1, <2>2, <2>4 DEF SentInv
<1>7. task'[j][f] = u /\ kind' = kind /\ snap' = snap /\ pc' = pc
  BY <1>2, <1>3 DEF config
<1>. QED
  BY <1>2, <1>4, <1>5, <1>6, <1>7 DEF TaskInv

\* A call of a task fails.
LEMMA TaskCallFails ==
    ASSUME IInv, NEW j \in Job, NEW e \in Entry, CallFails(j, e),
           e = Root \/ task[j][e].st \in {"head", "put", "get"},
           UNCHANGED <<tree, config, dest, listing>>
    PROVE  IInv'
<1>1. Typed /\ task[j][e] \in Task
  BY DEF IInv, Typed
<1>2. faults' \in Nat
  BY <1>1, CallFailsEffect
<1>3. CASE Cancel(j, "failed")
  BY <1>2, <1>3, JobCancelled DEF Ended
<1>4. CASE /\ task[j][e].n + 1 < MaxAttempts
           /\ SetTask(j, e, Again(task[j][e]))
           /\ UNCHANGED <<pc, bucket>>
  <2>1. PICK t \in Task : t = Again(task[j][e])
    BY <1>1, <1>4, AgainTask
  <2>2. SetTask(j, e, t) /\ task'[j][e] = t
    BY <1>1, <1>4, <2>1, SetTaskEffect
  <2>3. objects' = objects
    BY <1>4 DEF bucket
  <2>4. e \in File => TaskInv(j, e)'
    BY <1>4, <2>1, <2>2, <2>3, AgainKeepsTask, ObjectStoreAssumptions
  <2>5. e \in File => pc[j] = "objects"
    BY ObjectStoreAssumptions DEF IInv, JobInv, TaskInv
  <2>6. dest' \in [Job -> [File -> Data \cup {None, Torn}]]
    BY <1>1 DEF Typed
  <2>. QED
    BY <1>2, <1>4, <2>2, <2>4, <2>5, <2>6, BucketKept, TaskMoves
<1>. QED
  BY <1>1, <1>3, <1>4, CallFailsEffect

-----------------------------------------------------------------------------
(* The invariant, action by action.                                        *)

LEMMA InitInvariant == Init => IInv
<1>. SUFFICES ASSUME Init
              PROVE  IInv
  OBVIOUS
<1>1. PICK mix \in Mixes : kind = mix.kind /\ faults = mix.faults
  BY DEF Init
<1>2. kind \in [Job -> {"push", "fetch", "list", "none"}] /\ faults \in Nat
  BY <1>1, ObjectStoreAssumptions
<1>3. source \in Snapshot /\ edits \in 0..MaxEdits
  BY ObjectStoreAssumptions DEF Init, Snapshot
<1>4. objects \in [Data -> Data \cup {None}] /\ \A d \in Data : objects[d] \in {d, None}
  BY DEF Init
<1>5. manifests \subseteq Snapshot /\ \A m \in manifests : Complete(m)
  BY <1>3 DEF Init, Complete, Snapshot
<1>6. task = [j \in Job |-> [e \in Entry |-> Idle]]
  BY DEF Init
<1>7. /\ snap = [j \in Job |-> source] /\ pc = [j \in Job |-> "new"]
      /\ dest = [j \in Job |-> [f \in File |-> None]]
      /\ listed = [j \in Job |-> {}] /\ unlisted = [j \in Job |-> {}]
      /\ standing = [j \in Job |-> {}]
  BY DEF Init
<1>8. Typed
  BY <1>2, <1>3, <1>4, <1>5, <1>6, <1>7, IdleTask DEF Typed, Stage
<1>9. BucketInv
  BY <1>4, <1>5 DEF BucketInv, Init
<1>10. Idle.st = "idle" /\ Idle.sent = 0
  BY DEF Idle
<1>11. \A j \in Job, f \in File : TaskInv(j, f)
  BY <1>6, <1>10, ProductPositive DEF TaskInv, SentInv, Pushing, Fetching, Entry
<1>12. \A j \in Job : JobInv(j)
  BY <1>6, <1>7, <1>10, <1>11 DEF JobInv, ListInv, Entry
<1>. QED
  BY <1>8, <1>9, <1>12 DEF IInv

LEMMA BeginKeeps ==
    ASSUME IInv, NEW j \in Job, Begin(j)
    PROVE  IInv'
<1>1. /\ pc[j] = "new" /\ pc' = [pc EXCEPT ![j] = "start"]
      /\ UNCHANGED <<tree, bucket, faults, kind, task, listed>>
  BY DEF Begin
<1>2. /\ snap' \in [Job -> Snapshot]
      /\ dest' \in [Job -> [File -> Data \cup {None, Torn}]]
      /\ unlisted' \in [Job -> SUBSET Snapshot] /\ standing' \in [Job -> SUBSET Snapshot]
      /\ \A k \in Job \ {j} : snap'[k] = snap[k] /\ dest'[k] = dest[k]
      /\ \A k \in Job \ {j} : unlisted'[k] = unlisted[k] /\ standing'[k] = standing[k]
      /\ standing'[j] \subseteq manifests /\ standing'[j] \subseteq listed[j] \cup unlisted'[j]
  <2>. USE DEF IInv, Typed
  <2>0. ListInv(j)
    BY DEF JobInv
  <2>1. CASE kind[j] = "push"
    BY <2>0, <2>1 DEF Begin, ListInv
  <2>2. CASE kind[j] = "fetch"
    <3>1. PICK s \in manifests \cup {source}, old \in [File -> {None, Torn}] :
             snap' = [snap EXCEPT ![j] = s] /\ dest' = [dest EXCEPT ![j] = old]
      BY <2>2 DEF Begin
    <3>2. /\ s \in Snapshot /\ old \in [File -> Data \cup {None, Torn}]
          /\ unlisted' = unlisted /\ standing' = standing
      BY <2>2 DEF Begin
    <3>. QED
      BY <2>0, <3>1, <3>2 DEF ListInv
  <2>3. CASE kind[j] = "list"
    <3>1. /\ unlisted' = [unlisted EXCEPT ![j] = Snapshot] /\ snap' = snap /\ dest' = dest
          /\ standing' = [standing EXCEPT ![j] = manifests]
      BY <2>3 DEF Begin
    <3>. QED
      BY <3>1
  <2>. QED
    BY <2>1, <2>2, <2>3 DEF Begin
<1>3. /\ pc' \in [Job -> Stage] /\ pc'[j] = "start"
      /\ \A k \in Job \ {j} : pc'[k] = pc[k]
  BY <1>1 DEF IInv, Typed, Stage
<1>4. Typed'
  BY <1>1, <1>2, <1>3 DEF IInv, Typed, tree, bucket
<1>5. \A f \in File : TaskInv(j, f)'
  BY <1>1, <1>3 DEF IInv, JobInv, TaskInv, SentInv, Pushing, Fetching
<1>6. JobInv(j)'
  BY <1>1, <1>2, <1>3, <1>5 DEF IInv, JobInv, ListInv, bucket
<1>7. \A k \in Job \ {j} : Untouched(k)
  BY <1>1, <1>2, <1>3 DEF Untouched
<1>. QED
  BY <1>1, <1>4, <1>6, <1>7, BucketKept, OneJobMoves

\* A step that moves no task and leaves the bucket alone but for manifests.
LEMMA StageMoves ==
    ASSUME IInv, NEW j \in Job, NEW stage \in Stage, Goto(j, stage),
           UNCHANGED <<tree, config, task, dest, listing, faults>>,
           BucketInv', Grows, objects' = objects, manifests' \subseteq Snapshot,
           \A f \in File : task[j][f].st \in {"idle", "done"},
           stage \notin {"new", "start", "objects"},
           stage = "commit" => kind[j] = "push" /\ Complete(snap[j])
    PROVE  IInv'
<1>1. /\ pc' \in [Job -> Stage] /\ pc'[j] = stage
      /\ \A k \in Job \ {j} : pc'[k] = pc[k]
  BY DEF IInv, Typed, Goto
<1>2. Typed'
  BY <1>1 DEF IInv, Typed, tree, config, listing
<1>3. \A f \in File : TaskInv(j, f)'
  BY TaskFrame DEF IInv, JobInv, TaskUntouched, config
<1>4. (Complete(snap[j]))' <=> Complete(snap[j])
  BY DEF Complete, config
<1>5. JobInv(j)'
  BY <1>1, <1>3, <1>4 DEF IInv, JobInv, ListInv, config, listing, Grows
<1>6. \A k \in Job \ {j} : Untouched(k)
  BY <1>1 DEF Untouched, config, listing
<1>. QED
  BY <1>2, <1>5, <1>6, OneJobMoves

\* A step that opens the objects stage, each task fresh or already done.
LEMMA StageOpens ==
    ASSUME IInv, NEW j \in Job, Goto(j, "objects"), kind[j] \in {"push", "fetch"},
           NEW ts \in [Entry -> Task], task' = [task EXCEPT ![j] = ts],
           \A f \in File : \/ ts[f] = Fresh
                           \/ /\ ts[f] = [Fresh EXCEPT !.st = "done"]
                              /\ kind[j] = "fetch" /\ dest[j][f] = snap[j][f],
           UNCHANGED <<tree, bucket, config, dest, listing, faults>>
    PROVE  IInv'
<1>1. /\ pc' \in [Job -> Stage] /\ pc'[j] = "objects"
      /\ \A k \in Job \ {j} : pc'[k] = pc[k]
  BY DEF IInv, Typed, Goto, Stage
<1>2. /\ task' \in [Job -> [Entry -> Task]] /\ task'[j] = ts
      /\ \A k \in Job \ {j} : task'[k] = task[k]
  BY DEF IInv, Typed
<1>3. Typed'
  BY <1>1, <1>2 DEF IInv, Typed, tree, bucket, config, listing
<1>4. Fresh.st = "wait" /\ Fresh.left = MAX_FETCH_RETRIES /\ Fresh.n = 0 /\ Fresh.sent = 0
  BY DEF Fresh, Idle
<1>5. [Fresh EXCEPT !.st = "done"].st = "done" /\ [Fresh EXCEPT !.st = "done"].sent = 0
  BY DEF Fresh, Idle
<1>6. SentInv(Fresh) /\ SentInv([Fresh EXCEPT !.st = "done"])
  <2>1. (MAX_FETCH_RETRIES - MAX_FETCH_RETRIES) * MaxAttempts = 0 /\ MAX_FETCH_RETRIES >= 1
    BY ObjectStoreAssumptions
  <2>. QED
    BY <1>4, <1>5, <2>1, ProductPositive DEF SentInv
<1>7. \A f \in File : TaskInv(j, f)'
  <2>. SUFFICES ASSUME NEW f \in File
                PROVE  TaskInv(j, f)'
    OBVIOUS
  <2>1. CASE ts[f] = Fresh
    BY <1>1, <1>2, <1>4, <1>6, <2>1 DEF TaskInv, Pushing, Fetching
  <2>2. CASE /\ ts[f] = [Fresh EXCEPT !.st = "done"]
             /\ kind[j] = "fetch" /\ dest[j][f] = snap[j][f]
    BY <1>1, <1>2, <1>5, <1>6, <2>2 DEF TaskInv, Pushing, Fetching, config
  <2>. QED
    BY <2>1, <2>2
<1>8. JobInv(j)'
  BY <1>1, <1>7 DEF IInv, JobInv, ListInv, config, listing, bucket
<1>9. \A k \in Job \ {j} : Untouched(k)
  BY <1>1, <1>2 DEF Untouched, config, listing
<1>. QED
  BY <1>3, <1>8, <1>9, BucketKept, OneJobMoves

LEMMA ProbeManifestKeeps ==
    ASSUME IInv, NEW j \in Job, ProbeManifest(j)
    PROVE  IInv'
<1>1. Root \in Entry /\ (CallFails(j, Root) => IInv')
  BY TaskCallFails DEF ProbeManifest, Entry
<1>2. CASE ~CallFails(j, Root) /\ snap[j] \in manifests
  <2>1. Goto(j, "ok") /\ UNCHANGED <<tree, bucket, config, task, dest, listing, faults>>
    BY <1>2 DEF ProbeManifest
  <2>2. \A f \in File : task[j][f].st \in {"idle", "done"}
    BY DEF ProbeManifest, IInv, JobInv
  <2>. QED
    BY <2>1, <2>2, BucketKept, StageMoves DEF Stage, Ended, bucket
<1>3. CASE ~CallFails(j, Root) /\ snap[j] \notin manifests
  <2>1. PICK ts \in [Entry -> Task] : ts = [e \in Entry |-> IF e \in File THEN Fresh ELSE Idle]
    BY IdleTask
  <2>2. \A f \in File : ts[f] = Fresh
    BY <2>1 DEF Entry
  <2>3. Goto(j, "objects") /\ task' = [task EXCEPT ![j] = ts] /\ kind[j] = "push"
    BY <1>3, <2>1 DEF ProbeManifest
  <2>4. UNCHANGED <<tree, bucket, config, dest, listing, faults>>
    BY <1>3 DEF ProbeManifest
  <2>. QED
    BY <2>2, <2>3, <2>4, StageOpens
<1>. QED
  BY <1>1, <1>2, <1>3

LEMMA StartTaskKeeps ==
    ASSUME IInv, NEW j \in Job, NEW f \in File, StartTask(j, f)
    PROVE  IInv'
<1>1. PICK t \in Task : t = task[j][f]
  BY DEF IInv, Typed, Entry
<1>2. PICK st \in {"head", "pace"} : st = IF kind[j] = "push" THEN "head" ELSE "pace"
  OBVIOUS
<1>3. PICK u \in Task : u = [t EXCEPT !.st = st]
  BY DEF Task, Pushing, Fetching
<1>4. u.st = st /\ u.n = t.n /\ u.left = t.left /\ u.got = t.got /\ u.sent = t.sent
  BY <1>3 DEF Task
<1>5. SetTask(j, f, u) /\ t.st = "wait" /\ pc[j] = "objects"
  BY <1>1, <1>2, <1>3 DEF StartTask
<1>6. UNCHANGED <<tree, bucket, faults, config, pc, dest, listing>>
  BY DEF StartTask
<1>7. TaskInv(j, f) /\ kind[j] \in {"push", "fetch"}
  BY <1>5 DEF IInv, JobInv
<1>8. task'[j][f] = u /\ Typed
  BY <1>5, SetTaskEffect DEF IInv, Entry
<1>9. kind[j] = "fetch" => SentInv(u)
  BY <1>1, <1>2, <1>4, <1>5, <1>7 DEF TaskInv, SentInv
<1>10. TaskInv(j, f)'
  BY <1>2, <1>4, <1>5, <1>6, <1>7, <1>8, <1>9 DEF TaskInv, Pushing, Fetching, config
<1>11. f \in Entry
  BY DEF Entry
<1>. QED
  BY <1>5, <1>6, <1>8, <1>10, <1>11, BucketKept, TaskMoves DEF Typed

\* A step that moves a task on to another call, on a bucket and a destination as they are.
LEMMA TaskGoesOn ==
    ASSUME IInv, NEW j \in Job, NEW f \in File,
           NEW st \in {"pace", "done"} \cup Pushing \cup Fetching, NEW t \in Task,
           t.st = st, t.sent = task[j][f].sent, SetTask(j, f, t),
           task[j][f].st \in Pushing \cup Fetching,
           st \in Pushing => kind[j] = "push",
           st \in Fetching \ {"get"} => kind[j] = "fetch",
           st \in {"put", "write", "rename"} => t.got = snap[j][f],
           st = "pace" => kind[j] = "push" /\ t.got = snap[j][f],
           st = "done" => kind[j] = "push" /\ objects[snap[j][f]] = snap[j][f],
           st # "get",
           UNCHANGED <<tree, bucket, faults, config, pc, dest, listing>>
    PROVE  IInv'
<1>1. TaskInv(j, f) /\ task[j][f] \in Task /\ Typed /\ f \in Entry
  BY DEF IInv, JobInv, Typed, Entry
<1>2. task'[j][f] = t /\ pc[j] = "objects"
  BY <1>1, SetTaskEffect DEF TaskInv, Pushing, Fetching
<1>3. kind[j] = "fetch" => SentInv(t)
  <2>. SUFFICES ASSUME kind[j] = "fetch"
                PROVE  SentInv(t)
    OBVIOUS
  <2>1. PICK u \in Task : u = task[j][f]
    BY <1>1
  <2>2. SentInv(u) /\ t.sent = u.sent /\ t.st \notin {"wait", "pace", "get"} /\ u.st \notin {"wait", "pace"}
    BY <1>1, <2>1 DEF TaskInv, Pushing, Fetching
  <2>3. u.st = "get" => u.left \in 1..MAX_FETCH_RETRIES
    BY <2>2 DEF SentInv, Task
  <2>4. u.n \in 0..(MaxAttempts - 1) /\ u.sent \in Nat
    BY DEF Task
  <2>5. u.sent < MaxAttempts * MAX_FETCH_RETRIES
    BY <2>2, <2>3, <2>4, WithinProduct DEF SentInv
  <2>. QED
    BY <2>2, <2>5 DEF SentInv
<1>4. TaskInv(j, f)'
  BY <1>1, <1>2, <1>3 DEF TaskInv, Pushing, Fetching, config, bucket
<1>. QED
  BY <1>1, <1>2, <1>4, BucketKept, TaskMoves DEF Typed

LEMMA HeadObjectKeeps ==
    ASSUME IInv, NEW j \in Job, NEW f \in File, HeadObject(j, f)
    PROVE  IInv'
<1>1. task[j][f].st = "head" /\ f \in Entry /\ UNCHANGED <<tree, config, dest, listing>>
  BY DEF HeadObject, Entry
<1>2. CASE CallFails(j, f)
  BY <1>1, <1>2, TaskCallFails
<1>3. CASE ~CallFails(j, f)
  <2>1. PICK st \in {"read", "done"} : st = IF objects[snap[j][f]] = None THEN "read" ELSE "done"
    OBVIOUS
  <2>2. PICK t \in Task : t = task[j][f]
    BY <1>1 DEF IInv, Typed
  <2>3. PICK u \in Task : u = Then(t, st)
    BY ThenTask DEF Pushing
  <2>4. u.st = st /\ u.sent = t.sent
    BY <2>3, ThenTask DEF Pushing
  <2>5. SetTask(j, f, u) /\ UNCHANGED <<pc, bucket, faults>>
    BY <1>3, <2>1, <2>2, <2>3 DEF HeadObject
  <2>6. kind[j] = "push"
    BY <1>1 DEF IInv, JobInv, TaskInv, Pushing
  <2>7. st = "done" => objects[snap[j][f]] = snap[j][f]
    BY <2>1 DEF IInv, BucketInv, Typed, Snapshot
  <2>. QED
    BY <1>1, <2>2, <2>4, <2>5, <2>6, <2>7, TaskGoesOn DEF Pushing, Fetching
<1>. QED
  BY <1>2, <1>3

LEMMA read_verifiedKeeps ==
    ASSUME IInv, NEW j \in Job, NEW f \in File, read_verified(j, f)
    PROVE  IInv'
<1>1. /\ task[j][f].st = "read" /\ f \in Entry /\ UNCHANGED <<tree, faults, config, dest, listing>>
      /\ faults' \in Nat
  BY DEF read_verified, Entry, IInv, Typed
<1>2. CASE source[f] # snap[j][f]
  BY <1>1, <1>2, JobCancelled DEF read_verified, Ended
<1>3. CASE source[f] = snap[j][f]
  <2>1. PICK t \in Task : t = task[j][f]
    BY <1>1 DEF IInv, Typed
  <2>2. PICK u \in Task : u = Then(t, "pace")
    BY ThenTask
  <2>3. u.st = "pace" /\ u.sent = t.sent
    BY <2>2, ThenTask
  <2>4. source[f] \in Data
    BY DEF IInv, Typed, Snapshot
  <2>5. PICK v \in Task : v = [u EXCEPT !.got = source[f]]
    BY <2>4 DEF Task
  <2>6. v.st = "pace" /\ v.sent = t.sent /\ v.got = snap[j][f]
    BY <1>3, <2>3, <2>5 DEF Task
  <2>7. SetTask(j, f, v) /\ UNCHANGED <<pc, bucket>>
    BY <1>3, <2>1, <2>2, <2>5 DEF read_verified
  <2>8. kind[j] = "push"
    BY <1>1 DEF IInv, JobInv, TaskInv, Pushing
  <2>. QED
    BY <1>1, <2>1, <2>6, <2>7, <2>8, TaskGoesOn DEF Pushing, Fetching
<1>. QED
  BY <1>2, <1>3

LEMMA acquireKeeps ==
    ASSUME IInv, NEW j \in Job, NEW f \in File, acquire(j, f)
    PROVE  IInv'
<1>1. PICK t \in Task : t = task[j][f]
  BY DEF IInv, Typed, Entry
<1>2. PICK st \in {"put", "get"} : st = IF kind[j] = "push" THEN "put" ELSE "get"
  OBVIOUS
<1>3. PICK u \in Task : u = [t EXCEPT !.st = st]
  BY DEF Task, Pushing, Fetching
<1>4. u.st = st /\ u.n = t.n /\ u.left = t.left /\ u.got = t.got /\ u.sent = t.sent
  BY <1>3 DEF Task
<1>5. SetTask(j, f, u) /\ t.st = "pace"
  BY <1>1, <1>2, <1>3 DEF acquire
<1>6. UNCHANGED <<tree, bucket, faults, config, pc, dest, listing>>
  BY DEF acquire
<1>7. TaskInv(j, f) /\ kind[j] \in {"push", "fetch"} /\ pc[j] = "objects"
  BY <1>1, <1>5 DEF IInv, JobInv, TaskInv
<1>8. task'[j][f] = u /\ Typed
  BY <1>5, SetTaskEffect DEF IInv, Entry
<1>9. kind[j] = "fetch" => SentInv(u)
  BY <1>1, <1>2, <1>4, <1>5, <1>7 DEF TaskInv, SentInv
<1>10. TaskInv(j, f)'
  BY <1>1, <1>2, <1>4, <1>5, <1>6, <1>7, <1>8, <1>9 DEF TaskInv, Pushing, Fetching, config
<1>11. f \in Entry
  BY DEF Entry
<1>. QED
  BY <1>5, <1>6, <1>7, <1>8, <1>10, <1>11, BucketKept, TaskMoves DEF Typed

LEMMA put_bytesKeeps ==
    ASSUME IInv, NEW j \in Job, NEW f \in File, put_bytes(j, f)
    PROVE  IInv'
<1>1. /\ task[j][f].st = "put" /\ f \in Entry /\ UNCHANGED <<tree, config, dest, listing>>
      /\ Typed /\ faults \in Nat
  BY DEF put_bytes, Entry, IInv, Typed
<1>2. kind[j] = "push" /\ task[j][f].got = snap[j][f] /\ pc[j] = "objects"
  BY <1>1 DEF IInv, JobInv, TaskInv, Pushing
<1>3. PICK d \in Data : d = snap[j][f]
  BY <1>1 DEF Typed, Snapshot
<1>4. PICK t \in Task : t = task[j][f]
  BY <1>1 DEF Typed
<1>5. CASE CallFails(j, f)
  BY <1>1, <1>5, TaskCallFails
<1>6. CASE /\ objects' = [objects EXCEPT ![snap[j][f]] = task[j][f].got]
           /\ SetTask(j, f, Then(task[j][f], "done"))
           /\ UNCHANGED <<pc, manifests, late, faults>>
  <2>1. PICK u \in Task : u = Then(t, "done")
    BY ThenTask
  <2>2. u.st = "done" /\ SetTask(j, f, u)
    BY <1>4, <1>6, <2>1, ThenTask
  <2>3. task'[j][f] = u
    BY <1>1, <2>2, SetTaskEffect
  <2>4. objects' = [objects EXCEPT ![d] = d]
    BY <1>2, <1>3, <1>6
  <2>5. /\ objects' \in [Data -> Data \cup {None}] /\ objects'[d] = d
        /\ \A x \in Data : objects'[x] \in {x, None}
        /\ \A x \in Data : objects[x] = x => objects'[x] = x
    BY <1>1, <2>4 DEF Typed, IInv, BucketInv
  <2>6. Grows /\ manifests' \subseteq Snapshot
    BY <1>1, <1>6, <2>5 DEF Grows, Typed
  <2>7. BucketInv'
    <3>1. \A m \in Snapshot : Complete(m) => Complete(m)'
      BY <2>6, StaysComplete
    <3>2. \A m \in manifests : Complete(m)'
      BY <1>1, <3>1 DEF IInv, BucketInv, Typed
    <3>3. \A p \in late : \/ p.key \in Data /\ p.bytes = p.key
                          \/ p.key \in Snapshot /\ Complete(p.key)'
      BY <3>1 DEF IInv, BucketInv
    <3>. QED
      BY <1>6, <2>5, <3>2, <3>3 DEF BucketInv, Complete
  <2>8. TaskInv(j, f)'
    BY <1>1, <1>2, <1>3, <1>6, <2>2, <2>3, <2>5 DEF TaskInv, Pushing, Fetching, config
  <2>. QED
    BY <1>1, <1>2, <1>6, <2>2, <2>5, <2>6, <2>7, <2>8, TaskMoves DEF Typed
<1>7. CASE /\ Faulty
           /\ Transient("timeout") /\ task[j][f].n + 1 < MaxAttempts
           /\ SetTask(j, f, Again(task[j][f]))
           /\ late' = late \cup {[key |-> snap[j][f], bytes |-> task[j][f].got]}
           /\ UNCHANGED <<pc, objects, manifests>>
  <2>1. PICK u \in Task : u = Again(t)
    BY <1>4, <1>7, AgainTask
  <2>2. SetTask(j, f, u) /\ task'[j][f] = Again(task[j][f])
    BY <1>1, <1>4, <1>7, <2>1, SetTaskEffect
  <2>3. faults' \in Nat
    BY <1>1, <1>7 DEF Faulty
  <2>4. BucketInv' /\ Grows
    BY <1>2, <1>3, <1>7 DEF IInv, BucketInv, Complete, Grows
  <2>5. TaskInv(j, f)'
    BY <1>1, <1>7, <2>2, AgainKeepsTask
  <2>. QED
    BY <1>1, <1>2, <1>7, <2>2, <2>3, <2>4, <2>5, TaskMoves DEF Typed
<1>. QED
  BY <1>5, <1>6, <1>7 DEF put_bytes

LEMMA EndPassKeeps ==
    ASSUME IInv, NEW j \in Job, EndPass(j)
    PROVE  IInv'
<1>1. PICK stage \in {"commit", "ok"} : stage = IF kind[j] = "push" THEN "commit" ELSE "ok"
  OBVIOUS
<1>2. /\ Goto(j, stage) /\ \A f \in File : task[j][f].st = "done"
      /\ UNCHANGED <<tree, bucket, faults, config, task, dest, listing>>
  BY <1>1 DEF EndPass
<1>3. stage = "commit" => kind[j] = "push" /\ Complete(snap[j])
  BY <1>1, <1>2 DEF IInv, JobInv, TaskInv, Complete
<1>4. stage \in Stage \ {"new", "start", "objects"}
  BY <1>1 DEF Stage, Ended
<1>. QED
  BY <1>2, <1>3, <1>4, BucketKept, StageMoves DEF bucket

LEMMA write_manifestKeeps ==
    ASSUME IInv, NEW j \in Job, write_manifest(j)
    PROVE  IInv'
<1>1. pc[j] = "commit" /\ Root \in Entry /\ UNCHANGED <<tree, config, dest, listing>>
  BY DEF write_manifest, Entry
<1>2. CASE CallFails(j, Root)
  BY <1>1, <1>2, TaskCallFails
<1>3. CASE /\ manifests' = manifests \cup {snap[j]}
           /\ Goto(j, "ok")
           /\ UNCHANGED <<task, objects, late, faults>>
  <2>1. snap[j] \in Snapshot /\ Complete(snap[j])
    BY <1>1 DEF IInv, JobInv, Typed
  <2>2. BucketInv' /\ Grows /\ manifests' \subseteq Snapshot
    BY <1>3, <2>1 DEF IInv, BucketInv, Complete, Grows, Typed
  <2>3. \A f \in File : task[j][f].st \in {"idle", "done"}
    BY <1>1 DEF IInv, JobInv, TaskInv
  <2>. QED
    BY <1>1, <1>3, <2>2, <2>3, StageMoves DEF Stage, Ended
<1>. QED
  BY <1>2, <1>3 DEF write_manifest

\* A step that leaves every job alone.
LEMMA NoJobMoves ==
    ASSUME IInv, Typed', BucketInv', Grows, \A k \in Job : Untouched(k)
    PROVE  IInv'
BY JobFrame DEF IInv

LEMMA LateLandsKeeps ==
    ASSUME IInv, LateLands
    PROVE  IInv'
<1>1. PICK p \in late :
         /\ late' = late \ {p}
         /\ IF p.key \in Snapshot
            THEN manifests' = manifests \cup {p.key} /\ UNCHANGED objects
            ELSE objects' = [objects EXCEPT ![p.key] = p.bytes] /\ UNCHANGED manifests
  BY DEF LateLands
<1>2. UNCHANGED <<tree, faults, config, pc, task, dest, listing>>
  BY DEF LateLands
<1>3. \A k \in Job : Untouched(k)
  BY <1>2 DEF Untouched, config, listing
<1>4. CASE p.key \in Snapshot
  <2>1. Complete(p.key)
    BY <1>4, ObjectStoreAssumptions DEF IInv, BucketInv, Snapshot
  <2>2. BucketInv' /\ Grows
    BY <1>1, <1>4, <2>1 DEF IInv, BucketInv, Complete, Grows
  <2>3. Typed'
    BY <1>1, <1>2, <1>4 DEF IInv, Typed, tree, config, listing
  <2>. QED
    BY <1>3, <2>2, <2>3, NoJobMoves
<1>5. CASE p.key \notin Snapshot
  <2>1. PICK d \in Data : p.key = d /\ p.bytes = d
    BY <1>1, <1>5 DEF IInv, BucketInv
  <2>2. /\ objects' \in [Data -> Data \cup {None}] /\ manifests' = manifests
        /\ \A x \in Data : objects'[x] \in {x, None}
        /\ \A x \in Data : objects[x] = x => objects'[x] = x
    BY <1>1, <1>5, <2>1 DEF Typed, IInv, BucketInv
  <2>3. Grows
    BY <2>2 DEF Grows
  <2>4. \A m \in Snapshot : Complete(m) => Complete(m)'
    BY <2>3, StaysComplete
  <2>5. \A m \in manifests : Complete(m)'
    BY <2>4 DEF IInv, BucketInv, Typed
  <2>6. \A q \in late : \/ q.key \in Data /\ q.bytes = q.key
                        \/ q.key \in Snapshot /\ Complete(q.key)'
    BY <2>4 DEF IInv, BucketInv
  <2>7. BucketInv'
    BY <1>1, <2>2, <2>5, <2>6 DEF BucketInv, Complete
  <2>8. Typed'
    BY <1>2, <2>2 DEF IInv, Typed, tree, config, listing
  <2>. QED
    BY <1>3, <2>3, <2>7, <2>8, NoJobMoves
<1>. QED
  BY <1>4, <1>5

LEMMA get_manifestKeeps ==
    ASSUME IInv, NEW j \in Job, get_manifest(j)
    PROVE  IInv'
<1>1. /\ kind[j] = "fetch" /\ Root \in Entry /\ UNCHANGED <<tree, config, dest, listing>>
      /\ faults \in Nat
  BY DEF get_manifest, Entry, IInv, Typed
<1>2. CASE CallFails(j, Root)
  BY <1>1, <1>2, TaskCallFails
<1>3. CASE snap[j] \notin manifests /\ Cancel(j, "failed") /\ UNCHANGED faults
  BY <1>1, <1>3, JobCancelled DEF Ended
<1>4. CASE snap[j] \in manifests /\ Faulty /\ Cancel(j, "failed")
  BY <1>1, <1>4, JobCancelled DEF Ended, Faulty
<1>5. CASE /\ Goto(j, "objects")
           /\ task' = [task EXCEPT ![j] = [e \in Entry |->
                         IF e = Root THEN Idle
                         ELSE IF file_present_and_verified(j, e)
                              THEN [Fresh EXCEPT !.st = "done"] ELSE Fresh]]
           /\ UNCHANGED <<bucket, faults>>
  <2>1. PICK u \in Task : u = [Fresh EXCEPT !.st = "done"]
    BY IdleTask DEF Task
  <2>2. PICK ts \in [Entry -> Task] : ts = [e \in Entry |->
                         IF e = Root THEN Idle
                         ELSE IF file_present_and_verified(j, e) THEN u ELSE Fresh]
    BY IdleTask
  <2>3. \A f \in File : \/ ts[f] = Fresh
                        \/ ts[f] = u /\ dest[j][f] = snap[j][f]
    BY <2>2, ObjectStoreAssumptions DEF Entry, file_present_and_verified
  <2>4. task' = [task EXCEPT ![j] = ts]
    BY <1>5, <2>1, <2>2
  <2>. QED
    BY <1>1, <1>5, <2>1, <2>3, <2>4, StageOpens
<1>. QED
  BY <1>2, <1>3, <1>4, <1>5 DEF get_manifest

\* A download whose bytes do not verify begins again, with one verification fewer.
LEMMA VerifyAgainKeeps ==
    ASSUME IInv, NEW j \in Job, NEW f \in File, task[j][f].st = "get", task[j][f].left > 1,
           SetTask(j, f, [Sent(task[j][f]) EXCEPT !.n = 0, !.left = @ - 1]),
           UNCHANGED <<tree, bucket, config, pc, dest, listing>>, faults' \in Nat
    PROVE  IInv'
<1>1. f \in Entry /\ Typed /\ TaskInv(j, f)
  BY DEF Entry, IInv, JobInv
<1>2. PICK t \in Task : t = task[j][f]
  BY <1>1 DEF Typed
<1>3. pc[j] = "objects" /\ kind[j] = "fetch" /\ SentInv(t)
  BY <1>1, <1>2 DEF TaskInv, Fetching
<1>4. PICK u \in Task : u = Sent(t)
  <2>1. t.sent + 1 \in Nat
    BY DEF Task
  <2>. QED
    BY <2>1 DEF Sent, Task
<1>5. u.st = "get" /\ u.n = t.n /\ u.left = t.left /\ u.got = t.got /\ u.sent = t.sent + 1
  BY <1>2, <1>4 DEF Sent, Task
<1>6. 0 \in 0..(MaxAttempts - 1) /\ u.left - 1 \in 0..MAX_FETCH_RETRIES /\ u.left - 1 >= 1
  BY <1>2, <1>5, ObjectStoreAssumptions DEF Task
<1>7. PICK v \in Task : v = [u EXCEPT !.n = 0]
  BY <1>6 DEF Task
<1>8. v.st = "get" /\ v.n = 0 /\ v.left = t.left /\ v.got = t.got /\ v.sent = t.sent + 1
  BY <1>5, <1>7 DEF Task
<1>9. PICK w \in Task : w = [v EXCEPT !.left = v.left - 1]
  BY <1>5, <1>6, <1>8 DEF Task
<1>10. w.st = "get" /\ w.n = 0 /\ w.left = t.left - 1 /\ w.got = t.got /\ w.sent = t.sent + 1
  BY <1>8, <1>9 DEF Task
<1>11. SetTask(j, f, w)
  <2>1. w = [u EXCEPT !.n = 0, !.left = u.left - 1]
    BY <1>5, <1>7, <1>8, <1>9 DEF Task
  <2>. QED
    BY <1>2, <1>4, <2>1
<1>12. task'[j][f] = w
  BY <1>1, <1>11, SetTaskEffect
<1>13. SentInv(w)
  <2>1. t.left \in 2..MAX_FETCH_RETRIES /\ t.n \in 0..(MaxAttempts - 1) /\ t.sent \in Nat
    BY <1>2 DEF Task
  <2>2. t.sent <= (MAX_FETCH_RETRIES - t.left) * MaxAttempts + t.n
    BY <1>2, <1>3 DEF SentInv
  <2>3. t.sent + 1 <= (MAX_FETCH_RETRIES - (t.left - 1)) * MaxAttempts
    BY <2>1, <2>2, VerificationPays
  <2>4. (MAX_FETCH_RETRIES - (t.left - 1)) * MaxAttempts \in Int
    BY <2>1, ObjectStoreAssumptions
  <2>5. w.sent <= (MAX_FETCH_RETRIES - w.left) * MaxAttempts + w.n
    BY <1>10, <2>1, <2>3, <2>4
  <2>6. w.left >= 1
    BY <1>10, <2>1
  <2>. QED
    BY <1>10, <2>5, <2>6 DEF SentInv
<1>14. TaskInv(j, f)'
  BY <1>1, <1>3, <1>10, <1>12, <1>13 DEF TaskInv, Pushing, Fetching, config
<1>. QED
  BY <1>1, <1>3, <1>11, <1>14, BucketKept, TaskMoves DEF Typed

LEMMA fetch_verifiedKeeps ==
    ASSUME IInv, NEW j \in Job, NEW f \in File, fetch_verified(j, f)
    PROVE  IInv'
<1>1. /\ task[j][f].st = "get" /\ f \in Entry /\ UNCHANGED <<tree, config, dest, listing>>
      /\ faults \in Nat /\ snap[j][f] \in Data
  BY DEF fetch_verified, Entry, IInv, Typed, Snapshot
<1>2. CASE CallFails(j, f)
  BY <1>1, <1>2, TaskCallFails
<1>3. CASE Cancel(j, "failed") /\ UNCHANGED faults
  BY <1>1, <1>3, JobCancelled DEF Ended
<1>4. CASE /\ SetTask(j, f, [Then(task[j][f], "write") EXCEPT !.got = snap[j][f]])
           /\ UNCHANGED <<pc, bucket, faults>>
  <2>1. PICK t \in Task : t = task[j][f]
    BY <1>1 DEF IInv, Typed
  <2>2. PICK u \in Task : u = Then(t, "write")
    BY ThenTask DEF Fetching
  <2>3. u.st = "write" /\ u.sent = t.sent
    BY <2>2, ThenTask DEF Fetching
  <2>4. PICK v \in Task : v = [u EXCEPT !.got = snap[j][f]]
    BY <1>1 DEF Task
  <2>5. v.st = "write" /\ v.sent = t.sent /\ v.got = snap[j][f]
    BY <2>3, <2>4 DEF Task
  <2>6. SetTask(j, f, v)
    BY <1>4, <2>1, <2>2, <2>4
  <2>7. kind[j] = "fetch"
    BY <1>1 DEF IInv, JobInv, TaskInv, Fetching
  <2>. QED
    BY <1>1, <1>4, <2>1, <2>5, <2>6, <2>7, TaskGoesOn DEF Pushing, Fetching
<1>5. CASE Faulty /\ VerifyFails(j, f)
  <2>1. faults' \in Nat
    BY <1>1, <1>5 DEF Faulty
  <2>2. CASE task[j][f].left > 1
    BY <1>1, <1>5, <2>1, <2>2, VerifyAgainKeeps DEF VerifyFails
  <2>3. CASE ~(task[j][f].left > 1)
    BY <1>1, <1>5, <2>1, <2>3, JobCancelled DEF VerifyFails, Ended
  <2>. QED
    BY <2>2, <2>3
<1>. QED
  BY <1>2, <1>3, <1>4, <1>5 DEF fetch_verified

LEMMA write_atomicKeeps ==
    ASSUME IInv, NEW j \in Job, NEW f \in File, write_atomic(j, f)
    PROVE  IInv'
<1>1. /\ task[j][f].st = "write" /\ UNCHANGED <<tree, bucket, faults, config, pc, dest, listing>>
      /\ SetTask(j, f, Then(task[j][f], "rename"))
  BY DEF write_atomic
<1>2. PICK t \in Task : t = task[j][f]
  BY DEF IInv, Typed, Entry
<1>3. PICK u \in Task : u = Then(t, "rename")
  BY ThenTask DEF Fetching
<1>4. u.st = "rename" /\ u.sent = t.sent /\ u.got = t.got
  BY <1>3, ThenTask DEF Fetching
<1>5. kind[j] = "fetch" /\ t.got = snap[j][f]
  BY <1>1, <1>2 DEF IInv, JobInv, TaskInv, Fetching
<1>. QED
  BY <1>1, <1>2, <1>3, <1>4, <1>5, TaskGoesOn DEF Pushing, Fetching

LEMMA RenameTempKeeps ==
    ASSUME IInv, NEW j \in Job, NEW f \in File, RenameTemp(j, f)
    PROVE  IInv'
<1>1. /\ task[j][f].st = "rename" /\ UNCHANGED <<tree, bucket, faults, config, pc, listing>>
      /\ SetTask(j, f, Then(task[j][f], "done"))
      /\ dest' = [dest EXCEPT ![j][f] = task[j][f].got]
  BY DEF RenameTemp
<1>2. Typed /\ f \in Entry /\ TaskInv(j, f)
  BY DEF IInv, JobInv, Entry
<1>3. PICK t \in Task : t = task[j][f]
  BY <1>2 DEF Typed
<1>4. PICK u \in Task : u = Then(t, "done")
  BY ThenTask
<1>5. u.st = "done" /\ u.sent = t.sent
  BY <1>4, ThenTask
<1>6. kind[j] = "fetch" /\ t.got = snap[j][f] /\ pc[j] = "objects" /\ SentInv(t)
  BY <1>1, <1>2, <1>3 DEF TaskInv, Fetching
<1>7. SetTask(j, f, u)
  BY <1>1, <1>3, <1>4
<1>8. task'[j][f] = u
  BY <1>2, <1>7, SetTaskEffect
<1>9. PICK d \in Data : d = snap[j][f]
  BY <1>2 DEF Typed, Snapshot
<1>10. dest' = [dest EXCEPT ![j][f] = d]
  BY <1>1, <1>3, <1>6, <1>9
<1>11. /\ dest' \in [Job -> [File -> Data \cup {None, Torn}]] /\ dest'[j][f] = d
       /\ \A g \in File \ {f} : dest'[j][g] = dest[j][g]
       /\ \A k \in Job \ {j} : dest'[k] = dest[k]
  BY <1>2, <1>10 DEF Typed
<1>12. SentInv(u)
  BY <1>1, <1>3, <1>5, <1>6 DEF SentInv
<1>13. TaskInv(j, f)'
  BY <1>1, <1>5, <1>6, <1>8, <1>9, <1>11, <1>12 DEF TaskInv, Pushing, Fetching, config
<1>14. faults' \in Nat
  BY <1>1, <1>2 DEF Typed
<1>. QED
  BY <1>1, <1>2, <1>6, <1>7, <1>11, <1>13, <1>14, BucketKept, TaskMoves

LEMMA list_keys_underKeeps ==
    ASSUME IInv, NEW j \in Job, list_keys_under(j)
    PROVE  IInv'
<1>1. /\ pc[j] = "start" /\ UNCHANGED <<tree, config, dest>> /\ Typed /\ Root \in Entry
  BY DEF list_keys_under, IInv, Entry
<1>2. CASE CallFails(j, Root) /\ UNCHANGED listing
  BY <1>1, <1>2, TaskCallFails
<1>3. ASSUME NEW page \in SUBSET unlisted[j],
             listed' = [listed EXCEPT ![j] = @ \cup (page \cap manifests)],
             unlisted' = [unlisted EXCEPT ![j] = @ \ page],
             IF page = unlisted[j] THEN Goto(j, "ok") ELSE UNCHANGED pc,
             SetTask(j, Root, Then(task[j][Root], "idle")),
             UNCHANGED <<bucket, faults, standing>>
      PROVE  IInv'
  <2>1. PICK u \in Task : u = Then(task[j][Root], "idle")
    BY <1>1, ThenTask DEF Typed
  <2>2. /\ task' \in [Job -> [Entry -> Task]]
        /\ \A x \in Entry \ {Root} : task'[j][x] = task[j][x]
        /\ \A k \in Job \ {j} : task'[k] = task[k]
    BY <1>1, <1>3, <2>1, SetTaskEffect
  <2>3. /\ listed' \in [Job -> SUBSET Snapshot] /\ unlisted' \in [Job -> SUBSET Snapshot]
        /\ listed'[j] = listed[j] \cup (page \cap manifests) /\ unlisted'[j] = unlisted[j] \ page
        /\ \A k \in Job \ {j} : listed'[k] = listed[k] /\ unlisted'[k] = unlisted[k]
    BY <1>1, <1>3 DEF Typed
  <2>4. /\ pc' \in [Job -> Stage] /\ pc'[j] \in {"start", "ok"}
        /\ \A k \in Job \ {j} : pc'[k] = pc[k]
    BY <1>1, <1>3 DEF Typed, Goto, Stage, Ended
  <2>5. Typed'
    BY <1>1, <1>3, <2>2, <2>3, <2>4 DEF Typed, tree, bucket, config
  <2>6. \A f \in File : task'[j][f] = task[j][f] /\ task[j][f].st = "idle"
    BY <1>1, <2>2, ObjectStoreAssumptions DEF Entry, IInv, JobInv
  <2>7. \A f \in File : TaskInv(j, f)'
    BY <1>1, <2>6 DEF IInv, JobInv, TaskInv, SentInv, Pushing, Fetching, config
  <2>10. ListInv(j)'
    BY <1>3, <2>3 DEF IInv, JobInv, ListInv, bucket
  <2>8. JobInv(j)'
    BY <1>3, <2>4, <2>6, <2>7, <2>10 DEF IInv, JobInv, bucket
  <2>9. \A k \in Job \ {j} : Untouched(k)
    BY <1>1, <1>3, <2>2, <2>3, <2>4 DEF Untouched, config
  <2>. QED
    BY <1>3, <2>5, <2>8, <2>9, BucketKept, OneJobMoves
<1>. QED
  BY <1>2, <1>3 DEF list_keys_under

LEMMA EditKeeps ==
    ASSUME IInv, Edit
    PROVE  IInv'
<1>1. UNCHANGED <<bucket, faults, config, pc, task, dest, listing>> /\ edits' \in 0..MaxEdits
  BY ObjectStoreAssumptions DEF Edit, IInv, Typed
<1>2. source' \in Snapshot
  BY DEF Edit, IInv, Typed, Snapshot
<1>3. Typed'
  BY <1>1, <1>2 DEF IInv, Typed, bucket, config, listing
<1>4. \A k \in Job : Untouched(k)
  BY <1>1 DEF Untouched, config, listing
<1>. QED
  BY <1>1, <1>3, <1>4, BucketKept, NoJobMoves

LEMMA KillKeeps ==
    ASSUME IInv, NEW j \in Job, Kill(j)
    PROVE  IInv'
BY JobCancelled DEF Kill, Ended, IInv, Typed

LEMMA StutterKeeps ==
    ASSUME IInv, UNCHANGED vars
    PROVE  IInv'
<1>1. Typed' /\ UNCHANGED bucket /\ \A k \in Job : Untouched(k)
  BY DEF IInv, Typed, vars, tree, bucket, config, listing, Untouched
<1>. QED
  BY <1>1, BucketKept, NoJobMoves

\* The invariant is inductive.
LEMMA IInvNext == IInv /\ [Next]_vars => IInv'
<1>. SUFFICES ASSUME IInv, [Next]_vars
              PROVE  IInv'
  OBVIOUS
<1>1. ASSUME NEW j \in Job, Step(j)
      PROVE  IInv'
  <2>1. ASSUME NEW f \in File,
               \/ StartTask(j, f) \/ HeadObject(j, f) \/ read_verified(j, f)
               \/ put_bytes(j, f) \/ fetch_verified(j, f) \/ acquire(j, f)
               \/ write_atomic(j, f) \/ RenameTemp(j, f)
        PROVE  IInv'
    BY <2>1, StartTaskKeeps, acquireKeeps, HeadObjectKeeps, read_verifiedKeeps, put_bytesKeeps,
       fetch_verifiedKeeps, write_atomicKeeps, RenameTempKeeps
  <2>. QED
    BY <1>1, <2>1, BeginKeeps, ProbeManifestKeeps, EndPassKeeps, write_manifestKeeps,
       get_manifestKeeps, list_keys_underKeeps DEF Step
<1>. QED
  BY <1>1, KillKeeps, acquireKeeps, LateLandsKeeps, EditKeeps, StutterKeeps DEF Next, GrantLarge

\* And so it always holds.
LEMMA Invariance == Spec => []IInv
BY InitInvariant, IInvNext, PTL DEF Spec

-----------------------------------------------------------------------------
(* Requests.                                                               *)

\* The types of the state follow from the invariant.
LEMMA TypedIsTypeOK == Typed => TypeOK
<1>. SUFFICES ASSUME Typed
              PROVE  TypeOK
  OBVIOUS
<1>1. \A j \in Job, e \in Entry : task[j][e].n < MaxAttempts
  <2>. SUFFICES ASSUME NEW j \in Job, NEW e \in Entry
                PROVE  task[j][e].n < MaxAttempts
    OBVIOUS
  <2>1. task[j][e].n \in 0..(MaxAttempts - 1)
    BY DEF Typed, Task
  <2>. QED
    BY <2>1, ObjectStoreAssumptions
<1>. QED
  BY <1>1 DEF Typed, TypeOK

\* The bound on the requests of a download follows from the invariant.
LEMMA IInvBounds == IInv => RequestsBounded
<1>. SUFFICES ASSUME IInv
              PROVE  RequestsBounded
  OBVIOUS
<1>1. ASSUME NEW j \in Job, NEW f \in File, kind[j] = "fetch"
      PROVE  task[j][f].sent < MaxAttempts * MAX_FETCH_RETRIES
  <2>1. PICK t \in Task : t = task[j][f]
    BY DEF IInv, Typed, Entry
  <2>2. SentInv(t)
    BY <1>1, <2>1 DEF IInv, JobInv, TaskInv
  <2>3. t.n \in 0..(MaxAttempts - 1) /\ t.sent \in Nat /\ t.left \in 0..MAX_FETCH_RETRIES
    BY DEF Task
  <2>4. t.sent < MaxAttempts * MAX_FETCH_RETRIES
    BY <2>2, <2>3, WithinProduct DEF SentInv
  <2>. QED
    BY <2>1, <2>4
<1>. QED
  BY <1>1, TypedIsTypeOK DEF IInv, RequestsBounded

\* The requests that one download sends in vain stay below the product of the
\* attempts of a call and the verifications of an object, whatever these budgets
\* are (retry_network, fetch_verified).
THEOREM FetchRequestsBounded == Spec => []RequestsBounded
<1>1. Spec => []IInv
  BY Invariance
<1>2. IInv => RequestsBounded
  BY IInvBounds
<1>. QED
  BY <1>1, <1>2, PTL

-----------------------------------------------------------------------------
(* The bucket as a content store.                                          *)

\* The objects that the abstract store sees.
Whole == {d \in Data : objects[d] = d}

\* A step in which no object and no manifest changes is a stutter.
LEMMA SameBucket ==
    ASSUME UNCHANGED <<objects, manifests>>
    PROVE  [CS!Next]_(CS!vars)
<1>1. {d \in Data : objects[d] = d}' = {d \in Data : objects[d] = d}
  OBVIOUS
<1>. QED
  BY <1>1 DEF CS!vars

\* An object that lands whole is added, or was there.
LEMMA ObjectLands ==
    ASSUME IInv, NEW d \in Data, objects' = [objects EXCEPT ![d] = d], manifests' = manifests
    PROVE  [CS!Next]_(CS!vars)
<1>1. /\ objects'[d] = d /\ \A x \in Data \ {d} : objects'[x] = objects[x]
  BY DEF IInv, Typed
<1>2. Whole' = Whole \cup {d}
  BY <1>1 DEF Whole
<1>3. CASE d \in Whole
  <2>1. Whole' = Whole
    BY <1>2, <1>3
  <2>. QED
    BY <2>1 DEF CS!vars, Whole
<1>4. CASE d \notin Whole
  <2>1. CS!AddObject(d)
    BY <1>2, <1>4 DEF CS!AddObject, Whole
  <2>. QED
    BY <2>1 DEF CS!Next
<1>. QED
  BY <1>3, <1>4

\* A manifest whose objects are there is committed, or was there.
LEMMA ManifestLands ==
    ASSUME IInv, NEW m \in Snapshot, Complete(m), manifests' = manifests \cup {m},
           objects' = objects
    PROVE  [CS!Next]_(CS!vars)
<1>1. Whole' = Whole
  BY DEF Whole
<1>2. CASE m \in manifests
  <2>1. manifests' = manifests
    BY <1>2
  <2>. QED
    BY <2>1, SameBucket
<1>3. CASE m \notin manifests
  <2>1. \A f \in File : m[f] \in Whole
    BY DEF Complete, Snapshot, Whole
  <2>2. CS!ObjectsOf(m) \subseteq Whole
    BY <2>1 DEF CS!ObjectsOf
  <2>3. CS!CommitManifest(m)
    BY <1>1, <1>3, <2>2 DEF CS!CommitManifest, Whole
  <2>4. m \in CS!Snapshot
    BY DEF Snapshot, CS!Snapshot
  <2>. QED
    BY <2>3, <2>4 DEF CS!Next
<1>. QED
  BY <1>2, <1>3

\* What a step does to the bucket: nothing, one object or one manifest.
LEMMA BucketSteps ==
    ASSUME IInv, [Next]_vars
    PROVE  \/ UNCHANGED <<objects, manifests>>
           \/ \E d \in Data : objects' = [objects EXCEPT ![d] = d] /\ manifests' = manifests
           \/ \E m \in Snapshot :
                Complete(m) /\ manifests' = manifests \cup {m} /\ objects' = objects
<1>. DEFINE Goal == \/ UNCHANGED <<objects, manifests>>
                    \/ \E d \in Data : objects' = [objects EXCEPT ![d] = d] /\ manifests' = manifests
                    \/ \E m \in Snapshot :
                         Complete(m) /\ manifests' = manifests \cup {m} /\ objects' = objects
<1>1. ASSUME NEW j \in Job, NEW e \in Entry, CallFails(j, e)
      PROVE  UNCHANGED <<objects, manifests>>
  BY <1>1 DEF CallFails, retry_network, Cancel, bucket
<1>2. ASSUME NEW j \in Job, NEW f \in File, put_bytes(j, f)
      PROVE  Goal
  <2>1. snap[j][f] \in Data /\ task[j][f].got = snap[j][f] /\ f \in Entry
    BY <1>2 DEF put_bytes, IInv, JobInv, TaskInv, Typed, Snapshot, Entry
  <2>2. CASE CallFails(j, f)
    BY <1>1, <2>1, <2>2
  <2>3. CASE ~CallFails(j, f)
    BY <1>2, <2>1, <2>3 DEF put_bytes
  <2>. QED
    BY <2>2, <2>3
<1>3. ASSUME NEW j \in Job, write_manifest(j)
      PROVE  Goal
  <2>1. snap[j] \in Snapshot /\ Complete(snap[j]) /\ Root \in Entry
    BY <1>3 DEF write_manifest, IInv, JobInv, Typed, Entry
  <2>2. CASE CallFails(j, Root)
    BY <1>1, <2>1, <2>2
  <2>3. CASE ~CallFails(j, Root)
    BY <1>3, <2>1, <2>3 DEF write_manifest
  <2>. QED
    BY <2>2, <2>3
<1>4. ASSUME LateLands
      PROVE  Goal
  <2>1. PICK p \in late :
          IF p.key \in Snapshot
          THEN manifests' = manifests \cup {p.key} /\ UNCHANGED objects
          ELSE objects' = [objects EXCEPT ![p.key] = p.bytes] /\ UNCHANGED manifests
    BY <1>4 DEF LateLands
  <2>2. CASE p.key \in Snapshot
    <3>1. Complete(p.key)
      BY <2>2, ObjectStoreAssumptions DEF IInv, BucketInv, Snapshot
    <3>. QED
      BY <2>1, <2>2, <3>1
  <2>3. CASE p.key \notin Snapshot
    <3>1. p.key \in Data /\ p.bytes = p.key
      BY <2>3 DEF IInv, BucketInv
    <3>. QED
      BY <2>1, <2>3, <3>1
  <2>. QED
    BY <2>2, <2>3
<1>5. ASSUME NEW j \in Job, NEW f \in File,
             \/ StartTask(j, f) \/ HeadObject(j, f) \/ read_verified(j, f)
             \/ fetch_verified(j, f) \/ write_atomic(j, f) \/ RenameTemp(j, f) \/ acquire(j, f)
      PROVE  UNCHANGED <<objects, manifests>>
  <2>1. f \in Entry
    BY DEF Entry
  <2>2. ASSUME StartTask(j, f) \/ write_atomic(j, f) \/ RenameTemp(j, f) \/ acquire(j, f)
        PROVE  UNCHANGED <<objects, manifests>>
    BY <2>2 DEF StartTask, acquire, write_atomic, RenameTemp, bucket
  <2>3. ASSUME HeadObject(j, f) \/ read_verified(j, f)
        PROVE  UNCHANGED <<objects, manifests>>
    BY <1>1, <2>1, <2>3 DEF HeadObject, read_verified, Cancel, bucket
  <2>4. ASSUME fetch_verified(j, f)
        PROVE  UNCHANGED <<objects, manifests>>
    BY <1>1, <2>1, <2>4 DEF fetch_verified, VerifyFails, Cancel, bucket
  <2>. QED
    BY <1>5, <2>2, <2>3, <2>4
<1>6. ASSUME NEW j \in Job,
             \/ Begin(j) \/ ProbeManifest(j) \/ EndPass(j) \/ get_manifest(j)
             \/ list_keys_under(j) \/ Kill(j)
      PROVE  UNCHANGED <<objects, manifests>>
  <2>1. Root \in Entry
    BY DEF Entry
  <2>2. ASSUME Begin(j) \/ EndPass(j) \/ Kill(j)
        PROVE  UNCHANGED <<objects, manifests>>
    BY <2>2 DEF Begin, EndPass, Kill, Cancel, bucket
  <2>3. ASSUME ProbeManifest(j) \/ get_manifest(j)
        PROVE  UNCHANGED <<objects, manifests>>
    BY <1>1, <2>1, <2>3 DEF ProbeManifest, get_manifest, Cancel, bucket
  <2>4. ASSUME list_keys_under(j)
        PROVE  UNCHANGED <<objects, manifests>>
    BY <1>1, <2>1, <2>4 DEF list_keys_under, bucket
  <2>. QED
    BY <1>6, <2>2, <2>3, <2>4
<1>7. ASSUME Edit \/ UNCHANGED vars
      PROVE  UNCHANGED <<objects, manifests>>
  BY <1>7 DEF Edit, vars, bucket
<1>. QED
  BY <1>2, <1>3, <1>4, <1>5, <1>6, <1>7 DEF Next, GrantLarge, Step

\* However many pushes run, fail, are killed or land late, the bucket is written
\* as a content store is (push_objects_concurrent, put_bytes).
THEOREM BucketRefinement == Spec => ImplementsContentStore
<1>1. IInv /\ [Next]_vars => [CS!Next]_(CS!vars)
  BY BucketSteps, SameBucket, ObjectLands, ManifestLands
<1>. QED
  BY <1>1, Invariance, PTL DEF Spec, ImplementsContentStore

-----------------------------------------------------------------------------
(* What a fetch and a listing report.                                      *)

\* What a step may do to the results of a job.
Exact(j) ==
    /\ Reports(j, "fetch") => dest'[j] = snap[j]
    /\ \A f \in File :
         (pc[j] # "new" /\ dest'[j][f] # dest[j][f]) => dest'[j][f] = snap[j][f]
    /\ Reports(j, "list") => standing[j] \subseteq listed'[j] /\ listed'[j] \subseteq manifests

\* A call that fails reports no success and writes no file.
LEMMA FailureIsQuiet ==
    ASSUME IInv, NEW j \in Job, NEW e \in Entry, CallFails(j, e)
    PROVE  \A k \in Job : pc'[k] = pc[k] \/ pc'[k] # "ok"
<1>1. CASE Cancel(j, "failed")
  <2>1. pc'[j] = "failed" /\ \A k \in Job \ {j} : pc'[k] = pc[k]
    BY <1>1, CancelEffect DEF IInv, Ended
  <2>. QED
    BY <2>1
<1>2. CASE UNCHANGED pc
  BY <1>2
<1>. QED
  BY <1>1, <1>2, CallFailsEffect DEF IInv

\* Nor does a job that is cancelled.
LEMMA CancelIsQuiet ==
    ASSUME IInv, NEW j \in Job, NEW end \in {"failed", "killed"}, Cancel(j, end)
    PROVE  \A k \in Job : pc'[k] = pc[k] \/ pc'[k] # "ok"
<1>1. pc'[j] = end /\ \A k \in Job \ {j} : pc'[k] = pc[k]
  BY CancelEffect DEF IInv, Ended
<1>. QED
  BY <1>1

\* A step that reports nothing and writes no file.
LEMMA Quiet ==
    ASSUME \A k \in Job : pc'[k] = pc[k] \/ pc'[k] # "ok", dest' = dest
    PROVE  \A k \in Job : Exact(k)
BY DEF Exact, Reports

\* A step to a stage of one job.
LEMMA GotoEffect ==
    ASSUME IInv, NEW j \in Job, NEW stage, Goto(j, stage)
    PROVE  pc'[j] = stage /\ \A k \in Job \ {j} : pc'[k] = pc[k]
BY DEF IInv, Typed, Goto

LEMMA CallerSteps ==
    ASSUME IInv, NEW j \in Job, Begin(j) \/ Kill(j)
    PROVE  \A k \in Job : Exact(k)
<1>1. CASE Begin(j)
  <2>1. /\ pc[j] = "new" /\ pc'[j] = "start" /\ \A k \in Job \ {j} : pc'[k] = pc[k]
        /\ \A k \in Job \ {j} : dest'[k] = dest[k]
    BY <1>1 DEF Begin, IInv, Typed
  <2>. QED
    BY <2>1 DEF Exact, Reports
<1>2. CASE Kill(j)
  BY <1>2, CancelIsQuiet, Quiet DEF Kill
<1>. QED
  BY <1>1, <1>2

LEMMA PushSteps ==
    ASSUME IInv, NEW j \in Job, ProbeManifest(j) \/ write_manifest(j)
    PROVE  \A k \in Job : Exact(k)
<1>1. Root \in Entry /\ dest' = dest /\ kind[j] = "push"
  BY DEF ProbeManifest, write_manifest, Entry, IInv, JobInv
<1>2. CASE CallFails(j, Root)
  BY <1>1, <1>2, FailureIsQuiet, Quiet
<1>3. CASE ~CallFails(j, Root)
  <2>1. \A k \in Job \ {j} : pc'[k] = pc[k]
    BY <1>3, GotoEffect DEF ProbeManifest, write_manifest
  <2>. QED
    BY <1>1, <2>1 DEF Exact, Reports
<1>. QED
  BY <1>2, <1>3

LEMMA EndPassStep ==
    ASSUME IInv, NEW j \in Job, EndPass(j)
    PROVE  \A k \in Job : Exact(k)
<1>1. /\ dest' = dest /\ kind[j] \in {"push", "fetch"} /\ \A f \in File : task[j][f].st = "done"
      /\ \A k \in Job \ {j} : pc'[k] = pc[k]
  BY GotoEffect DEF EndPass, IInv, JobInv
<1>2. kind[j] = "fetch" => dest[j] = snap[j]
  <2>1. dest[j] \in [File -> Data \cup {None, Torn}] /\ snap[j] \in [File -> Data]
    BY DEF IInv, Typed, Snapshot
  <2>2. kind[j] = "fetch" => \A f \in File : dest[j][f] = snap[j][f]
    BY <1>1 DEF IInv, JobInv, TaskInv
  <2>. QED
    BY <2>1, <2>2
<1>. QED
  BY <1>1, <1>2 DEF Exact, Reports

LEMMA get_manifestStep ==
    ASSUME IInv, NEW j \in Job, get_manifest(j)
    PROVE  \A k \in Job : Exact(k)
<1>1. Root \in Entry /\ dest' = dest
  BY DEF get_manifest, Entry
<1>2. CASE CallFails(j, Root)
  BY <1>1, <1>2, FailureIsQuiet, Quiet
<1>3. CASE Cancel(j, "failed")
  BY <1>1, <1>3, CancelIsQuiet, Quiet
<1>4. CASE Goto(j, "objects")
  BY <1>1, <1>4, GotoEffect, Quiet
<1>. QED
  BY <1>2, <1>3, <1>4 DEF get_manifest

LEMMA ListStep ==
    ASSUME IInv, NEW j \in Job, list_keys_under(j)
    PROVE  \A k \in Job : Exact(k)
<1>1. Root \in Entry /\ dest' = dest /\ kind[j] = "list" /\ pc[j] = "start"
  BY DEF list_keys_under, Entry
<1>2. CASE CallFails(j, Root)
  BY <1>1, <1>2, FailureIsQuiet, Quiet
<1>3. ASSUME NEW page \in SUBSET unlisted[j],
             listed' = [listed EXCEPT ![j] = @ \cup (page \cap manifests)],
             unlisted' = [unlisted EXCEPT ![j] = @ \ page],
             IF page = unlisted[j] THEN Goto(j, "ok") ELSE UNCHANGED pc
      PROVE  \A k \in Job : Exact(k)
  <2>1. CASE page = unlisted[j]
    <3>1. standing[j] \subseteq listed'[j] /\ listed'[j] \subseteq manifests
      BY <1>3, <2>1 DEF IInv, Typed, JobInv, ListInv
    <3>2. \A k \in Job \ {j} : pc'[k] = pc[k]
      BY <1>3, <2>1, GotoEffect
    <3>. QED
      BY <1>1, <3>1, <3>2 DEF Exact, Reports
  <2>2. CASE page # unlisted[j]
    BY <1>1, <1>3, <2>2, Quiet
  <2>. QED
    BY <2>1, <2>2
<1>. QED
  BY <1>2, <1>3 DEF list_keys_under

LEMMA TaskSteps ==
    ASSUME IInv, NEW j \in Job, NEW f \in File,
           \/ StartTask(j, f) \/ HeadObject(j, f) \/ read_verified(j, f)
           \/ put_bytes(j, f) \/ fetch_verified(j, f) \/ acquire(j, f)
           \/ write_atomic(j, f) \/ RenameTemp(j, f)
    PROVE  \A k \in Job : Exact(k)
<1>1. f \in Entry
  BY DEF Entry
<1>2. CASE RenameTemp(j, f)
  <2>1. task[j][f].got = snap[j][f]
    BY <1>2 DEF RenameTemp, IInv, JobInv, TaskInv
  <2>2. /\ dest'[j][f] = snap[j][f] /\ \A g \in File \ {f} : dest'[j][g] = dest[j][g]
        /\ \A k \in Job \ {j} : dest'[k] = dest[k]
    BY <1>2, <2>1 DEF RenameTemp, IInv, Typed
  <2>3. pc' = pc
    BY <1>2 DEF RenameTemp
  <2>. QED
    BY <2>2, <2>3 DEF Exact, Reports
<1>3. CASE CallFails(j, f) /\ ~RenameTemp(j, f)
  <2>1. dest' = dest
    BY <1>3 DEF StartTask, HeadObject, read_verified, put_bytes, fetch_verified, write_atomic, acquire
  <2>. QED
    BY <1>1, <1>3, <2>1, FailureIsQuiet, Quiet
<1>4. CASE StartTask(j, f) \/ write_atomic(j, f) \/ acquire(j, f)
  BY <1>4, Quiet DEF StartTask, write_atomic, acquire
<1>5. CASE ~CallFails(j, f) /\ (HeadObject(j, f) \/ put_bytes(j, f))
  BY <1>5, Quiet DEF HeadObject, put_bytes
<1>6. CASE ~CallFails(j, f) /\ (read_verified(j, f) \/ fetch_verified(j, f))
  <2>1. dest' = dest /\ (UNCHANGED pc \/ Cancel(j, "failed"))
    BY <1>6 DEF read_verified, fetch_verified, VerifyFails
  <2>. QED
    BY <2>1, CancelIsQuiet, Quiet
<1>. QED
  BY <1>2, <1>3, <1>4, <1>5, <1>6

\* A fetch that reports success has brought its whole snapshot, file by file
\* verified, and a listing that ends has every manifest that was in the bucket
\* when it was called and none that is not, for any number of jobs and any faults (fetch_files_concurrent, list_manifest_ids).
THEOREM ReportsAreExact == Spec => ResultsExact
<1>1. IInv /\ [Next]_vars => \A k \in Job : Exact(k)
  <2>. SUFFICES ASSUME IInv, [Next]_vars
                PROVE  \A k \in Job : Exact(k)
    OBVIOUS
  <2>1. ASSUME NEW j \in Job, Step(j)
        PROVE  \A k \in Job : Exact(k)
    BY <2>1, CallerSteps, PushSteps, EndPassStep, get_manifestStep, ListStep, TaskSteps DEF Step
  <2>2. ASSUME LateLands \/ Edit \/ UNCHANGED vars
        PROVE  \A k \in Job : Exact(k)
    <3>1. pc' = pc /\ dest' = dest
      BY <2>2 DEF LateLands, Edit, vars
    <3>. QED
      BY <3>1, Quiet
  <2>. QED
    BY <2>1, <2>2, CallerSteps, TaskSteps DEF Next, GrantLarge
<1>2. IInv /\ [Next]_vars =>
        [\A j \in Job :
           /\ Reports(j, "fetch") => dest'[j] = snap[j]
           /\ \A f \in File :
                (pc[j] # "new" /\ dest'[j][f] # dest[j][f]) => dest'[j][f] = snap[j][f]
           /\ Reports(j, "list") => standing[j] \subseteq listed'[j] /\ listed'[j] \subseteq manifests]_vars
  BY <1>1 DEF Exact
<1>. QED
  BY <1>2, Invariance, PTL DEF Spec, ResultsExact

=============================================================================
