-------------------------- MODULE ReceivePackProofs --------------------------
(***************************************************************************)
(* The accelerated push, for any number of sessions, snapshots and power   *)
(* failures: until the power first fails a pack behaves as a content       *)
(* store, what a batch receiver has filed survives every failure whole,    *)
(* and its success is durable.                                             *)
(***************************************************************************)
EXTENDS ReceivePack, Integers, SequenceTheorems, WellFoundedInduction, TLAPS

Entries == 1..Len(journal)

\* The session may still stream, or is about to file its manifest.
Streaming == {"stream", "commit", "barrier"}
Unfiled == {"probe", "diff", "manifest"} \cup Streaming

\* What a session has renamed so far, and what it has yet to bring.
ScriptInv(c) ==
    /\ pc[c] \in {"probe", "diff"} =>
          written[c] = {} /\ \A k \in Entries : journal[k][1] # c
    /\ pc[c] # "commit" => staged[c] = {}
    /\ staged[c] \cap todo[c] = {} /\ \A d, e \in staged[c] : d = e
    /\ \A k \in Entries : journal[k][1] = c => journal[k][2] \notin todo[c]
    /\ pc[c] \in {"stream", "commit"} =>
          \A d \in ObjectsOf(want[c]) : d \in todo[c] \cup staged[c] \/ Present(d)
    /\ pc[c] \in {"barrier", "manifest"} => \A d \in ObjectsOf(want[c]) : Present(d)

\* The state of what it has renamed: not damaged as long as the power holds,
\* no manifest among it yet, and known to the barrier until that has synced it.
\* The barrier syncs what the name stands for by then, so an inode that another
\* session has renamed over is none of its business.
DiskInv(c) ==
    /\ pc[c] \in Unfiled =>
          \A m \in Snapshot : <<c, m>> \notin bad /\ \A k \in Entries : journal[k] # <<c, m>>
    /\ (losses = 0 \/ pc[c] \in Unfiled) =>
          \A k \in Entries : journal[k][1] = c => journal[k] \notin bad
    /\ pc[c] \in Streaming => \A d \in written[c] : Present(d)
    /\ (c \in batch /\ pc[c] \in Streaming) =>
          \A k \in Entries : journal[k][1] = c => journal[k][2] \in written[c]
    /\ (c \in batch /\ pc[c] = "manifest") =>
          \A k \in Entries : journal[k][1] = c =>
              \/ journal[k] \in synced
              \/ \E i \in Entries : i > k /\ journal[i][2] = journal[k][2]
    /\ (c \in batch /\ pc[c] = "done") =>
          \A k \in Entries : journal[k] = <<c, want[c]>> => k <= stable

\* What every manifest in the journal can count on, in every prefix of the
\* journal that holds it: its objects come before it, and what its own batch
\* receiver has written is synced and undamaged, or renamed over before it.
FiledInv(k) ==
    journal[k][2] \in Snapshot =>
        /\ \A d \in ObjectsOf(journal[k][2]) : \E i \in Entries : i < k /\ journal[i][2] = d
        /\ journal[k][1] \in batch =>
              \A j \in Entries : journal[j][1] = journal[k][1] =>
                  \/ journal[j] \in synced \ bad
                  \/ \E i \in Entries : j < i /\ i < k /\ journal[i][2] = journal[j][2]

\* The inductive invariant.
IInv ==
    /\ TypeOK
    /\ \A c \in Session : ScriptInv(c) /\ DiskInv(c)
    /\ \A k \in Entries : FiledInv(k)

-----------------------------------------------------------------------------
(* Numbers and sequences.                                                  *)

\* A set of natural numbers has a least element ...
LEMMA LeastElement ==
    ASSUME NEW T, T \subseteq Nat, T # {}
    PROVE  \E x \in T : \A y \in T : x <= y
<1> DEFINE R == {ss \in Nat \X Nat : ss[1] < ss[2]}
<1>1. IsWellFoundedOn(R, Nat)
  BY NatLessThanWellFounded DEF OpToRel
<1>2. \A x, y \in Nat : <<y, x>> \in R <=> y < x
  OBVIOUS
<1>3. \A x, y \in Nat : ~(y < x) => x <= y
  OBVIOUS
<1> HIDE DEF R
<1>4. PICK x \in T : \A y \in T : <<y, x>> \notin R
  BY <1>1, WFMin
<1>5. \A y \in T : x <= y
  BY <1>2, <1>3, <1>4
<1> QED
  BY <1>5

\* ... so a set of positions has a greatest one, which Max finds.
LEMMA MaxOfPositions ==
    ASSUME NEW n \in Nat, NEW T, T \subseteq 1..n, T # {}
    PROVE  Max(T) \in T /\ \A y \in T : y <= Max(T)
<1> DEFINE U == {n - k : k \in T}
<1>1. U \subseteq Nat
  <2>1. \A k \in 1..n : n - k \in Nat
    OBVIOUS
  <2> QED
    BY <2>1
<1>2. U # {}
  OBVIOUS
<1>3. \E x \in U : \A y \in U : x <= y
  <2> HIDE DEF U
  <2> QED
    BY <1>1, <1>2, LeastElement
<1>4. PICK k \in T : \A y \in U : n - k <= y
  BY <1>3
<1>5. ASSUME NEW j \in T PROVE k >= j
  <2>1. n - k <= n - j
    BY <1>4
  <2>2. j \in Int /\ k \in Int
    OBVIOUS
  <2> QED
    BY <2>1, <2>2
<1>6. Max(T) \in T /\ \A y \in T : Max(T) >= y
  BY <1>5 DEF Max
<1>7. \A x, y \in 1..n : x >= y => y <= x
  OBVIOUS
<1> QED
  BY <1>6, <1>7

\* The last entry of a journal under a name.
LEMMA LastEntry ==
    ASSUME NEW J, Len(J) \in Nat, NEW n, \E k \in 1..Len(J) : J[k][2] = n
    PROVE  \E k \in 1..Len(J) : /\ k = Max({j \in 1..Len(J) : J[j][2] = n})
                                 /\ J[k][2] = n
                                 /\ \A j \in 1..Len(J) : J[j][2] = n => j <= k
<1> DEFINE P == {k \in 1..Len(J) : J[k][2] = n}
<1>1. P \subseteq 1..Len(J) /\ P # {}
  OBVIOUS
<1>2. Max(P) \in P /\ \A k \in P : k <= Max(P)
  <2> HIDE DEF P
  <2> QED
    BY <1>1, MaxOfPositions
<1> QED
  BY <1>2

\* What a present name stands for: its last entry.
LEMMA AtIsLast ==
    ASSUME TypeOK, NEW n, Present(n)
    PROVE  \E k \in Entries : /\ At(n) = journal[k] /\ journal[k][2] = n
                              /\ \A j \in Entries : journal[j][2] = n => j <= k
<1>1. Len(journal) \in Nat
  BY LenProperties DEF TypeOK
<1>2. \E k \in 1..Len(journal) : journal[k][2] = n
  BY DEF Present, Positions
<1>3. At(n) = journal[Max({k \in 1..Len(journal) : journal[k][2] = n})]
  BY DEF At, Positions
<1> QED
  BY <1>1, <1>2, <1>3, LastEntry DEF Entries

\* A name is present when an entry has it.
LEMMA PresentEntry ==
    \A n : Present(n) <=> \E k \in Entries : journal[k][2] = n
BY DEF Present, Positions, Entries

\* A rename appends to the journal and makes its name present.
LEMMA JournalGrows ==
    ASSUME TypeOK, NEW x \in Inode, journal' = Append(journal, x)
    PROVE  /\ journal' \in Seq(Inode)
           /\ Len(journal) \in Nat /\ Len(journal') = Len(journal) + 1
           /\ Entries' = Entries \cup {Len(journal) + 1} /\ Len(journal) + 1 \notin Entries
           /\ Entries \subseteq Nat
           /\ \A k \in Entries : journal'[k] = journal[k]
           /\ journal'[Len(journal) + 1] = x
           /\ \A n : Present(n)' <=> Present(n) \/ n = x[2]
<1>1. /\ journal' \in Seq(Inode) /\ Len(journal) \in Nat /\ Len(journal') = Len(journal) + 1
      /\ \A k \in 1..Len(journal) : journal'[k] = journal[k]
      /\ journal'[Len(journal) + 1] = x
  BY AppendProperties, LenProperties DEF TypeOK
<1>2. /\ Entries' = Entries \cup {Len(journal) + 1} /\ Len(journal) + 1 \notin Entries
      /\ Entries \subseteq Nat
  BY <1>1 DEF Entries
<1>3. \A k \in Entries : journal'[k] = journal[k]
  BY <1>1 DEF Entries
<1>4. ASSUME NEW n PROVE Present(n)' <=> \E k \in Entries' : journal'[k][2] = n
  BY DEF Present, Positions, Entries
<1>5. ASSUME NEW n PROVE Present(n)' <=> Present(n) \/ n = x[2]
  BY <1>1, <1>2, <1>3, <1>4, PresentEntry
<1> QED
  BY <1>1, <1>2, <1>3, <1>5

\* A power failure leaves a prefix.
LEMMA JournalCut ==
    ASSUME TypeOK, NEW k \in stable..Len(journal), journal' = SubSeq(journal, 1, k)
    PROVE  /\ journal' \in Seq(Inode) /\ k \in Nat /\ Len(journal') = k
           /\ Entries' = 1..k /\ Entries' \subseteq Entries /\ 1..k \subseteq Entries
           /\ Entries \subseteq Nat
           /\ \A j \in Entries' : journal'[j] = journal[j]
<1>1. Len(journal) \in Nat /\ stable \in Nat /\ k \in Nat /\ k <= Len(journal)
  BY LenProperties DEF TypeOK
<1>2. /\ journal' \in Seq(Inode) /\ Len(journal') = k
      /\ \A j \in 1..k : journal'[j] = journal[j]
  <2>1. \A i \in 1..k : journal[i] \in Inode
    BY <1>1, ElementOfSeq DEF TypeOK
  <2>2. /\ journal' \in Seq(Inode)
        /\ Len(journal') = IF 1 <= k THEN k - 1 + 1 ELSE 0
        /\ \A i \in 1..(k - 1 + 1) : journal'[i] = journal[1 + i - 1]
    BY <1>1, <2>1, SubSeqProperties
  <2>3. k - 1 + 1 = k /\ \A i \in 1..k : 1 + i - 1 = i
    BY <1>1
  <2> QED
    BY <1>1, <2>2, <2>3
<1> QED
  BY <1>1, <1>2 DEF Entries

-----------------------------------------------------------------------------
(* The sessions.                                                           *)

\* An object of a snapshot is one of the contents.
LEMMA ObjectsOfData == \A m \in Snapshot : ObjectsOf(m) \subseteq Data
BY DEF Snapshot, ObjectsOf

\* What a present name stands for is an inode of the journal.
LEMMA AtInode == ASSUME TypeOK, NEW n, Present(n) PROVE At(n) \in Inode
<1>1. PICK k \in Entries : At(n) = journal[k]
  BY AtIsLast
<1> QED
  BY <1>1, ElementOfSeq DEF TypeOK, Entries

\* The store is empty at first, and nobody has begun.
LEMMA InitInvariant == Init => IInv
<1> SUFFICES ASSUME Init PROVE IInv
  OBVIOUS
<1>1. journal \in Seq(Inode) /\ Entries = {}
  BY EmptySeq DEF Init, Entries
<1>2. TypeOK
  BY <1>1, PowerAssumption DEF Init, TypeOK, Stage
<1>3. ASSUME NEW c \in Session PROVE ScriptInv(c) /\ DiskInv(c)
  BY <1>1 DEF Init, ScriptInv, DiskInv, Streaming, Unfiled
<1> QED
  BY <1>1, <1>2, <1>3 DEF IInv

\* A step keeps the types, and leaves the sessions' snapshots and modes alone.
LEMMA TypeNext ==
    ASSUME IInv, Next PROVE TypeOK' /\ UNCHANGED <<want, batch>>
<1>0. TypeOK /\ Len(journal) \in Nat
  BY LenProperties DEF IInv, TypeOK
<1> USE DEF Goto, disk
<1> DEFINE Typed == TypeOK' /\ UNCHANGED <<want, batch>>
<1>1. ASSUME NEW c \in Session, Probe(c) \/ ReadEnd(c) PROVE Typed
  BY <1>0, <1>1 DEF Probe, ReadEnd, TypeOK, Stage, Ended
<1>2. ASSUME NEW c \in Session, ObjectsNeeded(c) PROVE Typed
  BY <1>0, <1>2, ObjectsOfData DEF ObjectsNeeded, TypeOK, Stage
<1>3. ASSUME NEW c \in Session, NEW d \in Data, ReadObjRecord(c, d) PROVE Typed
  BY <1>0, <1>3 DEF ReadObjRecord, TypeOK, Stage, Inode, Name
<1>4. ASSUME NEW c \in Session, CommitObject(c) PROVE Typed
  <2>1. PICK d \in staged[c] :
           /\ journal' = Append(journal, <<c, d>>)
           /\ written' = [written EXCEPT ![c] = IF c \in batch THEN @ \cup {d} ELSE @]
    BY <1>4 DEF CommitObject
  <2>2. d \in Data /\ <<c, d>> \in Inode
    BY <1>0 DEF TypeOK, Inode, Name
  <2>3. journal' \in Seq(Inode) /\ Len(journal') = Len(journal) + 1
    BY <1>0, <2>1, <2>2, JournalGrows
  <2>4. written' \in [Session -> SUBSET Data]
    BY <1>0, <2>1, <2>2 DEF TypeOK
  <2> QED
    BY <1>0, <1>4, <2>3, <2>4 DEF CommitObject, TypeOK, Stage
<1>5. ASSUME NEW c \in Session, FlushBarrier(c) PROVE Typed
  <2>1. {At(d) : d \in written[c]} \subseteq Inode
    BY <1>0, <1>5, AtInode DEF FlushBarrier, IInv, DiskInv, Streaming
  <2> QED
    BY <1>0, <1>5, <2>1 DEF FlushBarrier, TypeOK, Stage
<1>6. ASSUME NEW c \in Session, PutManifest(c) PROVE Typed
  <2>1. <<c, want[c]>> \in Inode
    BY <1>0 DEF TypeOK, Inode, Name
  <2>2. journal' \in Seq(Inode) /\ Len(journal') = Len(journal) + 1
    BY <1>0, <1>6, <2>1, JournalGrows DEF PutManifest
  <2> QED
    BY <1>0, <1>6, <2>1, <2>2 DEF PutManifest, TypeOK, Stage, Ended
<1>7. ASSUME NEW c \in Session, SyncDir(c) PROVE Typed
  BY <1>0, <1>7 DEF SyncDir, TypeOK, Stage, Ended
<1>8. ASSUME NEW c \in Session, Abort(c) PROVE Typed
  BY <1>0, <1>8 DEF Abort, TypeOK, Stage, Ended
<1>9. CASE PowerLoss
  <2>1. PICK k \in stable..Len(journal) :
          /\ journal' = SubSeq(journal, 1, k)
          /\ stable' = k
          /\ LET survivors == {journal[j] : j \in 1..k}
             IN  \E lost \in SUBSET (survivors \ synced) :
                    /\ bad' = bad \cup lost
                    /\ synced' = synced \cup survivors
    BY <1>9 DEF PowerLoss
  <2>2. /\ journal' \in Seq(Inode) /\ Len(journal') = k /\ k \in Nat /\ 1..k \subseteq Entries
    BY <1>0, <2>1, JournalCut
  <2>3. {journal[j] : j \in 1..k} \subseteq Inode
    BY <1>0, <2>2, ElementOfSeq DEF TypeOK, Entries
  <2>4. bad' \subseteq Inode /\ synced' \subseteq Inode
    BY <1>0, <2>1, <2>3 DEF TypeOK
  <2>5. losses' \in 0..MaxPowerLoss /\ stable' \in 0..Len(journal')
    BY <1>0, <1>9, <2>1, <2>2, PowerAssumption DEF PowerLoss, TypeOK
  <2>6. pc' \in [Session -> Stage]
    BY <1>0, <1>9 DEF PowerLoss, TypeOK, Stage, Ended
  <2> QED
    BY <1>0, <1>9, <2>2, <2>4, <2>5, <2>6 DEF PowerLoss, TypeOK
<1> QED
  BY <1>1, <1>2, <1>3, <1>4, <1>5, <1>6, <1>7, <1>8, <1>9 DEF Next

\* A step that renames nothing and damages nothing leaves the other sessions
\* what they count on.
LEMMA OtherSession ==
    ASSUME IInv, NEW c \in Session, UNCHANGED <<journal, bad, losses, batch, want>>,
           synced \subseteq synced', stable' \in Int, stable <= stable',
           pc'[c] = pc[c], todo'[c] = todo[c], staged'[c] = staged[c], written'[c] = written[c]
    PROVE  ScriptInv(c)' /\ DiskInv(c)'
<1>1. ScriptInv(c) /\ DiskInv(c)
  BY DEF IInv
<1>2. Entries' = Entries /\ \A n : Present(n)' <=> Present(n)
  BY DEF Entries, Present, Positions
<1>3. ScriptInv(c)'
  BY <1>1, <1>2 DEF ScriptInv, ObjectsOf
<1>4. \A k \in Entries : k <= stable => k <= stable'
  <2>1. stable \in Int /\ Entries \subseteq Int
    BY LenProperties DEF IInv, TypeOK, Entries
  <2> QED
    BY <2>1
<1>5. DiskInv(c)'
  BY <1>1, <1>2, <1>4 DEF DiskInv
<1> QED
  BY <1>3, <1>5

\* Nor does it touch what the manifests in the journal count on.
LEMMA FiledStays ==
    ASSUME IInv, UNCHANGED <<journal, batch>>, synced \ bad \subseteq synced' \ bad',
           NEW k \in Entries
    PROVE  FiledInv(k)'
<1>1. FiledInv(k) /\ Entries' = Entries
  BY DEF IInv, Entries
<1> QED
  BY <1>1 DEF FiledInv, ObjectsOf

\* The steps of a session that neither rename nor damage anything.
LEMMA QuietStep ==
    ASSUME IInv, NEW c \in Session,
           \/ Probe(c) \/ ObjectsNeeded(c) \/ ReadEnd(c) \/ FlushBarrier(c) \/ SyncDir(c) \/ Abort(c)
    PROVE  /\ \A e \in Session : ScriptInv(e)' /\ DiskInv(e)'
           /\ \A k \in Entries' : FiledInv(k)'
<1>0. /\ TypeOK /\ Len(journal) \in Nat /\ Entries \subseteq Nat /\ ScriptInv(c) /\ DiskInv(c)
      /\ stable \in Nat /\ \A k \in Entries : k <= Len(journal)
  BY LenProperties DEF IInv, TypeOK, Entries
<1>1. UNCHANGED <<journal, bad, losses, batch, want>>
  BY DEF Probe, ObjectsNeeded, ReadEnd, FlushBarrier, SyncDir, Abort, disk
<1>2. synced \subseteq synced'
  BY DEF Probe, ObjectsNeeded, ReadEnd, FlushBarrier, SyncDir, Abort, disk
<1>3. stable' \in Int /\ stable <= stable'
  BY <1>0 DEF Probe, ObjectsNeeded, ReadEnd, FlushBarrier, SyncDir, Abort, disk, TypeOK
<1>4. /\ Entries' = Entries /\ \A n : Present(n)' <=> Present(n)
      /\ ObjectsOf(want[c])' = ObjectsOf(want[c])
  BY <1>1 DEF Entries, Present, Positions, ObjectsOf
<1>5. \A k \in Entries' : FiledInv(k)'
  BY <1>1, <1>2, <1>4, FiledStays
<1>6. ASSUME NEW e \in Session, e # c PROVE ScriptInv(e)' /\ DiskInv(e)'
  <2>1. pc'[e] = pc[e] /\ todo'[e] = todo[e] /\ staged'[e] = staged[e] /\ written'[e] = written[e]
    BY <1>0, <1>6 DEF Probe, ObjectsNeeded, ReadEnd, FlushBarrier, SyncDir, Abort, Goto, TypeOK
  <2> QED
    BY <1>1, <1>2, <1>3, <2>1, OtherSession
<1> USE DEF Goto, Streaming, Unfiled
<1>7. CASE Probe(c)
  <2>1. pc[c] = "probe" /\ pc'[c] \in {"done", "diff"} /\ UNCHANGED <<disk, todo, staged, written>>
    BY <1>0, <1>7 DEF Probe, TypeOK
  <2>2. ScriptInv(c)'
    BY <1>0, <1>1, <1>4, <2>1 DEF ScriptInv
  <2>3. DiskInv(c)'
    BY <1>0, <1>1, <1>4, <2>1 DEF ScriptInv, DiskInv, disk
  <2> QED
    BY <1>5, <1>6, <2>2, <2>3
<1>8. CASE ObjectsNeeded(c)
  <2>1. /\ pc[c] = "diff" /\ pc'[c] = "stream" /\ UNCHANGED <<disk, staged, written>>
        /\ todo'[c] = {d \in ObjectsOf(want[c]) : ~Present(d)}
    BY <1>0, <1>8 DEF ObjectsNeeded, TypeOK
  <2>2. \A k \in Entries : Present(journal[k][2])
    BY PresentEntry
  <2>3. ScriptInv(c)'
    BY <1>0, <1>1, <1>4, <2>1, <2>2 DEF ScriptInv
  <2>4. DiskInv(c)'
    BY <1>0, <1>1, <1>4, <2>1 DEF ScriptInv, DiskInv, disk
  <2> QED
    BY <1>5, <1>6, <2>3, <2>4
<1>9. CASE ReadEnd(c)
  <2>1. /\ pc[c] = "stream" /\ pc'[c] = "barrier" /\ todo[c] = {}
        /\ UNCHANGED <<disk, todo, staged, written>>
    BY <1>0, <1>9 DEF ReadEnd, TypeOK
  <2>2. ScriptInv(c)'
    BY <1>0, <1>1, <1>4, <2>1 DEF ScriptInv
  <2>3. DiskInv(c)'
    BY <1>0, <1>1, <1>4, <2>1 DEF DiskInv, disk
  <2> QED
    BY <1>5, <1>6, <2>2, <2>3
<1>10. CASE FlushBarrier(c)
  <2>1. /\ pc[c] = "barrier" /\ pc'[c] = "manifest" /\ written'[c] = {}
        /\ synced' = synced \cup {At(d) : d \in written[c]}
        /\ UNCHANGED <<stable, todo, staged>>
    BY <1>0, <1>10 DEF FlushBarrier, TypeOK
  <2>2. ScriptInv(c)'
    BY <1>0, <1>1, <1>4, <2>1 DEF ScriptInv
  <2>3. ASSUME c \in batch, NEW k \in Entries, journal[k][1] = c
        PROVE  \/ journal[k] \in synced'
               \/ \E i \in Entries : i > k /\ journal[i][2] = journal[k][2]
    <3>1. journal[k][2] \in written[c]
      BY <1>0, <2>1, <2>3 DEF DiskInv
    <3>2. Present(journal[k][2])
      BY PresentEntry
    <3>3. PICK i \in Entries : /\ At(journal[k][2]) = journal[i]
                               /\ journal[i][2] = journal[k][2] /\ k <= i
      BY <1>0, <3>2, AtIsLast
    <3>4. journal[i] \in synced'
      BY <2>1, <3>1, <3>3
    <3>5. i = k \/ i > k
      BY <1>0, <3>3
    <3> QED
      BY <3>3, <3>4, <3>5
  <2>4. DiskInv(c)'
    BY <1>0, <1>1, <1>4, <2>1, <2>3 DEF DiskInv
  <2> QED
    BY <1>5, <1>6, <2>2, <2>4
<1>11. CASE SyncDir(c)
  <2>1. /\ pc[c] = "syncdir" /\ pc'[c] = "done" /\ stable' = Len(journal)
        /\ UNCHANGED <<synced, todo, staged, written>>
    BY <1>0, <1>11 DEF SyncDir, TypeOK
  <2>2. ScriptInv(c)'
    BY <1>0, <1>1, <1>4, <2>1 DEF ScriptInv
  <2>3. DiskInv(c)'
    BY <1>0, <1>1, <1>4, <2>1 DEF DiskInv
  <2> QED
    BY <1>5, <1>6, <2>2, <2>3
<1>12. CASE Abort(c)
  <2>1. /\ pc'[c] = "failed" /\ staged'[c] = {} /\ UNCHANGED <<disk, todo, written>>
    BY <1>0, <1>12 DEF Abort, TypeOK
  <2>2. ScriptInv(c)'
    BY <1>0, <1>1, <1>4, <2>1 DEF ScriptInv
  <2>3. DiskInv(c)'
    BY <1>0, <1>1, <1>4, <2>1 DEF DiskInv, disk
  <2> QED
    BY <1>5, <1>6, <2>2, <2>3
<1> QED
  BY <1>7, <1>8, <1>9, <1>10, <1>11, <1>12

\* A record is read: what it may damage is an inode that is not yet renamed.
LEMMA ReadStep ==
    ASSUME IInv, NEW c \in Session, NEW d \in Data, ReadObjRecord(c, d)
    PROVE  /\ \A e \in Session : ScriptInv(e)' /\ DiskInv(e)'
           /\ \A k \in Entries' : FiledInv(k)'
           /\ \A k \in Entries : journal[k] \in bad' => journal[k] \in bad
           /\ UNCHANGED journal
<1>0. TypeOK /\ Entries \subseteq Nat /\ ScriptInv(c) /\ DiskInv(c) /\ d \in todo[c] /\ pc[c] = "stream"
  BY DEF IInv, Entries, ReadObjRecord
<1>1. UNCHANGED <<journal, losses, batch, want, stable, synced, written>>
  BY DEF ReadObjRecord
<1>2. bad' \in {bad, bad \cup {<<c, d>>}}
  BY DEF ReadObjRecord
<1>3. \A k \in Entries : journal[k] # <<c, d>>
  BY <1>0 DEF ScriptInv
<1>4. \A k \in Entries : journal[k] \in bad' => journal[k] \in bad
  BY <1>2, <1>3
<1>5. \A e \in Session, m \in Snapshot : <<e, m>> \in bad' => <<e, m>> \in bad
  BY <1>2, NamesAssumption
<1>6. Entries' = Entries /\ \A n : Present(n)' <=> Present(n)
  BY <1>1 DEF Entries, Present, Positions
<1>7. ASSUME NEW k \in Entries' PROVE FiledInv(k)'
  <2>1. FiledInv(k)
    BY <1>6, <1>7 DEF IInv
  <2> QED
    BY <1>1, <1>4, <1>6, <2>1 DEF FiledInv, ObjectsOf
<1>8. ASSUME NEW e \in Session PROVE ScriptInv(e)' /\ DiskInv(e)'
  <2>0. ScriptInv(e) /\ DiskInv(e) /\ ObjectsOf(want[e])' = ObjectsOf(want[e])
    BY <1>1 DEF IInv, ObjectsOf
  <2>1. CASE e # c
    <3>1. pc'[e] = pc[e] /\ todo'[e] = todo[e] /\ staged'[e] = staged[e]
      BY <1>0, <2>1 DEF ReadObjRecord, Goto, TypeOK
    <3>2. ScriptInv(e)'
      BY <1>1, <1>6, <2>0, <3>1 DEF ScriptInv
    <3>3. DiskInv(e)'
      BY <1>1, <1>4, <1>5, <1>6, <2>0, <3>1 DEF DiskInv
    <3> QED
      BY <3>2, <3>3
  <2>2. CASE e = c
    <3>1. todo'[c] = todo[c] \ {d}
      BY <1>0 DEF ReadObjRecord, TypeOK
    <3>2. CASE Present(d)
      <4>1. UNCHANGED <<pc, staged>>
        BY <3>2 DEF ReadObjRecord
      <4>2. ScriptInv(c)'
        BY <1>0, <1>1, <1>6, <2>0, <2>2, <3>1, <3>2, <4>1 DEF ScriptInv
      <4>3. DiskInv(c)'
        BY <1>1, <1>4, <1>5, <1>6, <2>0, <2>2, <4>1 DEF DiskInv
      <4> QED
        BY <2>2, <4>2, <4>3
    <3>3. CASE ~Present(d)
      <4>1. pc'[c] = "commit" /\ staged'[c] = {d}
        BY <1>0, <3>3 DEF ReadObjRecord, Goto, TypeOK
      <4>2. ScriptInv(c)'
        BY <1>0, <1>1, <1>6, <2>0, <2>2, <3>1, <4>1 DEF ScriptInv
      <4>3. DiskInv(c)'
        BY <1>0, <1>1, <1>4, <1>5, <1>6, <2>0, <2>2, <4>1 DEF DiskInv, Streaming, Unfiled
      <4> QED
        BY <2>2, <4>2, <4>3
    <3> QED
      BY <3>2, <3>3
  <2> QED
    BY <2>1, <2>2
<1> QED
  BY <1>1, <1>4, <1>7, <1>8

\* A rename by one session leaves the others what they count on.
LEMMA OtherRename ==
    ASSUME IInv, NEW c \in Session, NEW e \in Session, e # c, NEW n \in Name,
           journal' = Append(journal, <<c, n>>),
           UNCHANGED <<stable, bad, losses, batch, want>>, synced \subseteq synced',
           pc'[e] = pc[e], todo'[e] = todo[e], staged'[e] = staged[e], written'[e] = written[e]
    PROVE  ScriptInv(e)' /\ DiskInv(e)'
<1>0. TypeOK /\ <<c, n>> \in Inode /\ ScriptInv(e) /\ DiskInv(e)
  BY DEF IInv, Inode
<1>1. /\ Entries' = Entries \cup {Len(journal) + 1} /\ \A k \in Entries : journal'[k] = journal[k]
      /\ journal'[Len(journal) + 1] = <<c, n>>
      /\ \A a : Present(a)' <=> Present(a) \/ a = <<c, n>>[2]
  BY <1>0, JournalGrows
<1>2. ASSUME NEW k \in Entries', journal'[k][1] = e \/ \E m : journal'[k] = <<e, m>>
      PROVE  k \in Entries /\ journal'[k] = journal[k]
  <2>0. \A m : <<e, m>>[1] = e
    OBVIOUS
  <2>1. journal'[k][1] = e
    BY <1>2, <2>0
  <2>2. <<c, n>>[1] = c
    OBVIOUS
  <2>3. k # Len(journal) + 1
    BY <1>1, <2>1, <2>2
  <2> QED
    BY <1>1, <2>3
<1>3. Entries \subseteq Entries' /\ \A a : Present(a) => Present(a)'
  BY <1>1
<1>4. ObjectsOf(want[e])' = ObjectsOf(want[e])
  BY DEF ObjectsOf
<1>5. ScriptInv(e)'
  BY <1>0, <1>2, <1>3, <1>4 DEF ScriptInv
<1>6. DiskInv(e)'
  <2>1. pc'[e] \in Unfiled =>
          \A m \in Snapshot : <<e, m>> \notin bad' /\ \A k \in Entries' : journal'[k] # <<e, m>>
    BY <1>0, <1>2 DEF DiskInv
  <2>2. (losses' = 0 \/ pc'[e] \in Unfiled) =>
          \A k \in Entries' : journal'[k][1] = e => journal'[k] \notin bad'
    BY <1>0, <1>2 DEF DiskInv
  <2>3. pc'[e] \in Streaming => \A d \in written'[e] : Present(d)'
    BY <1>0, <1>3 DEF DiskInv
  <2>4. (e \in batch' /\ pc'[e] \in Streaming) =>
          \A k \in Entries' : journal'[k][1] = e => journal'[k][2] \in written'[e]
    BY <1>0, <1>2 DEF DiskInv
  <2>5. ASSUME e \in batch', pc'[e] = "manifest", NEW k \in Entries', journal'[k][1] = e
        PROVE  \/ journal'[k] \in synced'
               \/ \E i \in Entries' : i > k /\ journal'[i][2] = journal'[k][2]
    <3>1. k \in Entries /\ journal'[k] = journal[k]
      BY <1>2, <2>5
    <3>2. CASE journal[k] \in synced
      BY <3>1, <3>2
    <3>3. CASE \E i \in Entries : i > k /\ journal[i][2] = journal[k][2]
      BY <1>1, <1>3, <3>1, <3>3
    <3> QED
      BY <1>0, <2>5, <3>1, <3>2, <3>3 DEF DiskInv
  <2>6. (e \in batch' /\ pc'[e] = "done") =>
          \A k \in Entries' : journal'[k] = <<e, want'[e]>> => k <= stable'
    BY <1>0, <1>2 DEF DiskInv
  <2> QED
    BY <2>1, <2>2, <2>3, <2>4, <2>5, <2>6 DEF DiskInv
<1> QED
  BY <1>5, <1>6

\* ... and every manifest in the journal, which the session had filed none of.
LEMMA FiledRename ==
    ASSUME IInv, NEW c \in Session, NEW n \in Name, pc[c] \in Unfiled,
           journal' = Append(journal, <<c, n>>),
           UNCHANGED <<bad, batch>>, synced \subseteq synced', NEW k \in Entries
    PROVE  FiledInv(k)'
<1>0. TypeOK /\ <<c, n>> \in Inode /\ FiledInv(k) /\ DiskInv(c)
  BY DEF IInv, Inode
<1>1. /\ Entries' = Entries \cup {Len(journal) + 1} /\ \A j \in Entries : journal'[j] = journal[j]
      /\ journal'[Len(journal) + 1] = <<c, n>>
  BY <1>0, JournalGrows
<1>2. ObjectsOf(journal[k][2])' = ObjectsOf(journal'[k][2]) /\ journal'[k] = journal[k]
  BY <1>1 DEF ObjectsOf
<1>3. ASSUME journal[k][2] \in Snapshot PROVE journal[k][1] # c
  <2>1. journal[k] \in Inode
    BY <1>0, ElementOfSeq DEF TypeOK, Entries
  <2>2. journal[k] = <<journal[k][1], journal[k][2]>>
    BY <2>1 DEF Inode
  <2> QED
    BY <1>0, <1>3, <2>2 DEF DiskInv
<1>4. ASSUME journal[k][2] \in Snapshot, NEW d \in ObjectsOf(journal[k][2])
      PROVE  \E i \in Entries' : i < k /\ journal'[i][2] = d
  BY <1>0, <1>1, <1>4 DEF FiledInv
<1>5. ASSUME journal[k][2] \in Snapshot, journal[k][1] \in batch,
             NEW j \in Entries', journal'[j][1] = journal[k][1]
      PROVE  \/ journal'[j] \in synced' \ bad'
             \/ \E i \in Entries' : j < i /\ i < k /\ journal'[i][2] = journal'[j][2]
  <2>0. <<c, n>>[1] = c
    OBVIOUS
  <2>1. j \in Entries /\ journal'[j] = journal[j]
    BY <1>1, <1>3, <1>5, <2>0
  <2>2. CASE journal[j] \in synced \ bad
    BY <2>1, <2>2
  <2>3. CASE \E i \in Entries : j < i /\ i < k /\ journal[i][2] = journal[j][2]
    BY <1>1, <2>1, <2>3
  <2>4. \/ journal[j] \in synced \ bad
        \/ \E i \in Entries : j < i /\ i < k /\ journal[i][2] = journal[j][2]
    BY <1>0, <1>5, <2>1 DEF FiledInv
  <2> QED
    BY <2>2, <2>3, <2>4
<1>6. journal'[k][2] \in Snapshot <=> journal[k][2] \in Snapshot
  BY <1>2
<1>7. ObjectsOf(journal'[k][2]) = ObjectsOf(journal[k][2])
  BY <1>2
<1> HIDE DEF Entries
<1> QED
  BY <1>2, <1>4, <1>5, <1>6, <1>7 DEF FiledInv

\* An object is renamed in.
LEMMA CommitStep ==
    ASSUME IInv, NEW c \in Session, CommitObject(c)
    PROVE  /\ \A e \in Session : ScriptInv(e)' /\ DiskInv(e)'
           /\ \A k \in Entries' : FiledInv(k)'
<1>0. TypeOK /\ pc[c] = "commit" /\ ScriptInv(c) /\ DiskInv(c)
  BY DEF IInv, CommitObject
<1>1. PICK d \in staged[c] :
         /\ <<c, d>> \notin bad
         /\ journal' = Append(journal, <<c, d>>)
         /\ written' = [written EXCEPT ![c] = IF c \in batch THEN @ \cup {d} ELSE @]
  BY DEF CommitObject
<1>2. /\ UNCHANGED <<stable, synced, bad, losses, batch, want, todo>>
      /\ staged'[c] = {} /\ pc'[c] = "stream"
      /\ \A e \in Session \ {c} : pc'[e] = pc[e] /\ staged'[e] = staged[e] /\ written'[e] = written[e]
      /\ written'[c] = IF c \in batch THEN written[c] \cup {d} ELSE written[c]
  BY <1>0, <1>1 DEF CommitObject, Goto, TypeOK
<1>3. d \in Name /\ d \in Data /\ <<c, d>> \in Inode /\ d \notin todo[c]
  BY <1>0 DEF TypeOK, Name, Inode, ScriptInv
<1>4. /\ Entries' = Entries \cup {Len(journal) + 1} /\ \A k \in Entries : journal'[k] = journal[k]
      /\ journal'[Len(journal) + 1] = <<c, d>>
      /\ \A a : Present(a)' <=> Present(a) \/ a = d
  BY <1>0, <1>1, <1>3, JournalGrows
<1>5. ASSUME NEW e \in Session, e # c PROVE ScriptInv(e)' /\ DiskInv(e)'
  BY <1>1, <1>2, <1>3, <1>5, OtherRename
<1>6. ASSUME NEW k \in Entries' PROVE FiledInv(k)'
  <2>1. CASE k \in Entries
    BY <1>0, <1>1, <1>2, <1>3, <2>1, FiledRename DEF Unfiled, Streaming
  <2>2. CASE k = Len(journal) + 1
    BY <1>3, <1>4, <2>2, NamesAssumption DEF FiledInv
  <2> QED
    BY <1>4, <1>6, <2>1, <2>2
<1>8. ScriptInv(c)'
  <2>1. ObjectsOf(want[c])' = ObjectsOf(want[c])
    BY <1>2 DEF ObjectsOf
  <2>2. staged[c] = {d}
    BY <1>0, <1>1 DEF ScriptInv
  <2> QED
    BY <1>0, <1>2, <1>3, <1>4, <2>1, <2>2 DEF ScriptInv
<1>9. DiskInv(c)'
  <2>0. <<c, d>>[1] = c /\ <<c, d>>[2] = d /\ \A m \in Snapshot : <<c, d>> # <<c, m>>
    BY <1>3, NamesAssumption
  <2>1. \A m \in Snapshot : <<c, m>> \notin bad' /\ \A k \in Entries' : journal'[k] # <<c, m>>
    BY <1>0, <1>2, <1>4, <2>0 DEF DiskInv, Unfiled, Streaming
  <2>2. \A k \in Entries' : journal'[k][1] = c => journal'[k] \notin bad'
    BY <1>0, <1>1, <1>2, <1>4 DEF DiskInv, Unfiled, Streaming
  <2>3. \A a \in written'[c] : Present(a)'
    BY <1>0, <1>2, <1>4 DEF DiskInv, Streaming
  <2>4. c \in batch' => \A k \in Entries' : journal'[k][1] = c => journal'[k][2] \in written'[c]
    BY <1>0, <1>2, <1>4, <2>0 DEF DiskInv, Streaming
  <2> QED
    BY <1>2, <2>1, <2>2, <2>3, <2>4 DEF DiskInv
<1> QED
  BY <1>5, <1>6, <1>8, <1>9

\* A manifest is filed: what its session has renamed is synced under Batch, or
\* renamed over, and all of its objects come before it.
LEMMA ManifestStep ==
    ASSUME IInv, NEW c \in Session, PutManifest(c)
    PROVE  /\ \A e \in Session : ScriptInv(e)' /\ DiskInv(e)'
           /\ \A k \in Entries' : FiledInv(k)'
<1> PICK m, last : m = want[c] /\ last = Len(journal) + 1
  OBVIOUS
<1>0. TypeOK /\ pc[c] = "manifest" /\ ScriptInv(c) /\ DiskInv(c) /\ m \in Snapshot
  BY DEF IInv, PutManifest, TypeOK
<1>1. /\ journal' = Append(journal, <<c, m>>)
      /\ synced' = IF c \in batch THEN synced \cup {<<c, m>>} ELSE synced
      /\ UNCHANGED <<stable, bad, losses, batch, want, todo, staged, written>>
  BY DEF PutManifest
<1>2. /\ pc'[c] = IF c \in batch THEN "syncdir" ELSE "done"
      /\ \A e \in Session \ {c} : pc'[e] = pc[e]
  BY <1>0 DEF PutManifest, Goto, TypeOK
<1>3. m \in Name /\ <<c, m>> \in Inode /\ <<c, m>>[1] = c /\ <<c, m>>[2] = m
  BY <1>0 DEF Name, Inode
<1>4. /\ Entries' = Entries \cup {last} /\ \A k \in Entries : journal'[k] = journal[k]
      /\ journal'[last] = <<c, m>> /\ last \notin Entries
      /\ \A a : Present(a)' <=> Present(a) \/ a = m
      /\ \A k \in Entries : k < last
  <2>1. Entries \subseteq Nat /\ Len(journal) \in Nat
    BY <1>0, <1>1, <1>3, JournalGrows
  <2>2. \A k \in Entries : k < last
    BY <2>1 DEF Entries
  <2> QED
    BY <1>0, <1>1, <1>3, <2>2, JournalGrows
<1>5. synced \subseteq synced'
  BY <1>1
<1>6. ASSUME NEW e \in Session, e # c PROVE ScriptInv(e)' /\ DiskInv(e)'
  BY <1>1, <1>2, <1>3, <1>5, <1>6, OtherRename
<1>7. ASSUME NEW k \in Entries PROVE FiledInv(k)'
  BY <1>0, <1>1, <1>3, <1>5, <1>7, FiledRename DEF Unfiled
<1>8. FiledInv(last)'
  <2>1. ASSUME NEW d \in ObjectsOf(m) PROVE \E i \in Entries' : i < last /\ journal'[i][2] = d
    <3>1. Present(d)
      BY <1>0, <2>1 DEF ScriptInv
    <3>2. PICK i \in Entries : journal[i][2] = d
      BY <3>1, PresentEntry
    <3> QED
      BY <1>4, <3>2
  <2>2. ASSUME c \in batch, NEW j \in Entries', journal'[j][1] = c
        PROVE  \/ journal'[j] \in synced' \ bad'
               \/ \E i \in Entries' : j < i /\ i < last /\ journal'[i][2] = journal'[j][2]
    <3>1. CASE j = last
      BY <1>0, <1>1, <1>4, <2>2, <3>1 DEF DiskInv, Unfiled
    <3>2. CASE j \in Entries
      <4>1. journal[j][1] = c /\ journal'[j] = journal[j] /\ journal[j] \notin bad'
        BY <1>0, <1>1, <1>4, <2>2, <3>2 DEF DiskInv, Unfiled
      <4>2. CASE journal[j] \in synced
        BY <1>5, <4>1, <4>2
      <4>3. CASE \E i \in Entries : i > j /\ journal[i][2] = journal[j][2]
        <5>1. PICK i \in Entries : i > j /\ journal[i][2] = journal[j][2]
          BY <4>3
        <5>2. i \in Entries' /\ i < last /\ j < i /\ journal'[i][2] = journal'[j][2]
          BY <1>4, <3>2, <4>1, <5>1
        <5> QED
          BY <5>2
      <4>4. \/ journal[j] \in synced
            \/ \E i \in Entries : i > j /\ journal[i][2] = journal[j][2]
        BY <1>0, <2>2, <3>2, <4>1 DEF DiskInv
      <4> QED
        BY <4>2, <4>3, <4>4
    <3> QED
      BY <1>4, <2>2, <3>1, <3>2
  <2>3. journal'[last][1] = c /\ journal'[last][2] = m
    BY <1>3, <1>4
  <2> HIDE DEF Entries
  <2>4. (\A d \in ObjectsOf(journal[last][2]) : \E i \in Entries : i < last /\ journal[i][2] = d)'
    BY <2>1, <2>3 DEF ObjectsOf
  <2>5. batch' = batch
    BY <1>1
  <2> QED
    BY <2>2, <2>3, <2>4, <2>5 DEF FiledInv
<1>9. ScriptInv(c)'
  <2>1. todo'[c] \subseteq Data /\ m \notin Data
    BY <1>0, <1>1, NamesAssumption DEF TypeOK
  <2>2. pc'[c] \in {"syncdir", "done"}
    BY <1>2
  <2> QED
    BY <1>0, <1>1, <1>3, <1>4, <2>1, <2>2 DEF ScriptInv
<1>10. DiskInv(c)'
  <2>1. pc'[c] \notin Unfiled \cup Streaming \cup {"manifest"} /\ (c \in batch => pc'[c] # "done")
    BY <1>2 DEF Unfiled, Streaming
  <2>2. ASSUME losses' = 0, NEW k \in Entries', journal'[k][1] = c PROVE journal'[k] \notin bad'
    BY <1>0, <1>1, <1>4, <2>2 DEF DiskInv, Unfiled
  <2> QED
    BY <1>1, <2>1, <2>2 DEF DiskInv
<1> QED
  BY <1>4, <1>6, <1>7, <1>8, <1>9, <1>10

\* Power fails: only sessions that have not begun go on, and every manifest of
\* the surviving prefix has what it counts on in that prefix.
LEMMA PowerStep ==
    ASSUME IInv, PowerLoss
    PROVE  /\ \A e \in Session : ScriptInv(e)' /\ DiskInv(e)'
           /\ \A k \in Entries' : FiledInv(k)'
           /\ losses' # 0
           /\ \E k \in stable..Len(journal) : journal' = SubSeq(journal, 1, k)
<1>0. TypeOK
  BY DEF IInv
<1>1. PICK n \in stable..Len(journal) :
        /\ journal' = SubSeq(journal, 1, n)
        /\ stable' = n
        /\ LET survivors == {journal[j] : j \in 1..n}
           IN  \E lost \in SUBSET (survivors \ synced) :
                  /\ bad' = bad \cup lost
                  /\ synced' = synced \cup survivors
  BY DEF PowerLoss
<1>2. /\ Entries' = 1..n /\ Entries' \subseteq Entries /\ Entries \subseteq Nat
      /\ \A j \in Entries' : journal'[j] = journal[j]
  BY <1>0, <1>1, JournalCut
<1>3. /\ synced \ bad \subseteq synced' \ bad'
      /\ \A x \in bad' : x \in bad \/ \E j \in Entries : x = journal[j]
  BY <1>1, <1>2
<1>4. losses' # 0
  BY <1>0, PowerAssumption DEF PowerLoss, TypeOK
<1>5. /\ UNCHANGED <<batch, want, todo, written>>
      /\ \A e \in Session : staged'[e] = {}
      /\ \A e \in Session : pc'[e] = IF pc[e] \in Ended \cup {"probe"} THEN pc[e] ELSE "failed"
  BY DEF PowerLoss
<1>6. ASSUME NEW e \in Session PROVE ScriptInv(e)' /\ DiskInv(e)'
  <2>0. ScriptInv(e) /\ DiskInv(e)
    BY DEF IInv
  <2>1. \/ pc'[e] \in {"probe", "done"} /\ pc'[e] = pc[e]
        \/ pc'[e] = "failed"
    BY <1>5 DEF Ended
  <2>2. ScriptInv(e)'
    BY <1>2, <1>5, <2>0, <2>1 DEF ScriptInv
  <2>3. ASSUME pc'[e] \in Unfiled
        PROVE  /\ \A m \in Snapshot : <<e, m>> \notin bad' /\ \A k \in Entries' : journal'[k] # <<e, m>>
               /\ \A k \in Entries' : journal'[k][1] # e
    <3>1. pc[e] = "probe"
      BY <2>1, <2>3 DEF Unfiled, Streaming
    <3>2. \A k \in Entries : journal[k][1] # e
      BY <2>0, <3>1 DEF ScriptInv
    <3>3. \A m : <<e, m>>[1] = e
      OBVIOUS
    <3>4. \A m \in Snapshot : <<e, m>> \notin bad
      BY <2>0, <3>1 DEF DiskInv, Unfiled
    <3>5. \A m \in Snapshot : <<e, m>> \notin bad'
      BY <1>3, <3>2, <3>3, <3>4
    <3>6. \A k \in Entries' : journal'[k][1] # e
      BY <1>2, <3>2
    <3> QED
      BY <3>3, <3>5, <3>6
  <2>4. ASSUME e \in batch', pc'[e] = "done", NEW k \in Entries' PROVE k <= stable'
    BY <1>1, <1>2, <2>4
  <2>5. pc'[e] \notin Streaming \cup {"manifest"}
    BY <2>1 DEF Streaming
  <2>6. DiskInv(e)'
    BY <1>4, <2>3, <2>4, <2>5 DEF DiskInv
  <2> QED
    BY <2>2, <2>6
<1>7. ASSUME NEW k \in Entries' PROVE FiledInv(k)'
  <2>a. \A i \in Entries : i \in Nat /\ 1 <= i
    BY DEF Entries
  <2>b. n \in Nat
    BY <1>0, <1>1, JournalCut
  <2>c. \A i \in Entries : i < k => i \in Entries'
    BY <1>2, <1>7, <2>a, <2>b
  <2>0. /\ FiledInv(k) /\ k \in Entries /\ journal'[k] = journal[k]
        /\ \A i \in Entries : i < k => i \in Entries'
    BY <1>2, <1>7, <2>c DEF IInv
  <2>1. ASSUME journal[k][2] \in Snapshot, NEW d \in ObjectsOf(journal[k][2])
        PROVE  \E i \in Entries' : i < k /\ journal'[i][2] = d
    BY <1>2, <2>0, <2>1 DEF FiledInv
  <2>2. ASSUME journal[k][2] \in Snapshot, journal[k][1] \in batch,
               NEW j \in Entries', journal[j][1] = journal[k][1]
        PROVE  \/ journal'[j] \in synced' \ bad'
               \/ \E i \in Entries' : j < i /\ i < k /\ journal'[i][2] = journal'[j][2]
    <3>1. \/ journal[j] \in synced \ bad
          \/ \E i \in Entries : j < i /\ i < k /\ journal[i][2] = journal[j][2]
      BY <1>2, <2>0, <2>2 DEF FiledInv
    <3> QED
      BY <1>2, <1>3, <2>0, <3>1
  <2>3. ObjectsOf(journal'[k][2]) = ObjectsOf(journal[k][2])
    BY <2>0
  <2>4. \A j \in Entries' : journal'[j][1] = journal[j][1]
    BY <1>2
  <2> HIDE DEF Entries
  <2> QED
    BY <1>5, <2>0, <2>1, <2>2, <2>3, <2>4 DEF FiledInv
<1> QED
  BY <1>1, <1>4, <1>6, <1>7

\* Every step keeps the invariant.
LEMMA IInvNext ==
    ASSUME IInv, [Next]_vars PROVE IInv'
<1>1. CASE Next
  <2>1. TypeOK'
    BY <1>1, TypeNext
  <2> QED
    BY <1>1, <2>1, QuietStep, ReadStep, CommitStep, ManifestStep, PowerStep DEF Next, IInv
<1>2. CASE UNCHANGED vars
  <2>1. UNCHANGED <<journal, stable, synced, bad, losses, batch, pc, want, todo, staged, written>>
    BY <1>2 DEF vars, disk
  <2>2. stable \in Int /\ stable <= stable
    BY LenProperties DEF IInv, TypeOK
  <2>3. \A c \in Session : ScriptInv(c)' /\ DiskInv(c)'
    BY <2>1, <2>2, OtherSession
  <2>4. Entries' = Entries /\ \A k \in Entries : FiledInv(k)'
    BY <2>1, FiledStays DEF Entries
  <2>5. TypeOK'
    BY <2>1 DEF IInv, TypeOK
  <2> QED
    BY <2>3, <2>4, <2>5 DEF IInv
<1> QED
  BY <1>1, <1>2

\* The invariant holds throughout.
LEMMA Invariance == Spec => []IInv
BY InitInvariant, IInvNext, PTL DEF Spec

-----------------------------------------------------------------------------
(* The theorems.                                                           *)

\* In what survives any number of power failures, a manifest that a Batch
\* receiver filed is whole, every object of it is present, and those that this
\* very receiver wrote are intact (parse_body's `end` arm, flush_barrier,
\* write_manifest_durable), whatever other sessions have renamed over.
THEOREM PackSurvivesPowerLoss == Spec => []PackSurvives
<1>1. ASSUME IInv PROVE PackSurvives
  <2>0. TypeOK
    BY <1>1 DEF IInv
  <2>1. ASSUME NEW m \in Snapshot, Present(m), At(m)[1] \in batch
        PROVE  /\ Readable(m)
               /\ \A d \in ObjectsOf(m) : Present(d) /\ (At(d)[1] = At(m)[1] => Readable(d))
    <3>1. PICK k \in Entries : At(m) = journal[k] /\ journal[k][2] = m
      BY <2>0, <2>1, AtIsLast
    <3>2. FiledInv(k)
      BY <1>1 DEF IInv
    <3>3. journal[k] \notin bad
      <4>1. \/ journal[k] \in synced \ bad
            \/ \E i \in Entries : k < i /\ i < k /\ journal[i][2] = journal[k][2]
        BY <2>1, <3>1, <3>2 DEF FiledInv
      <4>2. \A i \in Entries : ~(k < i /\ i < k)
        BY <2>0, LenProperties DEF Entries, TypeOK
      <4> QED
        BY <4>1, <4>2
    <3>4. ASSUME NEW d \in ObjectsOf(m)
          PROVE  Present(d) /\ (At(d)[1] = At(m)[1] => Readable(d))
      <4>1. Present(d)
        BY <2>1, <3>1, <3>2, <3>4, PresentEntry DEF FiledInv
      <4>2. PICK j \in Entries : /\ At(d) = journal[j] /\ journal[j][2] = d
                                 /\ \A i \in Entries : journal[i][2] = d => i <= j
        BY <2>0, <4>1, AtIsLast
      <4>3. ASSUME At(d)[1] = At(m)[1] PROVE At(d) \notin bad
        <5>1. \/ journal[j] \in synced \ bad
              \/ \E i \in Entries : j < i /\ i < k /\ journal[i][2] = journal[j][2]
          BY <2>1, <3>1, <3>2, <4>2, <4>3 DEF FiledInv
        <5>2. \A i \in Entries : i <= j => ~(j < i)
          BY <2>0, LenProperties DEF Entries, TypeOK
        <5> QED
          BY <4>2, <5>1, <5>2
      <4> QED
        BY <4>1, <4>3 DEF Readable
    <3> QED
      BY <2>1, <3>1, <3>3, <3>4 DEF Readable
  <2> QED
    BY <2>0, <2>1 DEF PackSurvives
<1> QED
  BY <1>1, Invariance, PTL

\* Once a Batch receiver has reported success, no power failure takes back the
\* manifest it has filed (write_manifest_durable's sync_dir).
THEOREM PackSuccessIsDurable == Spec => SuccessIsDurable
<1> DEFINE A == \A c \in batch : (pc[c] = "done" /\ <<c, want[c]>> \in Range(journal))
                                    => <<c, want[c]>> \in Range(journal')
<1>1. ASSUME IInv, Next PROVE A
  <2>0. TypeOK /\ TypeOK'
    BY <1>1, TypeNext DEF IInv
  <2>1. SUFFICES ASSUME NEW c \in batch, pc[c] = "done", <<c, want[c]>> \in Range(journal)
                 PROVE  <<c, want[c]>> \in Range(journal')
    OBVIOUS
  <2>2. Range(journal) = {journal[k] : k \in Entries} /\ Range(journal') = {journal'[k] : k \in Entries'}
    BY <2>0, LenProperties DEF Range, Entries, TypeOK
  <2>3. PICK k \in Entries : journal[k] = <<c, want[c]>>
    BY <2>1, <2>2
  <2>4. k \in Entries' /\ journal'[k] = journal[k]
    <3>1. CASE UNCHANGED journal
      BY <3>1 DEF Entries
    <3>2. ASSUME NEW x \in Inode, journal' = Append(journal, x) PROVE k \in Entries' /\ journal'[k] = journal[k]
      BY <2>0, <3>2, JournalGrows
    <3>3. CASE PowerLoss
      <4>1. PICK n \in stable..Len(journal) : journal' = SubSeq(journal, 1, n)
        BY <3>3 DEF PowerLoss
      <4>2. k <= stable
        BY <1>1, <2>0, <2>1, <2>3 DEF IInv, DiskInv, TypeOK
      <4>3. Entries' = 1..n /\ \A j \in Entries' : journal'[j] = journal[j]
        BY <2>0, <4>1, JournalCut
      <4>4. k \in 1..n
        BY <2>0, <4>2, LenProperties DEF Entries, TypeOK
      <4> QED
        BY <4>3, <4>4
    <3>4. ASSUME NEW e \in Session, CommitObject(e) PROVE \E x \in Inode : journal' = Append(journal, x)
      BY <2>0, <3>4 DEF CommitObject, TypeOK, Inode, Name
    <3>5. ASSUME NEW e \in Session, PutManifest(e) PROVE \E x \in Inode : journal' = Append(journal, x)
      BY <2>0, <3>5 DEF PutManifest, TypeOK, Inode, Name
    <3>6. ASSUME NEW e \in Session,
                 \/ Probe(e) \/ ObjectsNeeded(e) \/ ReadEnd(e) \/ FlushBarrier(e) \/ SyncDir(e)
                 \/ Abort(e) \/ \E d \in Data : ReadObjRecord(e, d)
          PROVE  UNCHANGED journal
      BY <3>6 DEF Probe, ObjectsNeeded, ReadEnd, FlushBarrier, SyncDir, Abort, ReadObjRecord, disk
    <3> QED
      BY <1>1, <3>1, <3>2, <3>3, <3>4, <3>5, <3>6 DEF Next
  <2> QED
    BY <2>2, <2>3, <2>4
<1>2. IInv /\ [Next]_vars => [A]_vars
  BY <1>1
<1> QED
  BY <1>2, Invariance, PTL DEF Spec, SuccessIsDurable

\* Until the power first fails what is present is readable: nothing damaged is
\* ever renamed into place.
Verified == losses = 0 => \A n : Readable(n) <=> Present(n)

\* No damaged payload gets past its hash.
LEMMA IInvVerified == IInv => Verified
<1> SUFFICES ASSUME IInv, losses = 0, NEW n, Present(n) PROVE At(n) \notin bad
  BY DEF Verified, Readable
<1>1. TypeOK
  BY DEF IInv
<1>2. PICK k \in Entries : At(n) = journal[k]
  BY <1>1, AtIsLast
<1>3. journal[k][1] \in Session
  BY <1>1, ElementOfSeq DEF TypeOK, Entries, Inode
<1> QED
  BY <1>2, <1>3 DEF IInv, DiskInv

\* As long as the power holds, a step is one of a content store's.
LEMMA NextRefines ==
    ASSUME IInv, Verified, Verified', [Next]_vars, losses' = 0
    PROVE  CS!Next \/ UNCHANGED CS!vars
<1>0. TypeOK
  BY DEF IInv
<1>1. losses = 0
  BY <1>0, PowerAssumption DEF Next, PowerLoss, Probe, ObjectsNeeded, ReadObjRecord, CommitObject,
        ReadEnd, FlushBarrier, PutManifest, SyncDir, Abort, vars, disk, TypeOK
<1>2. \A n : Readable(n) <=> Present(n)
  BY <1>1 DEF Verified
<1>3. \A n : Readable(n)' <=> Present(n)'
  BY DEF Verified
<1>4. CASE UNCHANGED journal
  <2>1. \A n : Present(n)' <=> Present(n)
    BY <1>4 DEF Present, Positions
  <2>2. /\ {d \in Data : Readable(d)}' = {d \in Data : Readable(d)}
        /\ {m \in Snapshot : Readable(m)}' = {m \in Snapshot : Readable(m)}
    BY <1>2, <1>3, <2>1
  <2> QED
    BY <2>2 DEF CS!vars
<1>5. ASSUME NEW c \in Session, NEW d \in Data, journal' = Append(journal, <<c, d>>)
      PROVE  CS!Next \/ UNCHANGED CS!vars
  <2>1. \A n : Present(n)' <=> Present(n) \/ n = d
    BY <1>0, <1>5, JournalGrows DEF Inode, Name
  <2>2. /\ {a \in Data : Readable(a)}' = {a \in Data : Readable(a)} \cup {d}
        /\ {m \in Snapshot : Readable(m)}' = {m \in Snapshot : Readable(m)}
    BY <1>2, <1>3, <2>1, NamesAssumption
  <2> QED
    BY <2>2 DEF CS!Next, CS!AddObject, CS!vars
<1>6. ASSUME NEW c \in Session, PutManifest(c) PROVE CS!Next \/ UNCHANGED CS!vars
  <2>1. want[c] \in Snapshot /\ journal' = Append(journal, <<c, want[c]>>)
    BY <1>0, <1>6 DEF PutManifest, TypeOK
  <2>2. \A n : Present(n)' <=> Present(n) \/ n = want[c]
    BY <1>0, <2>1, JournalGrows DEF Inode, Name
  <2>3. /\ {d \in Data : Readable(d)}' = {d \in Data : Readable(d)}
        /\ {m \in Snapshot : Readable(m)}' = {m \in Snapshot : Readable(m)} \cup {want[c]}
    BY <1>2, <1>3, <2>1, <2>2, NamesAssumption
  <2>4. ObjectsOf(want[c]) \subseteq {d \in Data : Readable(d)}
    BY <1>2, <1>6, <2>1, ObjectsOfData DEF PutManifest, IInv, ScriptInv
  <2>5. want[c] \in CS!Snapshot /\ CS!ObjectsOf(want[c]) = ObjectsOf(want[c])
    BY <2>1 DEF CS!Snapshot, Snapshot, CS!ObjectsOf, ObjectsOf
  <2> QED
    BY <2>3, <2>4, <2>5 DEF CS!Next, CS!CommitManifest, CS!vars
<1>7. ASSUME NEW c \in Session, CommitObject(c)
      PROVE  \E d \in Data : journal' = Append(journal, <<c, d>>)
  BY <1>0, <1>7 DEF CommitObject, TypeOK
<1>8. ASSUME NEW c \in Session,
             \/ Probe(c) \/ ObjectsNeeded(c) \/ ReadEnd(c) \/ FlushBarrier(c) \/ SyncDir(c)
             \/ Abort(c) \/ \E d \in Data : ReadObjRecord(c, d)
      PROVE  UNCHANGED journal
  BY <1>8 DEF Probe, ObjectsNeeded, ReadEnd, FlushBarrier, SyncDir, Abort, ReadObjRecord, disk
<1>9. CASE Next
  BY <1>0, <1>4, <1>5, <1>6, <1>7, <1>8, <1>9, PowerStep DEF Next
<1>10. CASE UNCHANGED vars
  BY <1>4, <1>10 DEF vars, disk
<1> QED
  BY <1>9, <1>10

\* Until the first power failure the accelerated push implements the abstract
\* content store: racing receivers, damaged or truncated streams and sessions
\* cut anywhere file verified objects only, and a manifest after all of them.
THEOREM PackRefinement == Spec => ImplementsContentStore
<1>1. Init => CS!Init
  <2> SUFFICES ASSUME Init PROVE CS!Init
    OBVIOUS
  <2>1. \A n : ~Readable(n)
    BY DEF Init, Readable, Present, Positions
  <2> QED
    BY <2>1 DEF CS!Init
<1>2. IInv /\ Verified /\ Verified' /\ [Next]_vars
         => [losses' = 0 => CS!Next \/ UNCHANGED CS!vars]_vars
  BY NextRefines
<1>3. Spec => []Verified
  BY IInvVerified, Invariance, PTL
<1> QED
  BY <1>1, <1>2, <1>3, Invariance, PTL DEF Spec, ImplementsContentStore

=============================================================================
