---------------------------- MODULE LibraryProofs ----------------------------
(***************************************************************************)
(* The library at its two ends: the walk of snapdir-core and the C ABI of  *)
(* snapdir-ffi.  For any tree, requests, links and edits, what a finished  *)
(* walk says of a plain file is what the file held; without edits it lists *)
(* exactly what one sequential reading of the tree does; and diff tells    *)
(* what has changed since.  For any number of host threads and calls, a    *)
(* failure explains itself, and what a host that follows the contract      *)
(* loses is paid for by the optional parameters it passed that were        *)
(* dropped.                                                                *)
(***************************************************************************)
EXTENDS Diff, Ffi, SequenceTheorems, WellFoundedInduction, TLAPS

-----------------------------------------------------------------------------
(* The walk.                                                               *)

\* The states of a lookup after each of the first n names.
IsLookup(f, t, o, p, n) ==
    f = [i \in 0..n |-> IF i = 0 THEN Start(t) ELSE Follow(t, o, f[i - 1], p[i])]

\* Numbers have a least element wherever some have a property.
LEMMA LeastNatural ==
    ASSUME NEW T, T \subseteq Nat, T # {} PROVE \E m \in T : \A y \in T : ~(y < m)
<1>1. IsWellFoundedOn(OpToRel(<,Nat), Nat)
  BY NatLessThanWellFounded
<1> DEFINE R == OpToRel(<,Nat)
<1>2. PICK m \in T : \A y \in T : ~(<<y, m>> \in R)
  <2> HIDE DEF R
  <2>1. IsWellFoundedOn(R, Nat)
    BY <1>1 DEF R
  <2> QED
    BY <2>1, WFMin
<1> QED
  BY <1>2 DEF OpToRel

\* A lookup of any length exists, although it is defined by recursion: the
\* shortest one that did not would extend the one before it.
LEMMA LookupExists ==
    ASSUME NEW t, NEW o, NEW p, NEW n \in Nat PROVE \E f : IsLookup(f, t, o, p, n)
<1> DEFINE T == {m \in Nat : ~\E f : IsLookup(f, t, o, p, m)}
<1> SUFFICES ASSUME T # {} PROVE FALSE
  OBVIOUS
<1>1. PICK m \in T : \A y \in T : ~(y < m)
  <2> T \subseteq Nat
    OBVIOUS
  <2> HIDE DEF T
  <2> QED
    BY LeastNatural
<1>2. CASE m = 0
  <2> DEFINE f == [i \in 0..0 |-> Start(t)]
  <2>1. IsLookup(f, t, o, p, 0)
    BY DEF IsLookup
  <2> QED
    BY <1>1, <1>2, <2>1
<1>3. CASE m # 0
  <2>1. m \in Nat /\ m - 1 \in Nat /\ m - 1 < m
    BY <1>1, <1>3
  <2>2. PICK f : IsLookup(f, t, o, p, m - 1)
    BY <1>1, <2>1
  <2> DEFINE g == [i \in 0..m |-> IF i < m THEN f[i] ELSE Follow(t, o, f[m - 1], p[m])]
  <2>3. \A i \in 0..(m - 1) : f[i] = IF i = 0 THEN Start(t) ELSE Follow(t, o, f[i - 1], p[i])
    BY <2>2 DEF IsLookup
  <2>4. \A i \in 0..m : g[i] = IF i = 0 THEN Start(t) ELSE Follow(t, o, g[i - 1], p[i])
    <3> SUFFICES ASSUME NEW i \in 0..m
                 PROVE  g[i] = IF i = 0 THEN Start(t) ELSE Follow(t, o, g[i - 1], p[i])
      OBVIOUS
    <3>1. CASE i = 0
      BY <2>1, <2>3, <3>1, <1>3
    <3>2. CASE i # 0
      <4>1. i - 1 \in 0..m /\ i - 1 < m /\ g[i - 1] = f[i - 1]
        BY <2>1, <3>2
      <4>2. CASE i < m
        BY <2>1, <2>3, <3>2, <4>1, <4>2
      <4>3. CASE i = m
        BY <2>1, <3>2, <4>1, <4>3
      <4> QED
        BY <2>1, <4>2, <4>3
    <3> QED
      BY <3>1, <3>2
  <2>5. IsLookup(g, t, o, p, m)
    <3> DEFINE h == [i \in 0..m |-> IF i = 0 THEN Start(t) ELSE Follow(t, o, g[i - 1], p[i])]
    <3>1. g = h
      <4>1. \A i \in 0..m : g[i] = h[i]
        BY <2>4
      <4> QED
        BY <4>1
    <3> QED
      BY <3>1 DEF IsLookup
  <2> QED
    BY <1>1, <2>5
<1> QED
  BY <1>2, <1>3

\* What StatIn computes.
LEMMA StatIsLookup ==
    ASSUME NEW t, NEW o, NEW p, Len(p) \in Nat
    PROVE  \E f : IsLookup(f, t, o, p, Len(p)) /\ StatIn(t, o, p) = f[Len(p)]
<1> DEFINE F == CHOOSE f : IsLookup(f, t, o, p, Len(p))
<1>1. IsLookup(F, t, o, p, Len(p))
  BY LookupExists
<1>2. StatIn(t, o, p) = F[Len(p)]
  BY DEF StatIn, IsLookup
<1> QED
  BY <1>1, <1>2


-----------------------------------------------------------------------------
(* Sequences of names. *)

LEMMA AppendParts ==
    ASSUME NEW S, NEW d \in Seq(S), NEW n \in S
    PROVE  /\ Append(d, n) \in Seq(S) /\ Append(d, n) # << >>
           /\ Front(Append(d, n)) = d /\ Last(Append(d, n)) = n
<1>1. /\ Append(d, n) \in Seq(S) /\ Append(d, n) # << >>
      /\ Len(Append(d, n)) = Len(d) + 1
      /\ \A i \in 1..Len(d) : Append(d, n)[i] = d[i]
      /\ Append(d, n)[Len(d) + 1] = n
  BY AppendProperties
<1>2. Last(Append(d, n)) = n
  BY <1>1 DEF Last
<1>3. Len(d) \in Nat
  BY LenProperties
<1>4. SubSeq(Append(d, n), 1, Len(d)) = d
  BY <1>1, <1>3
<1> QED
  BY <1>1, <1>2, <1>3, <1>4 DEF Front

LEMMA PathParts ==
    ASSUME NEW S, NEW p \in Seq(S), p # << >>
    PROVE  /\ Len(p) \in Nat \ {0} /\ Front(p) \in Seq(S) /\ Last(p) \in S
           /\ Len(Front(p)) = Len(p) - 1
           /\ Append(Front(p), Last(p)) = p
           /\ \A k \in 0..(Len(p) - 1) : SubSeq(Front(p), 1, k) = SubSeq(p, 1, k)
<1>1. Len(p) \in Nat \ {0} /\ p[Len(p)] \in S
  BY EmptySeq, LenProperties, ElementOfSeq
<1>2. Front(p) = SubSeq(p, 1, Len(p) - 1) /\ Last(p) = p[Len(p)]
  BY DEF Front, Last
<1>3. Front(p) \in Seq(S) /\ Len(Front(p)) = Len(p) - 1
  <2> PICK m : m = Len(p) - 1
    OBVIOUS
  <2>1. m \in Nat /\ \A i \in 1..m : i \in 1..Len(p)
    BY <1>1
  <2>2. \A i \in 1..m : p[i] \in S
    BY <2>1, ElementOfSeq
  <2>3. SubSeq(p, 1, m) \in Seq(S) /\ Len(SubSeq(p, 1, m)) = m
    BY <1>1, <2>1, <2>2
  <2> QED
    BY <1>2, <2>3
<1>4. Append(Front(p), Last(p)) = p
  BY <1>1, <1>2
<1>5. \A k \in 0..(Len(p) - 1) : SubSeq(Front(p), 1, k) = SubSeq(p, 1, k)
  BY <1>1, <1>2
<1> QED
  BY <1>1, <1>2, <1>3, <1>4, <1>5

LEMMA PrefixStep ==
    ASSUME NEW S, NEW p \in Seq(S), NEW i \in 1..Len(p)
    PROVE  /\ SubSeq(p, 1, i - 1) \in Seq(S) /\ p[i] \in S
           /\ Append(SubSeq(p, 1, i - 1), p[i]) = SubSeq(p, 1, i)
<1>1. Len(p) \in Nat
  BY LenProperties
<1> QED
  BY <1>1

-----------------------------------------------------------------------------
(* Lookups of a path whose parents are directories. *)

\* A lookup's state, and the one a lookup without a link has reached.
IsState(st) == st = [x \in {"at", "node", "links", "res"} |-> st[x]]
Reached(st, t, p, i) ==
  /\ IsState(st) /\ st.res = "ok" /\ st.at = SubSeq(p, 1, i)
  /\ st.node = t[SubSeq(p, 1, i)]

LEMMA FollowState ==
    ASSUME NEW t, NEW o, NEW st, IsState(st), NEW n PROVE IsState(Follow(t, o, st, n))
<1>1. \A x, y : IsState([st EXCEPT !.at = x, !.node = y])
  BY DEF IsState
<1>2. \A x, y, z : IsState([st EXCEPT !.at = x, !.node = y, !.links = z])
  BY DEF IsState
<1>3. \A y, z : IsState([st EXCEPT !.node = y, !.links = z])
  BY DEF IsState
<1>4. \A x : IsState([st EXCEPT !.res = x])
  BY DEF IsState
<1> QED
  BY <1>1, <1>2, <1>3, <1>4, ZenonT(30) DEF Follow

LEMMA StartReached ==
    ASSUME NEW t, NEW p PROVE Reached(Start(t), t, p, 0)
<1>1. SubSeq(p, 1, 0) = << >>
  OBVIOUS
<1> QED
  BY <1>1 DEF Reached, IsState, Start

\* One name further: what is found there is what the tree has there.
LEMMA FollowReached ==
    ASSUME NEW t, NEW o, NEW p \in Seq(Names), NEW i \in 1..Len(p), NEW st,
           Reached(st, t, p, i - 1), t[SubSeq(p, 1, i - 1)].kind = "dir",
           SubSeq(p, 1, i) \in DOMAIN t => t[SubSeq(p, 1, i)].kind # "link"
    PROVE  LET q == SubSeq(p, 1, i)  r == Follow(t, o, st, p[i])
           IN  IF Shut(t[SubSeq(p, 1, i - 1)]) THEN r.res = "Denied"
               ELSE IF q \in DOMAIN t THEN Reached(r, t, p, i)
               ELSE r.res = "NotFound"
<1> PICK q : q = SubSeq(p, 1, i)
  OBVIOUS
<1>1. Append(st.at, p[i]) = q
  BY PrefixStep DEF Reached
<1>4. CASE Shut(t[SubSeq(p, 1, i - 1)])
  <2>1. Follow(t, o, st, p[i]) = [st EXCEPT !.res = "Denied"]
    BY <1>4 DEF Follow, Reached
  <2> QED
    BY <1>4, <2>1 DEF Reached, IsState
<1> SUFFICES ASSUME ~Shut(t[SubSeq(p, 1, i - 1)])
             PROVE  IF q \in DOMAIN t THEN Reached(Follow(t, o, st, p[i]), t, p, i)
                    ELSE Follow(t, o, st, p[i]).res = "NotFound"
  BY <1>4
<1>2. CASE q \in DOMAIN t
  <2>1. Follow(t, o, st, p[i]) = [st EXCEPT !.at = q, !.node = t[q]]
    BY <1>1, <1>2 DEF Follow, Reached
  <2> QED
    BY <1>2, <2>1 DEF Reached, IsState
<1>3. CASE q \notin DOMAIN t
  <2>1. Follow(t, o, st, p[i]) = [st EXCEPT !.res = "NotFound"]
    BY <1>1, <1>3 DEF Follow, Reached
  <2> QED
    BY <1>3, <2>1 DEF Reached, IsState
<1> QED
  BY <1>2, <1>3

\* Every name before the last leads to a directory.
Parents(p, t) ==
  \A k \in 0..(Len(p) - 1) : SubSeq(p, 1, k) \in DOMAIN t /\ t[SubSeq(p, 1, k)].kind = "dir"

LEMMA DirsReached ==
    ASSUME NEW t, NEW o, NEW p \in Seq(Names), Parents(p, t), NEW f,
           IsLookup(f, t, o, p, Len(p)), NEW m \in Nat, m < Len(p) \/ m = 0
    PROVE  f[m].res = "Denied" \/ Reached(f[m], t, p, m)
<1>0. Len(p) \in Nat
  BY LenProperties
<1>1. \A i \in 0..Len(p) : f[i] = IF i = 0 THEN Start(t) ELSE Follow(t, o, f[i - 1], p[i])
  BY DEF IsLookup
<1> DEFINE T == {i \in Nat : /\ i < Len(p) \/ i = 0
                            /\ ~(f[i].res = "Denied" \/ Reached(f[i], t, p, i))}
<1> SUFFICES ASSUME T # {} PROVE FALSE
  OBVIOUS
<1>2. PICK i \in T : \A y \in T : ~(y < i)
  <2> T \subseteq Nat
    OBVIOUS
  <2> HIDE DEF T
  <2> QED
    BY LeastNatural
<1>3. i # 0
  <2> SUFFICES ASSUME i = 0 PROVE FALSE
    OBVIOUS
  <2>1. f[0] = Start(t)
    BY <1>0, <1>1
  <2> QED
    BY <1>2, <2>1, StartReached
<1>4. i \in 1..Len(p) /\ i - 1 \in Nat /\ i - 1 < i /\ i < Len(p)
  BY <1>0, <1>2, <1>3
<1>5. f[i - 1].res = "Denied" \/ Reached(f[i - 1], t, p, i - 1)
  BY <1>0, <1>2, <1>4
<1>6. f[i] = Follow(t, o, f[i - 1], p[i])
  BY <1>0, <1>1, <1>4
<1>7. /\ SubSeq(p, 1, i) \in DOMAIN t /\ t[SubSeq(p, 1, i)].kind = "dir"
      /\ t[SubSeq(p, 1, i - 1)].kind = "dir"
  BY <1>0, <1>4 DEF Parents
<1>8. f[i].res = "Denied" \/ Reached(f[i], t, p, i)
  <2> PICK st : st = f[i - 1]
    OBVIOUS
  <2>3. CASE st.res = "Denied"
    BY <1>6, <2>3 DEF Follow
  <2>1. CASE Reached(st, t, p, i - 1)
    <3> "dir" # "link"
      OBVIOUS
    <3>1. LET q == SubSeq(p, 1, i)  r == Follow(t, o, st, p[i])
          IN  IF Shut(t[SubSeq(p, 1, i - 1)]) THEN r.res = "Denied"
              ELSE IF q \in DOMAIN t THEN Reached(r, t, p, i) ELSE r.res = "NotFound"
      BY <1>4, <1>7, <2>1, FollowReached
    <3> QED
      BY <1>6, <1>7, <3>1
  <2> QED
    BY <1>5, <2>1, <2>3
<1> QED
  BY <1>2, <1>8

\* metadata of a path that is not a link finds what the tree has there.
LEMMA StatPlain ==
    ASSUME NEW t, NEW o, NEW p \in Seq(Names), p # << >>, Parents(p, t),
           p \in DOMAIN t => t[p].kind # "link", StatIn(t, o, p).res = "ok"
    PROVE  p \in DOMAIN t /\ StatIn(t, o, p).node = t[p] /\ StatIn(t, o, p).at = p
<1>0. Len(p) \in Nat \ {0} /\ SubSeq(p, 1, Len(p)) = p
  BY PathParts
<1>1. PICK f : IsLookup(f, t, o, p, Len(p)) /\ StatIn(t, o, p) = f[Len(p)]
  BY <1>0, StatIsLookup
<1> PICK n : n = Len(p)
  OBVIOUS
<1>2. n \in 1..Len(p) /\ n - 1 \in Nat /\ n - 1 < Len(p)
  BY <1>0
<1> PICK st : st = f[n - 1]
  OBVIOUS
<1>4. f[n] = Follow(t, o, st, p[n])
  BY <1>0, <1>1, <1>2 DEF IsLookup
<1>6. f[n - 1].res = "Denied" \/ Reached(f[n - 1], t, p, n - 1)
  BY <1>1, <1>2, DirsReached
<1>3. Reached(st, t, p, n - 1)
  <2>1. st.res # "Denied"
    BY <1>1, <1>4 DEF Follow
  <2> QED
    BY <1>6, <2>1
<1>5. LET q == SubSeq(p, 1, n)  r == Follow(t, o, st, p[n])
      IN  IF Shut(t[SubSeq(p, 1, n - 1)]) THEN r.res = "Denied"
          ELSE IF q \in DOMAIN t THEN Reached(r, t, p, n) ELSE r.res = "NotFound"
  <2>1. t[SubSeq(p, 1, n - 1)].kind = "dir"
    BY <1>2 DEF Parents
  <2> QED
    BY <1>0, <1>2, <1>3, <2>1, FollowReached
<1> QED
  BY <1>0, <1>1, <1>4, <1>5 DEF Reached

\* symlink_metadata of such a path finds the same.
LEMMA LstatPlain ==
    ASSUME NEW t, NEW o, NEW p \in Seq(Names), p # << >>, Parents(p, t),
           LstatIn(t, o, p).res = "ok"
    PROVE  p \in DOMAIN t /\ LstatIn(t, o, p).node = t[p]
<1>0. Len(p) \in Nat \ {0} /\ Front(p) \in Seq(Names) /\ Len(Front(p)) = Len(p) - 1
  BY PathParts
<1> PICK d : d = StatIn(t, o, Front(p))
  OBVIOUS
<1>3. d.res = "ok"
  BY DEF LstatIn
<1>1. d.at = Front(p) /\ d.res = "ok"
  <2> PICK q : q = Front(p)
    OBVIOUS
  <2>0. q \in Seq(Names) /\ Len(q) \in Nat /\ Len(q) + 1 = Len(p)
    BY <1>0
  <2>1. PICK f : IsLookup(f, t, o, q, Len(q)) /\ d = f[Len(q)]
    BY <2>0, StatIsLookup
  <2>2. SubSeq(q, 1, Len(q)) = q
    BY <2>0
  <2>3. CASE Len(q) = 0
    <3>1. Parents(q, t)
      BY <2>3 DEF Parents
    <3>2. Reached(d, t, q, Len(q))
      <4>1. f[Len(q)].res = "Denied" \/ Reached(f[Len(q)], t, q, Len(q))
        BY <2>0, <2>1, <2>3, <3>1, DirsReached
      <4> QED
        BY <1>3, <2>1, <4>1
    <3> QED
      BY <2>2, <3>2 DEF Reached
  <2>4. CASE Len(q) # 0
    <3> PICK m : m = Len(q)
      OBVIOUS
    <3>1. m \in 1..Len(q) /\ m - 1 \in Nat /\ m - 1 < Len(q)
      BY <2>0, <2>4
    <3>2. \A k \in 0..Len(q) : SubSeq(q, 1, k) = SubSeq(p, 1, k)
      BY <2>0, PathParts
    <3>3. \A k \in 0..Len(q) : SubSeq(q, 1, k) \in DOMAIN t /\ t[SubSeq(q, 1, k)].kind = "dir"
      <4> SUFFICES ASSUME NEW k \in 0..Len(q)
                   PROVE  SubSeq(p, 1, k) \in DOMAIN t /\ t[SubSeq(p, 1, k)].kind = "dir"
        BY <3>2
      <4>1. k \in 0..(Len(p) - 1)
        BY <2>0
      <4> QED
        BY <4>1 DEF Parents
    <3>4. Parents(q, t)
      BY <2>0, <3>3 DEF Parents
    <3> PICK st : st = f[m - 1]
      OBVIOUS
    <3>6. f[m] = Follow(t, o, st, q[m])
      BY <2>0, <2>1, <3>1 DEF IsLookup
    <3>5. Reached(st, t, q, m - 1)
      <4>1. f[m - 1].res = "Denied" \/ Reached(f[m - 1], t, q, m - 1)
        BY <2>0, <2>1, <3>1, <3>4, DirsReached
      <4>2. st.res # "Denied"
        <5>1. st.res = "Denied" => f[m] = st
          BY <3>6 DEF Follow
        <5> QED
          BY <1>3, <2>1, <5>1
      <4> QED
        BY <4>1, <4>2
    <3>7. /\ SubSeq(q, 1, m) \in DOMAIN t /\ t[SubSeq(q, 1, m)].kind = "dir" /\ "dir" # "link"
          /\ t[SubSeq(q, 1, m - 1)].kind = "dir"
      BY <2>0, <3>1, <3>3
    <3>8. LET e == SubSeq(q, 1, m)  r == Follow(t, o, st, q[m])
          IN  IF Shut(t[SubSeq(q, 1, m - 1)]) THEN r.res = "Denied"
              ELSE IF e \in DOMAIN t THEN Reached(r, t, q, m) ELSE r.res = "NotFound"
      BY <2>0, <3>1, <3>5, <3>7, FollowReached
    <3>9. Reached(d, t, q, m)
      BY <1>3, <2>1, <3>6, <3>7, <3>8
    <3> QED
      BY <2>2, <3>9 DEF Reached
  <2> QED
    BY <2>3, <2>4
<1>2. Append(d.at, Last(p)) = p
  BY <1>1, PathParts
<1> QED
  BY <1>1, <1>2 DEF LstatIn

-----------------------------------------------------------------------------
(* The inductive invariant of a walk. *)

IsFile(node) == node \in {FileNode(node.bytes), LockedFile(node.bytes)}

\* The tree and what it has held: every file of the tree was in it when the
\* walk began, below directories that stay, and its bytes have been seen.
FilesKnown ==
  /\ \A p \in DOMAIN seen :
       p \in Seq(Names) /\ p # << >> /\ Parents(p, tree) /\ seen[p] \subseteq Contents
  /\ FilesOf(tree) \subseteq DOMAIN seen
  /\ \A p \in DOMAIN seen \cap DOMAIN tree :
       /\ tree[p].kind = "file" /\ IsFile(tree[p])
       /\ tree[p].bytes \in seen[p]

\* Directory records, the directories being read and the queue are about
\* paths of names.
IsRecord(r) == r = [x \in {"perm", "child_dirs", "files"} |-> r[x]]
IsSlot(s) == s = [x \in {"perm", "checksum", "size"} |-> s[x]]
RecordsTyped ==
  \A d \in DOMAIN dirs :
    /\ d \in Seq(Names) /\ IsRecord(dirs[d]) /\ DOMAIN dirs[d].files \subseteq Names
    /\ \A n \in DOMAIN dirs[d].files : IsSlot(dirs[d].files[n])
Levels == [dir : Seq(Names), read : BOOLEAN, left : SUBSET Names]
StackTyped == stack \in Seq(Levels)
QueueTyped == \A p \in DOMAIN pending : p \in Seq(Names) /\ p # << >>

\* What may be told of a file: bytes it has held, or, of one rewritten under
\* its hasher, a mixture.
Told(p, c) ==
  /\ p \in midread \/ c \in seen[p]
  /\ \A i \in DOMAIN c : HeldAt(p, i, c[i]) \/
                         (p \in midread /\ opts.alg = "blake3" /\ c[i] = Zero)

\* What a hasher has opened and read: as long as nobody writes into it, a
\* beginning of the file's bytes.
Begins(h) ==
  /\ \A i \in DOMAIN h.got : i \in DOMAIN h.bytes /\ h.got[i] = h.bytes[i]
  /\ h.mapped => h.length = Len(h.bytes)
Reader(p, h) ==
  /\ h = [x \in {"inode", "bytes", "mapped", "length", "got"} |-> h[x]]
  /\ h.mapped => opts.alg = "blake3"
  /\ p \in DOMAIN seen =>
       /\ h.inode \in {InTree(p), Unlinked} /\ h.bytes \in seen[p]
       /\ h.got \in Seq(Blocks \cup {Zero})
       /\ \A i \in DOMAIN h.got : HeldAt(p, i, h.got[i]) \/
                                  (p \in midread /\ opts.alg = "blake3" /\ h.got[i] = Zero)
       /\ p \in midread \/ Begins(h)
ReadersWitnessed ==
  DOMAIN open \subseteq DOMAIN stats /\ \A p \in DOMAIN open : Reader(p, open[p])

\* The slot of a file: it waits in the queue as a plain file of the length
\* its entry will state, or holds the checksum of what may be told of it.
Witnessed(p, s) ==
  IF s.checksum = Unfilled
  THEN /\ p \in DOMAIN pending /\ ~pending[p].is_symlink
       /\ s.size = pending[p].recorded_size
  ELSE /\ Told(p, s.checksum.bytes)
       /\ opts.alg # "blake3" => s.size = Len(s.checksum.bytes)
SlotsWitnessed ==
  \A d \in DOMAIN dirs : \A n \in DOMAIN dirs[d].files :
    Append(d, n) \in DOMAIN seen => Witnessed(Append(d, n), dirs[d].files[n])

\* A file some worker is hashing is queued, and its slot, if it has one, is
\* still unfilled.
HashingUnfilled ==
  \A p \in DOMAIN stats :
    /\ p \in DOMAIN pending
    /\ (Front(p) \in DOMAIN dirs /\ Last(p) \in DOMAIN dirs[Front(p)].files) =>
         SlotOf(p).checksum = Unfilled

\* Nothing is recorded before the walk, nothing is hashed during discovery.
PhasesInOrder ==
  /\ phase = "idle" => DOMAIN dirs = {} /\ DOMAIN pending = {} /\ DOMAIN stats = {}
  /\ phase = "discover" => DOMAIN stats = {}

WalkInv ==
  /\ FilesKnown /\ RecordsTyped /\ StackTyped /\ QueueTyped /\ SlotsWitnessed
  /\ HashingUnfilled /\ ReadersWitnessed /\ PhasesInOrder /\ EntriesWitnessed

LEMMA WalkInitInv == Init => WalkInv
<1> SUFFICES ASSUME Init PROVE WalkInv
  OBVIOUS
<1>1. FilesKnown
  <2>1. IsTree(tree) /\ seen = SeenIn(tree)
    BY WalkAssumptions DEF Init
  <2>2. DOMAIN seen = FilesOf(tree) /\ \A p \in FilesOf(tree) : seen[p] = {tree[p].bytes}
    BY <2>1 DEF SeenIn
  <2>3. \A p \in FilesOf(tree) : p \in DOMAIN tree /\ tree[p].kind = "file"
    BY DEF FilesOf
  <2>4. \A p \in DOMAIN tree : Parents(p, tree) /\ p \in Seq(Names)
    BY <2>1 DEF IsTree, Parents
  <2>5. \A p \in FilesOf(tree) : p # << >> /\ IsFile(tree[p]) /\ tree[p].bytes \in Contents
    BY <2>1, <2>3 DEF IsTree, IsFile
  <2> QED
    BY <2>2, <2>3, <2>4, <2>5 DEF FilesKnown
<1>2. phase = "idle" /\ DOMAIN dirs = {} /\ DOMAIN pending = {} /\ DOMAIN stats = {}
  BY DEF Init
<1>3. RecordsTyped /\ QueueTyped /\ SlotsWitnessed /\ HashingUnfilled /\ PhasesInOrder
  BY <1>2 DEF RecordsTyped, QueueTyped, SlotsWitnessed, HashingUnfilled, PhasesInOrder
<1>5. ReadersWitnessed
  BY DEF Init, ReadersWitnessed
<1>4. StackTyped /\ EntriesWitnessed
  BY EmptySeq, <1>2 DEF Init, StackTyped, EntriesWitnessed
<1> QED
  BY <1>1, <1>3, <1>4, <1>5 DEF WalkInv

-----------------------------------------------------------------------------
(* The parts of the invariant that several actions leave as they are. *)

LEMMA FilesStay == FilesKnown /\ UNCHANGED <<tree, seen>> => FilesKnown'
BY DEF FilesKnown, FilesOf

LEMMA RecordsStay ==
    RecordsTyped /\ SlotsWitnessed /\ UNCHANGED <<dirs, opts, pending, seen, midread>> =>
      RecordsTyped' /\ SlotsWitnessed'
BY DEF RecordsTyped, SlotsWitnessed, Witnessed, Told, HeldAt

LEMMA QueueStays == QueueTyped /\ UNCHANGED pending => QueueTyped'
BY DEF QueueTyped

LEMMA HashingStays ==
    HashingUnfilled /\ UNCHANGED <<stats, pending, dirs>> => HashingUnfilled'
BY DEF HashingUnfilled, SlotOf

LEMMA ReadersStay ==
    ReadersWitnessed /\ UNCHANGED <<open, opts, seen, midread>> /\ DOMAIN stats \subseteq DOMAIN stats'
      => ReadersWitnessed'
BY DEF ReadersWitnessed, Reader, HeldAt

LEMMA FailKeeps ==
    ASSUME WalkInv, NEW e, Fail(e), UNCHANGED fsVars PROVE WalkInv'
<1>1. FilesKnown'
  BY FilesStay DEF WalkInv, fsVars
<1>2. RecordsTyped' /\ SlotsWitnessed' /\ QueueTyped'
  BY RecordsStay, QueueStays DEF WalkInv, fsVars, Fail
<1>3. DOMAIN stats' = {} /\ DOMAIN open' = {} /\ phase' = "failed" /\ stack' = << >>
  BY DEF Fail
<1>4. HashingUnfilled' /\ ReadersWitnessed' /\ PhasesInOrder' /\ EntriesWitnessed'
  BY <1>3 DEF HashingUnfilled, ReadersWitnessed, PhasesInOrder, EntriesWitnessed
<1>5. StackTyped'
  BY <1>3, EmptySeq DEF StackTyped
<1> QED
  BY <1>1, <1>2, <1>4, <1>5 DEF WalkInv

LEMMA TopTyped ==
    ASSUME StackTyped, stack # << >>
    PROVE  /\ Top \in Levels /\ Front(stack) \in Seq(Levels)
           /\ \A f \in Levels : WithTop(f) \in Seq(Levels)
           /\ \A n : Dropped(n) \in Seq(Levels)
<1>1. Len(stack) \in Nat \ {0} /\ Front(stack) \in Seq(Levels)
  BY PathParts DEF StackTyped
<1>2. Top \in Levels
  BY <1>1, ElementOfSeq DEF Top, StackTyped
<1>3. \A f \in Levels : WithTop(f) \in Seq(Levels)
  BY <1>1, ExceptSeq DEF WithTop, StackTyped
<1>4. \A n : [Top EXCEPT !.left = @ \ {n}] \in Levels
  BY <1>2 DEF Levels
<1> QED
  BY <1>1, <1>2, <1>3, <1>4 DEF Dropped

\* The walker's steps that leave the records, the queue and the workers be.
LEMMA StackOnlyKeeps ==
    ASSUME WalkInv, StackTyped', phase = "discover", phase' \in {"discover", "hash"},
           UNCHANGED <<opts, dirs, pending, stats, open, manifest, fsVars>>
    PROVE  WalkInv'
<1>1. FilesKnown' /\ ReadersWitnessed'
  BY FilesStay, ReadersStay DEF WalkInv, fsVars
<1>2. RecordsTyped' /\ SlotsWitnessed' /\ QueueTyped' /\ HashingUnfilled'
  BY RecordsStay, QueueStays, HashingStays DEF WalkInv, fsVars
<1>3. PhasesInOrder' /\ EntriesWitnessed'
  BY DEF WalkInv, PhasesInOrder, EntriesWitnessed
<1> QED
  BY <1>1, <1>2, <1>3 DEF WalkInv

-----------------------------------------------------------------------------
(* The walker's steps. *)

LEMMA DirRecordTyped ==
    ASSUME NEW perm
    PROVE  IsRecord(DirRecord(perm)) /\ DOMAIN DirRecord(perm).files = {}
<1>1. DOMAIN << >> = {}
  OBVIOUS
<1>2. DirRecord(perm).files = << >>
  BY DEF DirRecord
<1>3. IsRecord(DirRecord(perm))
  BY DEF DirRecord, IsRecord
<1> QED
  BY <1>1, <1>2, <1>3

LEMMA BeginWalkKeeps == ASSUME WalkInv, BeginWalk PROVE WalkInv'
<1>1. FilesKnown' /\ QueueTyped'
  BY FilesStay, QueueStays DEF WalkInv, fsVars, BeginWalk
<1>8. ReadersWitnessed'
  <2>1. DOMAIN open = {} /\ open' = open
    BY DEF WalkInv, PhasesInOrder, ReadersWitnessed, BeginWalk
  <2> QED
    BY <2>1 DEF ReadersWitnessed
<1>2. DOMAIN dirs = {} /\ DOMAIN pending = {} /\ DOMAIN stats = {} /\ stats' = stats
  BY DEF WalkInv, PhasesInOrder, BeginWalk
<1>3. /\ \/ dirs' = dirs /\ stack' = stack
         \/ /\ dirs' = [d \in {<< >>} |-> DirRecord(tree[d].perm)]
            /\ stack' = <<[dir |-> << >>, read |-> FALSE, left |-> {}]>>
      /\ phase' \in {"failed", "discover"}
  BY DEF BeginWalk
<1>4. \A d \in DOMAIN dirs' : d \in Seq(Names) /\ IsRecord(dirs'[d]) /\ DOMAIN dirs'[d].files = {}
  <2>1. CASE dirs' = dirs
    BY <1>2, <2>1
  <2>2. CASE dirs' = [d \in {<< >>} |-> DirRecord(tree[d].perm)]
    <3>1. \A perm : IsRecord(DirRecord(perm)) /\ DOMAIN DirRecord(perm).files = {}
      BY DirRecordTyped
    <3> QED
      BY <2>2, <3>1, EmptySeq
  <2> QED
    BY <1>3, <2>1, <2>2
<1>5. RecordsTyped' /\ SlotsWitnessed'
  BY <1>4, Zenon DEF RecordsTyped, SlotsWitnessed
<1>6. HashingUnfilled' /\ PhasesInOrder' /\ EntriesWitnessed'
  BY <1>2, <1>3 DEF HashingUnfilled, PhasesInOrder, EntriesWitnessed
<1>7. StackTyped'
  <2>1. [dir |-> << >>, read |-> FALSE, left |-> {}] \in Levels
    <3>1. << >> \in Seq(Names) /\ {} \in SUBSET Names
      BY EmptySeq
    <3> QED
      BY <3>1 DEF Levels
  <2>2. <<[dir |-> << >>, read |-> FALSE, left |-> {}]>> \in Seq(Levels)
    BY <2>1
  <2> QED
    BY <1>3, <2>2 DEF WalkInv, StackTyped
<1> QED
  BY <1>1, <1>5, <1>6, <1>7, <1>8 DEF WalkInv

LEMMA ReadDirKeeps == ASSUME WalkInv, ReadDir PROVE WalkInv'
<1> PICK d : d = Stat(Top.dir)
  OBVIOUS
<1>1. CASE Fail("Io")
  BY <1>1, FailKeeps DEF ReadDir
<1>2. CASE /\ stack' = WithTop([Top EXCEPT !.read = TRUE, !.left = ListingIn(tree, d.at)])
           /\ UNCHANGED <<opts, phase, dirs, pending, stats, open, manifest, error, meter>>
  <2>1. Top \in Levels /\ \A f \in Levels : WithTop(f) \in Seq(Levels)
    BY TopTyped DEF WalkInv, ReadDir
  <2>2. [Top EXCEPT !.read = TRUE, !.left = ListingIn(tree, d.at)] \in Levels
    <3>1. ListingIn(tree, d.at) \in SUBSET Names
      BY DEF ListingIn
    <3> QED
      BY <2>1, <3>1 DEF Levels
  <2>3. StackTyped'
    BY <1>2, <2>1, <2>2 DEF StackTyped
  <2> QED
    BY <1>2, <2>3, StackOnlyKeeps DEF ReadDir
<1> QED
  BY <1>1, <1>2 DEF ReadDir

LEMMA LeaveDirKeeps == ASSUME WalkInv, LeaveDir PROVE WalkInv'
<1>1. StackTyped'
  BY TopTyped DEF WalkInv, LeaveDir, StackTyped
<1>2. phase' \in {"discover", "hash"} /\ phase = "discover"
  BY DEF LeaveDir
<1> QED
  BY <1>1, <1>2, StackOnlyKeeps DEF LeaveDir

\* Filling in a slot changes that slot and no other.
Filled(d, n, fill) ==
  /\ DOMAIN dirs' = DOMAIN dirs
  /\ \A e \in DOMAIN dirs : \A k \in DOMAIN dirs'[e].files :
       \/ e = d /\ k = n /\ dirs'[e].files[k] = fill
       \/ /\ ~(e = d /\ k = n) /\ k \in DOMAIN dirs[e].files
          /\ dirs'[e].files[k] = dirs[e].files[k]
  /\ \A e \in DOMAIN dirs : DOMAIN dirs[e].files \subseteq DOMAIN dirs'[e].files
  /\ d \in DOMAIN dirs => n \in DOMAIN dirs'[d].files

LEMMA PutFileFills ==
    ASSUME RecordsTyped, NEW d, NEW n \in Names, NEW fill, IsSlot(fill), PutFile(d, n, fill)
    PROVE  RecordsTyped' /\ Filled(d, n, fill)
<1>1. dirs' = [dirs EXCEPT ![d].files = With(dirs[d].files, n, fill)]
  BY DEF PutFile
<1>2. DOMAIN dirs' = DOMAIN dirs
  BY <1>1
<1>3. \A e \in DOMAIN dirs : e # d => dirs'[e] = dirs[e]
  BY <1>1
<1>4. ASSUME d \in DOMAIN dirs
      PROVE  dirs'[d].files = With(dirs[d].files, n, fill) /\ IsRecord(dirs'[d])
  <2>1. IsRecord(dirs[d])
    BY <1>4 DEF RecordsTyped
  <2> PICK r : r = dirs[d]
    OBVIOUS
  <2> PICK w : w = With(r.files, n, fill)
    OBVIOUS
  <2>2. dirs'[d] = [r EXCEPT !.files = w]
    BY <1>1, <1>4
  <2>3. [r EXCEPT !.files = w].files = w /\ IsRecord([r EXCEPT !.files = w])
    BY <2>1 DEF IsRecord
  <2> QED
    BY <2>2, <2>3
<1>5. /\ DOMAIN With(dirs[d].files, n, fill) = DOMAIN dirs[d].files \cup {n}
      /\ \A k \in DOMAIN dirs[d].files \cup {n} :
           With(dirs[d].files, n, fill)[k] = IF k = n THEN fill ELSE dirs[d].files[k]
  BY DEF With
<1>6. \A e \in DOMAIN dirs : \A k \in DOMAIN dirs'[e].files :
        \/ e = d /\ k = n /\ dirs'[e].files[k] = fill
        \/ ~(e = d /\ k = n) /\ k \in DOMAIN dirs[e].files
           /\ dirs'[e].files[k] = dirs[e].files[k]
  <2> SUFFICES ASSUME NEW e \in DOMAIN dirs, NEW k \in DOMAIN dirs'[e].files
               PROVE  \/ e = d /\ k = n /\ dirs'[e].files[k] = fill
                      \/ ~(e = d /\ k = n) /\ k \in DOMAIN dirs[e].files
                         /\ dirs'[e].files[k] = dirs[e].files[k]
    OBVIOUS
  <2>1. CASE e = d
    BY <1>4, <1>5, <2>1
  <2>2. CASE e # d
    BY <1>3, <2>2
  <2> QED
    BY <2>1, <2>2
<1>7. RecordsTyped'
  <2> SUFFICES ASSUME NEW e \in DOMAIN dirs
               PROVE  /\ e \in Seq(Names) /\ IsRecord(dirs'[e])
                      /\ DOMAIN dirs'[e].files \subseteq Names
                      /\ \A k \in DOMAIN dirs'[e].files : IsSlot(dirs'[e].files[k])
    BY <1>2 DEF RecordsTyped
  <2>1. /\ e \in Seq(Names) /\ IsRecord(dirs[e]) /\ DOMAIN dirs[e].files \subseteq Names
        /\ \A k \in DOMAIN dirs[e].files : IsSlot(dirs[e].files[k])
    BY DEF RecordsTyped
  <2>2. IsRecord(dirs'[e])
    BY <1>3, <1>4, <2>1
  <2>3. \A k \in DOMAIN dirs'[e].files : k \in Names /\ IsSlot(dirs'[e].files[k])
    BY <1>6, <2>1
  <2> QED
    BY <2>1, <2>2, <2>3
<1>8. /\ \A e \in DOMAIN dirs : DOMAIN dirs[e].files \subseteq DOMAIN dirs'[e].files
      /\ d \in DOMAIN dirs => n \in DOMAIN dirs'[d].files
  BY <1>3, <1>4, <1>5
<1> QED
  BY <1>2, <1>6, <1>7, <1>8 DEF Filled

\* The two ways a file is recorded: under a checksum its link names, or to
\* be hashed.
LEMMA RecordLinkedKeeps ==
    ASSUME WalkInv, phase = "discover", NEW p, NEW own, NEW key, NEW bytes,
           Last(p) \in Names, p = Append(Top.dir, Last(p)), p \notin DOMAIN seen,
           stack # << >>, RecordLinked(p, own, key, bytes), UNCHANGED fsVars
    PROVE  WalkInv'
<1>1. CASE Fail("LinkedObjectIntegrity")
  BY <1>1, FailKeeps
<1> PICK fill : fill = Slot(own.perm, key, LengthOf(own))
  OBVIOUS
<1>2. CASE /\ PutFile(Top.dir, Last(p), fill) /\ stack' = Dropped(Last(p))
           /\ UNCHANGED <<opts, phase, pending, stats, open, manifest, error>>
  <2>1. IsSlot(fill)
    BY DEF IsSlot, Slot
  <2>2. RecordsTyped' /\ Filled(Top.dir, Last(p), fill)
    BY <1>2, <2>1, PutFileFills, Zenon DEF WalkInv
  <2>3. SlotsWitnessed'
    <3> SUFFICES ASSUME NEW e \in DOMAIN dirs', NEW k \in DOMAIN dirs'[e].files,
                        Append(e, k) \in DOMAIN seen'
                 PROVE  Witnessed(Append(e, k), dirs[e].files[k])'
      BY DEF SlotsWitnessed
    <3>1. seen' = seen /\ midread' = midread /\ pending' = pending /\ opts' = opts
      BY <1>2 DEF fsVars
    <3>2. /\ e \in DOMAIN dirs /\ k \in DOMAIN dirs[e].files
          /\ dirs'[e].files[k] = dirs[e].files[k]
      BY <2>2, <3>1 DEF Filled
    <3>3. Witnessed(Append(e, k), dirs[e].files[k])
      BY <3>1, <3>2 DEF WalkInv, SlotsWitnessed
    <3> QED
      BY <3>1, <3>2, <3>3 DEF Witnessed, Told, HeldAt
  <2>4. FilesKnown' /\ QueueTyped' /\ ReadersWitnessed'
    BY <1>2, FilesStay, QueueStays, ReadersStay DEF WalkInv, fsVars
  <2>5. HashingUnfilled' /\ PhasesInOrder' /\ EntriesWitnessed'
    BY <1>2 DEF WalkInv, HashingUnfilled, PhasesInOrder, EntriesWitnessed
  <2>6. StackTyped'
    BY <1>2, TopTyped DEF WalkInv, StackTyped
  <2> QED
    BY <2>2, <2>3, <2>4, <2>5, <2>6 DEF WalkInv
<1> QED
  BY <1>1, <1>2 DEF RecordLinked

LEMMA QueueFileKeeps ==
    ASSUME WalkInv, phase = "discover", NEW p \in Seq(Names), p # << >>, NEW own,
           Last(p) \in Names, p = Append(Top.dir, Last(p)),
           p \in DOMAIN seen => own.kind # "link",
           stack # << >>, QueueFile(p, own), UNCHANGED fsVars
    PROVE  WalkInv'
<1> DEFINE fill == Slot(own.perm, Unfilled, LengthOf(own))
<1> DEFINE job == [recorded_size |-> LengthOf(own), is_symlink |-> own.kind = "link"]
<1>1. IsSlot(fill) /\ fill.checksum = Unfilled /\ fill.size = LengthOf(own)
  BY DEF IsSlot, Slot
<1>2. job.recorded_size = LengthOf(own) /\ job.is_symlink = (own.kind = "link")
  OBVIOUS
<1>3. /\ PutFile(Top.dir, Last(p), fill) /\ stack' = Dropped(Last(p))
      /\ pending' = With(pending, p, job)
      /\ UNCHANGED <<opts, phase, stats, open, manifest, error>>
  BY DEF QueueFile
<1> HIDE DEF fill, job
<1>4. RecordsTyped' /\ Filled(Top.dir, Last(p), fill)
  BY <1>1, <1>3, PutFileFills, Zenon DEF WalkInv
<1>5. /\ DOMAIN pending' = DOMAIN pending \cup {p} /\ pending'[p] = job
      /\ \A q \in DOMAIN pending : q # p => pending'[q] = pending[q]
  BY <1>3 DEF With
<1>6. SlotsWitnessed'
  <2> SUFFICES ASSUME NEW e \in DOMAIN dirs', NEW k \in DOMAIN dirs'[e].files,
                      Append(e, k) \in DOMAIN seen'
               PROVE  Witnessed(Append(e, k), dirs[e].files[k])'
    BY DEF SlotsWitnessed
  <2>1. seen' = seen /\ midread' = midread /\ opts' = opts
    BY <1>3 DEF fsVars
  <2>2. CASE e = Top.dir /\ k = Last(p) /\ dirs'[e].files[k] = fill
    <3>1. Append(e, k) = p /\ p \in DOMAIN seen
      BY <2>1, <2>2
    <3>2. ~job.is_symlink
      BY <1>2, <3>1
    <3> QED
      BY <1>1, <1>2, <1>5, <2>2, <3>1, <3>2 DEF Witnessed, Told, HeldAt
  <2>3. CASE /\ ~(e = Top.dir /\ k = Last(p)) /\ k \in DOMAIN dirs[e].files
             /\ dirs'[e].files[k] = dirs[e].files[k]
    <3>1. Witnessed(Append(e, k), dirs[e].files[k])
      BY <1>4, <2>1, <2>3 DEF WalkInv, SlotsWitnessed, Filled
    <3>2. e \in Seq(Names) /\ k \in Names
      BY <1>4, <2>3 DEF WalkInv, RecordsTyped, Filled
    <3>3. Append(e, k) # p
      <4>1. Top.dir \in Seq(Names)
        BY TopTyped DEF WalkInv, Levels
      <4>2. Front(p) = Top.dir
        <5> PICK d : d = Top.dir
          OBVIOUS
        <5> PICK n : n = Last(p)
          OBVIOUS
        <5>1. d \in Seq(Names) /\ n \in Names /\ p = Append(d, n)
          BY <4>1
        <5>2. Front(Append(d, n)) = d
          BY <5>1, AppendParts
        <5> QED
          BY <5>1, <5>2
      <4>3. Front(Append(e, k)) = e /\ Last(Append(e, k)) = k
        BY <3>2, AppendParts
      <4> QED
        BY <2>3, <4>2, <4>3
    <3> QED
      BY <1>5, <2>1, <2>3, <3>1, <3>3 DEF Witnessed, Told, HeldAt
  <2> QED
    BY <1>4, <2>2, <2>3 DEF Filled
<1>7. QueueTyped'
  BY <1>5 DEF WalkInv, QueueTyped
<1>8. FilesKnown' /\ ReadersWitnessed'
  BY <1>3, FilesStay, ReadersStay DEF WalkInv, fsVars
<1>9. HashingUnfilled' /\ PhasesInOrder' /\ EntriesWitnessed'
  BY <1>3 DEF WalkInv, HashingUnfilled, PhasesInOrder, EntriesWitnessed
<1>10. StackTyped'
  BY <1>3, TopTyped DEF WalkInv, StackTyped
<1> QED
  BY <1>4, <1>6, <1>7, <1>8, <1>9, <1>10 DEF WalkInv

\* Reading a directory below: its record is new and holds no file yet.
LEMMA DescendIntoKeeps ==
    ASSUME WalkInv, phase = "discover", NEW p \in Seq(Names), NEW own, stack # << >>,
           DescendInto(p, own), UNCHANGED fsVars
    PROVE  WalkInv'
<1> PICK rec : rec = DirRecord(own.perm)
  OBVIOUS
<1> PICK base : base = [dirs EXCEPT ![Top.dir].child_dirs = @ \cup {p}]
  OBVIOUS
<1>1. /\ dirs' = With(base, p, rec)
      /\ stack' = Append(Dropped(Last(p)), [dir |-> p, read |-> FALSE, left |-> {}])
      /\ UNCHANGED <<opts, phase, pending, stats, open, manifest, error>>
  BY DEF DescendInto
<1>2. IsRecord(rec) /\ DOMAIN rec.files = {}
  BY DirRecordTyped
<1>3. DOMAIN base = DOMAIN dirs
  OBVIOUS
<1>4. \A e \in DOMAIN dirs : IsRecord(base[e]) /\ base[e].files = dirs[e].files
  <2> SUFFICES ASSUME NEW e \in DOMAIN dirs
               PROVE  IsRecord(base[e]) /\ base[e].files = dirs[e].files
    OBVIOUS
  <2>1. IsRecord(dirs[e])
    BY DEF WalkInv, RecordsTyped
  <2>2. CASE e # Top.dir
    <3>1. base[e] = dirs[e]
      BY <2>2
    <3> QED
      BY <2>1, <3>1
  <2>3. CASE e = Top.dir
    <3> PICK r : r = dirs[e]
      OBVIOUS
    <3>1. base[e] = [r EXCEPT !.child_dirs = @ \cup {p}]
      BY <2>3
    <3>2. IsRecord([r EXCEPT !.child_dirs = @ \cup {p}])
          /\ [r EXCEPT !.child_dirs = @ \cup {p}].files = r.files
      BY <2>1 DEF IsRecord
    <3> QED
      BY <3>1, <3>2
  <2> QED
    BY <2>2, <2>3
<1>5. DOMAIN dirs' = DOMAIN dirs \cup {p} /\ dirs'[p] = rec
      /\ \A e \in DOMAIN dirs : e # p => dirs'[e] = base[e]
  BY <1>1, <1>3 DEF With
<1>6. \A e \in DOMAIN dirs' :
        \/ e = p /\ IsRecord(dirs'[e]) /\ DOMAIN dirs'[e].files = {}
        \/ e \in DOMAIN dirs /\ IsRecord(dirs'[e]) /\ dirs'[e].files = dirs[e].files
  BY <1>2, <1>4, <1>5
<1>7. RecordsTyped'
  <2> SUFFICES ASSUME NEW e \in DOMAIN dirs'
               PROVE  /\ e \in Seq(Names) /\ IsRecord(dirs'[e])
                      /\ DOMAIN dirs'[e].files \subseteq Names
                      /\ \A k \in DOMAIN dirs'[e].files : IsSlot(dirs'[e].files[k])
    BY DEF RecordsTyped
  <2> QED
    BY <1>6 DEF WalkInv, RecordsTyped
<1>8. SlotsWitnessed'
  <2> SUFFICES ASSUME NEW e \in DOMAIN dirs', NEW k \in DOMAIN dirs'[e].files,
                      Append(e, k) \in DOMAIN seen'
               PROVE  Witnessed(Append(e, k), dirs[e].files[k])'
    BY DEF SlotsWitnessed
  <2>1. seen' = seen /\ midread' = midread /\ pending' = pending /\ opts' = opts
    BY <1>1 DEF fsVars
  <2>2. e \in DOMAIN dirs /\ dirs'[e].files = dirs[e].files
    BY <1>6
  <2>3. Witnessed(Append(e, k), dirs[e].files[k])
    BY <2>1, <2>2 DEF WalkInv, SlotsWitnessed
  <2> QED
    BY <2>1, <2>2, <2>3 DEF Witnessed, Told, HeldAt
<1>9. FilesKnown' /\ QueueTyped' /\ ReadersWitnessed'
  BY <1>1, FilesStay, QueueStays, ReadersStay DEF WalkInv, fsVars
<1>10. HashingUnfilled' /\ PhasesInOrder' /\ EntriesWitnessed'
  BY <1>1 DEF WalkInv, HashingUnfilled, PhasesInOrder, EntriesWitnessed
<1>11. StackTyped'
  <2>1. Dropped(Last(p)) \in Seq(Levels)
    BY TopTyped DEF WalkInv
  <2>2. [dir |-> p, read |-> FALSE, left |-> {}] \in Levels
    <3>1. {} \in SUBSET Names
      OBVIOUS
    <3> QED
      BY <3>1 DEF Levels
  <2> QED
    BY <1>1, <2>1, <2>2, AppendProperties DEF StackTyped
<1> QED
  BY <1>7, <1>8, <1>9, <1>10, <1>11 DEF WalkInv

\* What the file system answers about a plain file: the file itself.
LEMMA PlainFileFound ==
    ASSUME FilesKnown, NEW p \in DOMAIN seen
    PROVE  /\ Stat(p).res = "ok" => Stat(p).node.bytes \in seen[p] /\ Inode(p) = InTree(p)
           /\ Lstat(p).res = "ok" => Lstat(p).node.kind # "link"
<1>1. /\ p \in Seq(Names) /\ p # << >> /\ Parents(p, tree)
      /\ p \in DOMAIN tree => tree[p].kind = "file" /\ tree[p].bytes \in seen[p]
  BY DEF FilesKnown
<1>2. p \in DOMAIN tree => tree[p].kind # "link"
  BY <1>1
<1>5. Lstat(p).res # "ok" => Lstat(p).node.kind # "link"
  BY <1>1 DEF Lstat, LstatIn, Special
<1>4. Lstat(p).res = "ok" => Lstat(p).node.kind # "link"
  <2>1. Lstat(p).res = "ok" => p \in DOMAIN tree /\ Lstat(p).node = tree[p]
    BY <1>1, LstatPlain DEF Lstat
  <2> QED
    BY <1>2, <2>1
<1>3. Stat(p).res = "ok" => Stat(p).node.bytes \in seen[p] /\ Inode(p) = InTree(p)
  <2>1. Stat(p).res = "ok" => p \in DOMAIN tree /\ Stat(p).node = tree[p] /\ Stat(p).at = p
    BY <1>1, <1>2, StatPlain DEF Stat
  <2> QED
    BY <1>1, <1>4, <1>5, <2>1 DEF Inode
<1> QED
  BY <1>3, <1>4

LEMMA SkipKeeps ==
    ASSUME WalkInv, phase = "discover", stack # << >>, NEW n, Skip(n), UNCHANGED fsVars
    PROVE  WalkInv'
<1>1. StackTyped'
  BY TopTyped DEF WalkInv, Skip, StackTyped
<1> QED
  BY <1>1, StackOnlyKeeps DEF Skip

LEMMA VisitKeeps == ASSUME WalkInv, Visit PROVE WalkInv'
<1>1. phase = "discover" /\ stack # << >> /\ UNCHANGED fsVars
  BY DEF Visit
<1>2. PICK n \in Top.left :
        LET p == Append(Top.dir, n)  own == Lstat(p)  target == Stat(p)
        IN  \/ Skip(n)
            \/ \E e : Fail(e)
            \/ own.res = "ok" /\ DescendInto(p, own.node)
            \/ /\ own.res = "ok" /\ Recovered(own.node) # {}
               /\ \E key, bytes : RecordLinked(p, own.node, key, bytes)
            \/ own.res = "ok" /\ QueueFile(p, own.node)
  BY Zenon DEF Visit
<1> PICK p : p = Append(Top.dir, n)
  OBVIOUS
<1>3. /\ p \in Seq(Names) /\ p # << >> /\ Last(p) \in Names
      /\ p = Append(Top.dir, Last(p))
  <2>1. Top.dir \in Seq(Names) /\ n \in Names
    BY <1>1, TopTyped DEF WalkInv, Levels
  <2>2. p = Append(Top.dir, n)
    OBVIOUS
  <2> PICK d : d = Top.dir
    OBVIOUS
  <2>3. Append(d, n) \in Seq(Names) /\ Append(d, n) # << >> /\ Last(Append(d, n)) = n
    BY <2>1, AppendParts
  <2> QED
    BY <2>1, <2>2, <2>3
<1> PICK own : own = Lstat(p)
  OBVIOUS
<1>4. p \in DOMAIN seen /\ own.res = "ok" => own.node.kind # "link"
  BY PlainFileFound DEF WalkInv
<1>5. CASE Skip(n)
  BY <1>1, <1>5, SkipKeeps
<1>6. CASE \E e : Fail(e)
  BY <1>1, <1>6, FailKeeps
<1>7. CASE own.res = "ok" /\ DescendInto(p, own.node)
  BY <1>1, <1>3, <1>7, DescendIntoKeeps
<1>8. CASE /\ own.res = "ok" /\ Recovered(own.node) # {}
           /\ \E key, bytes : RecordLinked(p, own.node, key, bytes)
  <2>1. own.node.kind = "link"
    BY <1>8 DEF Recovered
  <2>2. p \notin DOMAIN seen
    BY <1>4, <1>8, <2>1
  <2> QED
    BY <1>1, <1>3, <1>8, <2>2, RecordLinkedKeeps
<1>9. CASE own.res = "ok" /\ QueueFile(p, own.node)
  BY <1>1, <1>3, <1>4, <1>9, QueueFileKeeps
<1> QED
  BY <1>2, <1>5, <1>6, <1>7, <1>8, <1>9

LEMMA BeginHashKeeps == ASSUME WalkInv, BeginHash PROVE WalkInv'
<1>1. UNCHANGED fsVars
  BY DEF BeginHash
<1>2. PICK p \in Unhashed \ DOMAIN stats :
        \/ \E e : Fail(e)
        \/ \E v : /\ stats' = With(stats, p, v) /\ phase = "hash"
                  /\ UNCHANGED <<opts, phase, stack, dirs, pending, open, manifest, error, meter>>
  BY Zenon DEF BeginHash
<1>3. CASE \E e : Fail(e)
  BY <1>1, <1>3, FailKeeps
<1>4. CASE \E v : /\ stats' = With(stats, p, v) /\ phase = "hash"
                  /\ UNCHANGED <<opts, phase, stack, dirs, pending, open, manifest, error, meter>>
  <2>1. FilesKnown' /\ QueueTyped' /\ RecordsTyped' /\ SlotsWitnessed'
    BY <1>1, <1>4, FilesStay, QueueStays, RecordsStay DEF WalkInv, fsVars
  <2>2. DOMAIN stats' = DOMAIN stats \cup {p}
    BY <1>4 DEF With
  <2>3. p \in DOMAIN pending /\ SlotOf(p).checksum = Unfilled
    BY DEF Unhashed
  <2>4. HashingUnfilled'
    BY <1>4, <2>2, <2>3 DEF WalkInv, HashingUnfilled, SlotOf
  <2>5. StackTyped' /\ PhasesInOrder' /\ EntriesWitnessed'
    BY <1>4 DEF WalkInv, StackTyped, PhasesInOrder, EntriesWitnessed
  <2>6. ReadersWitnessed'
    BY <1>1, <1>4, <2>2, ReadersStay DEF WalkInv, fsVars
  <2> QED
    BY <2>1, <2>4, <2>5, <2>6 DEF WalkInv
<1> QED
  BY <1>2, <1>3, <1>4

\* Opening and reading leave all but the open files alone.
LEMMA ReadingKeeps ==
    ASSUME WalkInv, phase = "hash", ReadersWitnessed',
           UNCHANGED <<opts, phase, stack, dirs, pending, stats, manifest, error, meter, fsVars>>
    PROVE  WalkInv'
<1>1. FilesKnown' /\ QueueTyped' /\ RecordsTyped' /\ SlotsWitnessed' /\ HashingUnfilled'
  BY FilesStay, QueueStays, RecordsStay, HashingStays DEF WalkInv, fsVars
<1>2. StackTyped' /\ PhasesInOrder' /\ EntriesWitnessed'
  BY DEF WalkInv, StackTyped, PhasesInOrder, EntriesWitnessed
<1> QED
  BY <1>1, <1>2 DEF WalkInv

\* A file just opened has been read by nothing yet.
LEMMA OpenFileKeeps == ASSUME WalkInv, OpenFile PROVE WalkInv'
<1>1. phase = "hash" /\ UNCHANGED fsVars
  BY DEF OpenFile
<1>2. PICK p \in DOMAIN stats \ DOMAIN open :
        \/ \E e : Fail(e)
        \/ \E m \in {FALSE, opts.alg = "blake3" /\ stats[p] >= MmapThreshold} :
             /\ Stat(p).res = "ok"
             /\ open' = With(open, p, [inode |-> Inode(p), bytes |-> Stat(p).node.bytes,
                                      mapped |-> m, length |-> Len(Stat(p).node.bytes),
                                      got |-> << >>])
             /\ UNCHANGED <<opts, phase, stack, dirs, pending, stats, manifest, error, meter>>
  BY Zenon DEF OpenFile
<1>3. CASE \E e : Fail(e)
  BY <1>1, <1>3, FailKeeps
<1>4. ASSUME NEW m \in {FALSE, opts.alg = "blake3" /\ stats[p] >= MmapThreshold},
             Stat(p).res = "ok",
             open' = With(open, p, [inode |-> Inode(p), bytes |-> Stat(p).node.bytes,
                                    mapped |-> m, length |-> Len(Stat(p).node.bytes),
                                    got |-> << >>]),
             UNCHANGED <<opts, phase, stack, dirs, pending, stats, manifest, error, meter>>
      PROVE  WalkInv'
  <2> PICK h : h = [inode |-> Inode(p), bytes |-> Stat(p).node.bytes,
                    mapped |-> m, length |-> Len(Stat(p).node.bytes), got |-> << >>]
    OBVIOUS
  <2>1. /\ h = [x \in {"inode", "bytes", "mapped", "length", "got"} |-> h[x]]
        /\ h.inode = Inode(p) /\ h.bytes = Stat(p).node.bytes /\ h.mapped = m
        /\ h.length = Len(Stat(p).node.bytes) /\ h.got = << >>
    OBVIOUS
  <2>2. DOMAIN h.got = {} /\ h.got \in Seq(Blocks \cup {Zero})
    BY <2>1, EmptySeq
  <2>3. p \in DOMAIN seen => h.inode = InTree(p) /\ h.bytes \in seen[p]
    BY <1>4, <2>1, PlainFileFound DEF WalkInv
  <2>4. h.mapped => opts.alg = "blake3"
    BY <2>1
  <2>5. Begins(h)
    BY <2>1, <2>2 DEF Begins
  <2>6. Reader(p, h)
    BY <2>1, <2>2, <2>3, <2>4, <2>5 DEF Reader
  <2>7. DOMAIN open' = DOMAIN open \cup {p} /\ open'[p] = h
        /\ \A q \in DOMAIN open : q # p => open'[q] = open[q]
    BY <1>4 DEF With
  <2>8. UNCHANGED <<opts, seen, midread, stats>>
    BY <1>1, <1>4 DEF fsVars
  <2>9. \A q \in DOMAIN open' : Reader(q, open'[q])
    BY <2>6, <2>7 DEF WalkInv, ReadersWitnessed
  <2>10. ReadersWitnessed'
    <3>1. \A q \in DOMAIN open' : Reader(q, open[q])'
      BY <2>8, <2>9 DEF Reader, HeldAt
    <3> QED
      BY <2>7, <2>8, <3>1 DEF WalkInv, ReadersWitnessed
  <2> QED
    BY <1>1, <1>4, <2>10, ReadingKeeps
<1> QED
  BY <1>2, <1>3, <1>4

\* A hasher that has read a beginning of its file and is not done has a block
\* before it, and reads on with it; one that is done has all of the file.
LEMMA NextBlock ==
    ASSUME NEW h, NEW n, n = Len(h.got), h.got \in Seq(Blocks \cup {Zero}),
           h.bytes \in Seq(Blocks), Begins(h), ~Through(h),
           NEW k, k.got = Append(h.got, h.bytes[n + 1]), k.bytes = h.bytes,
           k.mapped = h.mapped, k.length = h.length
    PROVE  n + 1 <= Len(h.bytes) /\ Begins(k)
<1> PICK m : m = Len(h.bytes)
  OBVIOUS
<1>1. n \in Nat /\ DOMAIN h.got = 1..n /\ m \in Nat /\ DOMAIN h.bytes = 1..m
  BY LenProperties
<1>2. n <= m
  <2>1. n > 0 => n \in 1..m
    BY <1>1 DEF Begins
  <2> QED
    BY <1>1, <2>1
<1>3. n # m
  BY <1>1 DEF Begins, Through
<1>4. n + 1 \in 1..m /\ h.bytes[n + 1] \in Blocks \cup {Zero}
  BY <1>1, <1>2, <1>3, ElementOfSeq
<1>5. DOMAIN k.got = 1..(n + 1) /\ k.got[n + 1] = h.bytes[n + 1]
      /\ \A i \in 1..n : k.got[i] = h.got[i]
  BY <1>1, <1>4, AppendProperties, LenProperties
<1>6. ASSUME NEW i \in 1..(n + 1) PROVE i \in DOMAIN k.bytes /\ k.got[i] = k.bytes[i]
  <2>1. CASE i = n + 1
    BY <1>1, <1>4, <1>5, <2>1
  <2>2. CASE i # n + 1
    <3>1. i \in 1..n
      BY <1>1, <2>2
    <3> QED
      BY <1>1, <1>5, <3>1 DEF Begins
  <2> QED
    BY <2>1, <2>2
<1>7. k.mapped => k.length = Len(k.bytes)
  BY DEF Begins
<1> QED
  BY <1>1, <1>4, <1>5, <1>6, <1>7 DEF Begins

LEMMA AllRead ==
    ASSUME NEW h, h.got \in Seq(Blocks \cup {Zero}), h.bytes \in Seq(Blocks), Begins(h),
           Through(h)
    PROVE  h.got = h.bytes
<1> PICK n : n = Len(h.got)
  OBVIOUS
<1> PICK m : m = Len(h.bytes)
  OBVIOUS
<1>1. n \in Nat /\ DOMAIN h.got = 1..n /\ m \in Nat /\ DOMAIN h.bytes = 1..m
  BY LenProperties
<1>2. n >= m
  BY <1>1 DEF Through, Begins
<1>3. n <= m
  <2>1. n > 0 => n \in 1..m
    BY <1>1 DEF Begins
  <2> QED
    BY <1>1, <2>1
<1>4. n = m
  BY <1>1, <1>2, <1>3
<1>5. \A i \in 1..n : h.got[i] = h.bytes[i]
  BY <1>1 DEF Begins
<1>6. h.bytes \in Seq(Blocks \cup {Zero})
  OBVIOUS
<1> QED
  BY <1>4, <1>5, <1>6, SeqEqual

\* One block further into a file.
LEMMA GotKeeps ==
    ASSUME WalkInv, phase = "hash", NEW p \in DOMAIN open, NEW b, Got(p, b), UNCHANGED fsVars,
           p \in DOMAIN seen =>
             LET h == open[p]  next == Len(h.got) + 1
             IN  /\ ~Through(h)
                 /\ \/ next <= Len(h.bytes) /\ b = h.bytes[next]
                    \/ next > Len(h.bytes) /\ b = Zero
    PROVE  WalkInv'
<1> PICK h : h = open[p]
  OBVIOUS
<1> PICK g : g = Append(h.got, b)
  OBVIOUS
<1> PICK k : k = [h EXCEPT !.got = g]
  OBVIOUS
<1>1. Reader(p, h)
  BY DEF WalkInv, ReadersWitnessed
<1>2. /\ k = [x \in {"inode", "bytes", "mapped", "length", "got"} |-> k[x]]
      /\ k.inode = h.inode /\ k.bytes = h.bytes /\ k.mapped = h.mapped
      /\ k.length = h.length /\ k.got = g
  BY <1>1 DEF Reader
<1>3. DOMAIN open' = DOMAIN open /\ open'[p] = k
      /\ \A q \in DOMAIN open : q # p => open'[q] = open[q]
  BY DEF Got
<1>4. UNCHANGED <<opts, seen, midread, stats>>
  BY DEF Got, fsVars
<1>5. ASSUME p \in DOMAIN seen
      PROVE  /\ g \in Seq(Blocks \cup {Zero})
             /\ \A i \in DOMAIN g : HeldAt(p, i, g[i]) \/
                                   (p \in midread /\ opts.alg = "blake3" /\ g[i] = Zero)
             /\ p \in midread \/ Begins(k)
  <2>1. /\ h.bytes \in seen[p] /\ h.got \in Seq(Blocks \cup {Zero}) /\ h.bytes \in Seq(Blocks)
        /\ p \in midread \/ Begins(h)
    <3>1. seen[p] \subseteq Contents
      BY <1>5 DEF WalkInv, FilesKnown
    <3> QED
      BY <1>1, <1>5, <3>1, WalkAssumptions DEF Reader
  <2> PICK n : n = Len(h.got)
    OBVIOUS
  <2>2. /\ n \in Nat /\ DOMAIN h.got = 1..n /\ Len(h.bytes) \in Nat
        /\ DOMAIN h.bytes = 1..Len(h.bytes) /\ \A i \in 1..Len(h.bytes) : h.bytes[i] \in Blocks
    BY <2>1, LenProperties, ElementOfSeq
  <2>3. /\ ~Through(h)
        /\ \/ n + 1 <= Len(h.bytes) /\ b = h.bytes[n + 1]
           \/ n + 1 > Len(h.bytes) /\ b = Zero
    BY <1>5
  <2>4. b \in Blocks \cup {Zero}
    BY <2>2, <2>3
  <2>5. /\ g \in Seq(Blocks \cup {Zero}) /\ DOMAIN g = 1..(n + 1) /\ g[n + 1] = b
        /\ \A i \in 1..n : g[i] = h.got[i]
    BY <2>1, <2>2, <2>4, AppendProperties, LenProperties
  <2>6. n + 1 > Len(h.bytes) => h.mapped /\ h.length # n
    BY <2>2, <2>3 DEF Through
  <2>7. p \in midread \/ (n + 1 <= Len(h.bytes) /\ Begins(k))
    <3> SUFFICES ASSUME Begins(h) PROVE n + 1 <= Len(h.bytes) /\ Begins(k)
      BY <2>1
    <3> PICK j : j = [h EXCEPT !.got = Append(h.got, h.bytes[n + 1])]
      OBVIOUS
    <3>1. /\ j.got = Append(h.got, h.bytes[n + 1]) /\ j.bytes = h.bytes
          /\ j.mapped = h.mapped /\ j.length = h.length
      BY <1>1 DEF Reader
    <3>2. n + 1 <= Len(h.bytes) /\ Begins(j)
      BY <2>1, <2>3, <3>1, NextBlock
    <3>3. b = h.bytes[n + 1]
      BY <2>2, <2>3, <3>2
    <3> QED
      BY <1>2, <3>1, <3>2, <3>3 DEF Begins
  <2>8. HeldAt(p, n + 1, b) \/ (p \in midread /\ opts.alg = "blake3" /\ b = Zero)
    <3>1. CASE n + 1 <= Len(h.bytes) /\ b = h.bytes[n + 1]
      <4>1. n + 1 \in DOMAIN h.bytes
        BY <2>2, <3>1
      <4> QED
        BY <2>1, <3>1, <4>1 DEF HeldAt
    <3>2. CASE n + 1 > Len(h.bytes) /\ b = Zero
      BY <1>1, <2>2, <2>6, <2>7, <3>2 DEF Reader
    <3> QED
      BY <2>3, <3>1, <3>2
  <2>9. \A i \in DOMAIN g : HeldAt(p, i, g[i]) \/
                            (p \in midread /\ opts.alg = "blake3" /\ g[i] = Zero)
    <3> SUFFICES ASSUME NEW i \in 1..(n + 1)
                 PROVE  HeldAt(p, i, g[i]) \/
                          (p \in midread /\ opts.alg = "blake3" /\ g[i] = Zero)
      BY <2>5
    <3>1. CASE i = n + 1
      BY <2>5, <2>8, <3>1
    <3>2. CASE i # n + 1
      <4>1. i \in 1..n
        BY <2>2, <3>2
      <4> QED
        BY <1>1, <1>5, <2>2, <2>5, <4>1 DEF Reader
    <3> QED
      BY <3>1, <3>2
  <2> QED
    BY <2>5, <2>7, <2>9
<1>6. Reader(p, k)
  BY <1>1, <1>2, <1>5 DEF Reader
<1>7. \A q \in DOMAIN open' : Reader(q, open'[q])
  BY <1>3, <1>6 DEF WalkInv, ReadersWitnessed
<1>8. ReadersWitnessed'
  <2>1. \A q \in DOMAIN open' : Reader(q, open[q])'
    BY <1>4, <1>7 DEF Reader, HeldAt
  <2> QED
    BY <1>3, <1>4, <2>1 DEF WalkInv, ReadersWitnessed
<1> QED
  BY <1>8, ReadingKeeps DEF Got

LEMMA ReadBlockKeeps == ASSUME WalkInv, ReadBlock PROVE WalkInv'
<1>1. phase = "hash" /\ UNCHANGED fsVars
  BY DEF ReadBlock
<1>2. PICK p \in DOMAIN open :
        \/ \E e : Fail(e)
        \/ \E b : /\ Got(p, b) /\ ~Through(open[p])
                 /\ \/ /\ Len(open[p].got) + 1 <= Len(open[p].bytes)
                       /\ b = open[p].bytes[Len(open[p].got) + 1]
                    \/ Len(open[p].got) + 1 > Len(open[p].bytes) /\ b = Zero
  BY Zenon DEF ReadBlock
<1>3. CASE \E e : Fail(e)
  BY <1>1, <1>3, FailKeeps
<1>4. ASSUME NEW b, Got(p, b), ~Through(open[p]),
             \/ /\ Len(open[p].got) + 1 <= Len(open[p].bytes)
                /\ b = open[p].bytes[Len(open[p].got) + 1]
             \/ Len(open[p].got) + 1 > Len(open[p].bytes) /\ b = Zero
      PROVE  WalkInv'
  BY <1>1, <1>4, GotKeeps
<1> QED
  BY <1>2, <1>3, <1>4

\* What a hasher has read to the end is what may be told of the file.
LEMMA ThroughTold ==
    ASSUME WalkInv, NEW p \in DOMAIN open, Through(open[p]), p \in DOMAIN seen
    PROVE  Told(p, open[p].got)
<1> PICK h : h = open[p]
  OBVIOUS
<1>1. Reader(p, h) /\ seen[p] \subseteq Contents
  BY DEF WalkInv, ReadersWitnessed, FilesKnown
<1>2. ASSUME p \notin midread PROVE h.got = h.bytes
  <2>1. h.got \in Seq(Blocks \cup {Zero}) /\ h.bytes \in Seq(Blocks) /\ Begins(h)
    BY <1>1, <1>2, WalkAssumptions DEF Reader
  <2> QED
    BY <2>1, AllRead
<1> QED
  BY <1>1, <1>2 DEF Reader, Told

\* A checksum is never the mark of a slot nobody filled.
LEMMA HashIsNoMark == ASSUME NEW alg, NEW c PROVE hash_hex(alg, c) # Unfilled
<1>1. DOMAIN hash_hex(alg, c) = {"alg", "bytes"} /\ DOMAIN Unfilled = {"alg"}
  BY DEF hash_hex, Unfilled
<1> QED
  BY <1>1

LEMMA HashDoneKeeps ==
    ASSUME WalkInv, phase = "hash", NEW p \in DOMAIN stats, NEW c,
           p \in DOMAIN seen => Told(p, c),
           HashDone(p, c), UNCHANGED fsVars
    PROVE  WalkInv'
<1>1. CASE Fail("FileChangedDuringWalk")
  BY <1>1, FailKeeps
<1>2. CASE /\ pending[p].is_symlink \/ hashed_bytes(p, c) = pending[p].recorded_size
           /\ dirs' = [dirs EXCEPT ![Front(p)].files[Last(p)].checksum = hash_hex(opts.alg, c)]
           /\ stats' = [q \in DOMAIN stats \ {p} |-> stats[q]]
           /\ open' = [q \in DOMAIN open \ {p} |-> open[q]]
           /\ UNCHANGED <<opts, phase, stack, pending, manifest, error>>
  <2> PICK d : d = Front(p)
    OBVIOUS
  <2> PICK n : n = Last(p)
    OBVIOUS
  <2> PICK sum : sum = hash_hex(opts.alg, c)
    OBVIOUS
  <2>0. /\ p \in DOMAIN pending /\ p \in Seq(Names) /\ p # << >>
        /\ (d \in DOMAIN dirs /\ n \in DOMAIN dirs[d].files) =>
             dirs[d].files[n].checksum = Unfilled
    BY DEF WalkInv, HashingUnfilled, QueueTyped, SlotOf
  <2>1. d \in Seq(Names) /\ n \in Names /\ Append(d, n) = p
    BY <2>0, PathParts
  <2>2. DOMAIN dirs' = DOMAIN dirs /\ \A e \in DOMAIN dirs : e # d => dirs'[e] = dirs[e]
    BY <1>2
  <2>3. ASSUME d \in DOMAIN dirs
        PROVE  /\ IsRecord(dirs'[d]) /\ DOMAIN dirs'[d].files = DOMAIN dirs[d].files
               /\ \A k \in DOMAIN dirs[d].files : k # n => dirs'[d].files[k] = dirs[d].files[k]
               /\ n \in DOMAIN dirs[d].files =>
                    /\ IsSlot(dirs'[d].files[n])
                    /\ dirs'[d].files[n].checksum = sum
                    /\ dirs'[d].files[n].size = dirs[d].files[n].size
    <3> PICK r : r = dirs[d]
      OBVIOUS
    <3> PICK fs : fs = r.files
      OBVIOUS
    <3> PICK s : s = fs[n]
      OBVIOUS
    <3> PICK t : t = [s EXCEPT !.checksum = sum]
      OBVIOUS
    <3> PICK gs : gs = [fs EXCEPT ![n] = t]
      OBVIOUS
    <3>1. IsRecord(r) /\ \A k \in DOMAIN fs : IsSlot(fs[k])
      BY <2>3 DEF WalkInv, RecordsTyped
    <3>2. dirs'[d] = [r EXCEPT !.files = gs]
      BY <1>2, <2>3
    <3>3. [r EXCEPT !.files = gs].files = gs /\ IsRecord([r EXCEPT !.files = gs])
      BY <3>1 DEF IsRecord
    <3>4. DOMAIN gs = DOMAIN fs /\ (\A k \in DOMAIN fs : k # n => gs[k] = fs[k])
          /\ (n \in DOMAIN fs => gs[n] = t)
      OBVIOUS
    <3>5. n \in DOMAIN fs => IsSlot(t) /\ t.checksum = sum /\ t.size = s.size
      <4>1. n \in DOMAIN fs => IsSlot(s)
        BY <3>1
      <4>2. IsSlot(s) => IsSlot(t) /\ t.checksum = sum /\ t.size = s.size
        BY DEF IsSlot
      <4> QED
        BY <4>1, <4>2
    <3> QED
      BY <3>2, <3>3, <3>4, <3>5
  <2>4. \A e \in DOMAIN dirs :
          /\ IsRecord(dirs'[e]) /\ DOMAIN dirs'[e].files = DOMAIN dirs[e].files
          /\ \A k \in DOMAIN dirs[e].files :
               /\ IsSlot(dirs'[e].files[k])
               /\ ~(e = d /\ k = n) => dirs'[e].files[k] = dirs[e].files[k]
    <3> SUFFICES ASSUME NEW e \in DOMAIN dirs
                 PROVE  /\ IsRecord(dirs'[e]) /\ DOMAIN dirs'[e].files = DOMAIN dirs[e].files
                        /\ \A k \in DOMAIN dirs[e].files :
                             /\ IsSlot(dirs'[e].files[k])
                             /\ ~(e = d /\ k = n) => dirs'[e].files[k] = dirs[e].files[k]
      OBVIOUS
    <3>1. IsRecord(dirs[e]) /\ \A k \in DOMAIN dirs[e].files : IsSlot(dirs[e].files[k])
      BY DEF WalkInv, RecordsTyped
    <3>2. CASE e = d
      BY <2>3, <3>1, <3>2
    <3>3. CASE e # d
      BY <2>2, <3>1, <3>3
    <3> QED
      BY <3>2, <3>3
  <2>5. RecordsTyped'
    BY <2>2, <2>4 DEF WalkInv, RecordsTyped
  <2>6. SlotsWitnessed'
    <3> SUFFICES ASSUME NEW e \in DOMAIN dirs', NEW k \in DOMAIN dirs'[e].files,
                        Append(e, k) \in DOMAIN seen'
                 PROVE  Witnessed(Append(e, k), dirs[e].files[k])'
      BY DEF SlotsWitnessed
    <3>1. seen' = seen /\ midread' = midread /\ opts' = opts /\ pending' = pending
      BY <1>2 DEF fsVars
    <3>2. e \in DOMAIN dirs /\ k \in DOMAIN dirs[e].files
      BY <2>2, <2>4
    <3>3. Witnessed(Append(e, k), dirs[e].files[k])
      BY <3>1, <3>2 DEF WalkInv, SlotsWitnessed
    <3>4. CASE ~(e = d /\ k = n)
      <4>1. dirs'[e].files[k] = dirs[e].files[k]
        BY <2>4, <3>2, <3>4
      <4> QED
        BY <3>1, <3>3, <4>1 DEF Witnessed, Told, HeldAt
    <3>5. CASE e = d /\ k = n
      <4>1. dirs'[e].files[k].checksum = sum /\ dirs'[e].files[k].size = dirs[e].files[k].size
        BY <2>3, <3>2, <3>5
      <4>2. Append(e, k) = p /\ p \in DOMAIN seen /\ Told(p, c)
        BY <2>1, <3>1, <3>5
      <4>3. dirs[e].files[k].checksum = Unfilled
        BY <2>0, <3>2, <3>5
      <4>4. ~pending[p].is_symlink /\ dirs[e].files[k].size = pending[p].recorded_size
        BY <3>3, <4>2, <4>3 DEF Witnessed, Told, HeldAt
      <4>5. opts.alg # "blake3" => pending[p].recorded_size = Len(c)
        BY <1>2, <4>4 DEF hashed_bytes
      <4>6. sum # Unfilled /\ sum.bytes = c
        BY HashIsNoMark DEF hash_hex
      <4> QED
        BY <3>1, <4>1, <4>2, <4>4, <4>5, <4>6 DEF Witnessed, Told, HeldAt
    <3> QED
      BY <3>4, <3>5
  <2>7. HashingUnfilled'
    <3> SUFFICES ASSUME NEW q \in DOMAIN stats', Front(q) \in DOMAIN dirs',
                        Last(q) \in DOMAIN dirs'[Front(q)].files
                 PROVE  q \in DOMAIN pending /\ dirs'[Front(q)].files[Last(q)].checksum = Unfilled
      <4>1. \A q \in DOMAIN stats' : q \in DOMAIN pending'
        BY <1>2 DEF WalkInv, HashingUnfilled
      <4> QED
        BY <4>1 DEF HashingUnfilled, SlotOf
    <3>1. q \in DOMAIN stats /\ q # p
      BY <1>2
    <3>2. q \in Seq(Names) /\ q # << >> /\ q \in DOMAIN pending
      BY <3>1 DEF WalkInv, HashingUnfilled, QueueTyped
    <3>3. Append(Front(q), Last(q)) = q
      BY <3>2, PathParts
    <3>4. ~(Front(q) = d /\ Last(q) = n)
      BY <2>1, <3>1, <3>3
    <3>5. Front(q) \in DOMAIN dirs /\ Last(q) \in DOMAIN dirs[Front(q)].files
      BY <2>2, <2>4
    <3>6. dirs'[Front(q)].files[Last(q)] = dirs[Front(q)].files[Last(q)]
      BY <2>4, <3>4, <3>5
    <3>7. dirs[Front(q)].files[Last(q)].checksum = Unfilled
      BY <3>1, <3>5 DEF WalkInv, HashingUnfilled, SlotOf
    <3> QED
      BY <3>2, <3>6, <3>7
  <2>8. FilesKnown' /\ QueueTyped'
    BY <1>2, FilesStay, QueueStays DEF WalkInv, fsVars
  <2>9. StackTyped' /\ PhasesInOrder' /\ EntriesWitnessed'
    BY <1>2 DEF WalkInv, StackTyped, PhasesInOrder, EntriesWitnessed
  <2>10. ReadersWitnessed'
    <3>1. DOMAIN open' = DOMAIN open \ {p} /\ \A q \in DOMAIN open' : open'[q] = open[q]
      BY <1>2
    <3>2. UNCHANGED <<opts, seen, midread>> /\ DOMAIN stats' = DOMAIN stats \ {p}
      BY <1>2 DEF fsVars
    <3>3. DOMAIN open' \subseteq DOMAIN stats'
      BY <3>1, <3>2 DEF WalkInv, ReadersWitnessed
    <3>4. \A q \in DOMAIN open' : Reader(q, open[q])'
      BY <3>1, <3>2 DEF WalkInv, ReadersWitnessed, Reader, HeldAt
    <3> QED
      BY <3>3, <3>4 DEF ReadersWitnessed
  <2> QED
    BY <2>5, <2>6, <2>7, <2>8, <2>9, <2>10 DEF WalkInv
<1> QED
  BY <1>1, <1>2 DEF HashDone, WriteBack

LEMMA FinishHashKeeps == ASSUME WalkInv, FinishHash PROVE WalkInv'
<1>1. phase = "hash" /\ UNCHANGED fsVars
  BY DEF FinishHash
<1>2. PICK p \in DOMAIN open : Through(open[p]) /\ HashDone(p, open[p].got)
  BY DEF FinishHash
<1>3. p \in DOMAIN stats
  BY DEF WalkInv, ReadersWitnessed
<1>4. p \in DOMAIN seen => Told(p, open[p].got)
  BY <1>2, ThroughTold
<1> QED
  BY <1>1, <1>2, <1>3, <1>4, HashDoneKeeps

LEMMA FinalizeKeeps == ASSUME WalkInv, Finalize PROVE WalkInv'
<1>1. /\ Unhashed = {} /\ manifest' = EntriesOf /\ phase' = "done" /\ phase = "hash"
      /\ UNCHANGED <<opts, stack, dirs, pending, stats, open, error, meter, fsVars>>
  BY DEF Finalize
<1>2. EntriesWitnessed'
  <2> SUFFICES ASSUME NEW x \in manifest', x.type = "F", x.path \in DOMAIN seen
               PROVE  /\ Told(x.path, x.checksum.bytes)
                      /\ opts.alg # "blake3" => x.size = Len(x.checksum.bytes)
    BY <1>1 DEF EntriesWitnessed, fsVars, Told, HeldAt
  <2>1. PICK d \in DOMAIN dirs : \E n \in DOMAIN dirs[d].files :
          x = Entry("F", dirs[d].files[n].perm, dirs[d].files[n].checksum,
                    dirs[d].files[n].size, Append(d, n))
    <3>1. \A ty, perm, sum, size, path : Entry(ty, perm, sum, size, path).type = ty
      BY DEF Entry
    <3>2. \A e \in DOMAIN dirs :
            x # Entry("D", dirs[e].perm, Finalized[e].checksum, Finalized[e].size, e)
      BY <3>1
    <3>3. x \in EntriesOf
      BY <1>1
    <3> QED
      BY <3>2, <3>3, Zenon DEF EntriesOf
  <2> PICK n \in DOMAIN dirs[d].files :
          x = Entry("F", dirs[d].files[n].perm, dirs[d].files[n].checksum,
                    dirs[d].files[n].size, Append(d, n))
    BY <2>1
  <2> PICK s : s = dirs[d].files[n]
    OBVIOUS
  <2> PICK p : p = Append(d, n)
    OBVIOUS
  <2>2. x.path = p /\ x.checksum = s.checksum /\ x.size = s.size
    BY DEF Entry
  <2>3. Witnessed(p, s)
    BY <2>2 DEF WalkInv, SlotsWitnessed
  <2>4. s.checksum # Unfilled
    <3> SUFFICES ASSUME s.checksum = Unfilled PROVE FALSE
      OBVIOUS
    <3>1. p \in DOMAIN pending
      BY <2>3 DEF Witnessed
    <3>2. Front(p) = d /\ Last(p) = n
      <4>1. d \in Seq(Names) /\ n \in Names
        BY DEF WalkInv, RecordsTyped
      <4> QED
        BY <4>1, AppendParts
    <3>3. p \in Unhashed
      BY <3>1, <3>2 DEF Unhashed, SlotOf
    <3> QED
      BY <1>1, <3>3
  <2> QED
    BY <2>2, <2>3, <2>4 DEF Witnessed
<1>3. /\ FilesKnown' /\ QueueTyped' /\ RecordsTyped' /\ SlotsWitnessed'
      /\ HashingUnfilled' /\ ReadersWitnessed'
  BY <1>1, FilesStay, QueueStays, RecordsStay, HashingStays, ReadersStay DEF WalkInv, fsVars
<1>4. StackTyped' /\ PhasesInOrder'
  BY <1>1 DEF WalkInv, StackTyped, PhasesInOrder
<1> QED
  BY <1>2, <1>3, <1>4 DEF WalkInv

-----------------------------------------------------------------------------
(* The other programs. *)

\* Whatever they do, the walker's part stays, as what was seen still is.
LEMMA OthersKeep ==
    ASSUME WalkInv, Walking, FilesKnown', UNCHANGED walkVars, DOMAIN seen' = DOMAIN seen,
           \A p \in DOMAIN seen : seen[p] \subseteq seen'[p], midread \subseteq midread',
           ReadersWitnessed'
    PROVE  WalkInv'
<1>1. UNCHANGED <<opts, phase, stack, dirs, pending, stats, manifest>>
  BY DEF walkVars
<1>2. SlotsWitnessed'
  <2> SUFFICES ASSUME NEW d \in DOMAIN dirs, NEW n \in DOMAIN dirs[d].files,
                      Append(d, n) \in DOMAIN seen
               PROVE  Witnessed(Append(d, n), dirs[d].files[n])'
    BY <1>1 DEF SlotsWitnessed
  <2>1. Witnessed(Append(d, n), dirs[d].files[n])
    BY DEF WalkInv, SlotsWitnessed
  <2> QED
    BY <1>1, <2>1 DEF Witnessed, Told, HeldAt
<1>3. RecordsTyped' /\ QueueTyped' /\ HashingUnfilled' /\ StackTyped' /\ PhasesInOrder'
  BY <1>1, QueueStays, HashingStays
  DEF WalkInv, RecordsTyped, StackTyped, PhasesInOrder
<1>4. EntriesWitnessed'
  BY <1>1 DEF Walking, EntriesWitnessed
<1> QED
  BY <1>2, <1>3, <1>4 DEF WalkInv

\* A hasher whose file is replaced or removed keeps what it has.
LEMMA AsideReaders ==
    ASSUME WalkInv, NEW R, Aside(R), UNCHANGED <<opts, stats, midread>>,
           DOMAIN seen' = DOMAIN seen, \A p \in DOMAIN seen : seen[p] \subseteq seen'[p]
    PROVE  ReadersWitnessed'
<1>1. DOMAIN open' = DOMAIN open
  BY DEF Aside
<1>2. ASSUME NEW q \in DOMAIN open PROVE Reader(q, open[q])'
  <2> PICK h : h = open[q]
    OBVIOUS
  <2> PICK k : k = open'[q]
    OBVIOUS
  <2>1. Reader(q, h)
    BY DEF WalkInv, ReadersWitnessed
  <2>2. k = h \/ k = [h EXCEPT !.inode = Unlinked]
    BY DEF Aside
  <2>3. /\ k = [x \in {"inode", "bytes", "mapped", "length", "got"} |-> k[x]]
        /\ k.bytes = h.bytes /\ k.mapped = h.mapped /\ k.length = h.length /\ k.got = h.got
        /\ k.inode \in {h.inode, Unlinked}
    BY <2>1, <2>2 DEF Reader
  <2>4. Begins(h) => Begins(k)
    BY <2>3 DEF Begins
  <2>5. q \in DOMAIN seen => \A i, b : HeldAt(q, i, b) => HeldAt(q, i, b)'
    BY DEF HeldAt
  <2>6. Reader(q, k)'
    BY <2>1, <2>3, <2>4, <2>5 DEF Reader, Begins
  <2> QED
    BY <2>6
<1> QED
  BY <1>1, <1>2 DEF WalkInv, ReadersWitnessed

\* A hasher whose file is rewritten under it reads on, in what is there now.
LEMMA WrittenReaders ==
    ASSUME WalkInv, NEW p \in DOMAIN seen, NEW c, InPlace(Readers(InTree(p)), c),
           midread' = midread \cup Readers(InTree(p)), UNCHANGED <<opts, stats>>,
           DOMAIN seen' = DOMAIN seen, seen'[p] = seen[p] \cup {c},
           \A q \in DOMAIN seen : q # p => seen'[q] = seen[q]
    PROVE  ReadersWitnessed'
<1>1. DOMAIN open' = DOMAIN open
  BY DEF InPlace
<1>2. ASSUME NEW q \in DOMAIN open PROVE Reader(q, open[q])'
  <2> PICK h : h = open[q]
    OBVIOUS
  <2> PICK k : k = open'[q]
    OBVIOUS
  <2>1. Reader(q, h)
    BY DEF WalkInv, ReadersWitnessed
  <2>2. IF q \in Readers(InTree(p)) THEN k = [h EXCEPT !.bytes = c] ELSE k = h
    BY DEF InPlace
  <2>3. /\ k = [x \in {"inode", "bytes", "mapped", "length", "got"} |-> k[x]]
        /\ k.mapped = h.mapped /\ k.length = h.length /\ k.got = h.got /\ k.inode = h.inode
        /\ q \in Readers(InTree(p)) => k.bytes = c
        /\ q \notin Readers(InTree(p)) => k = h
    BY <2>1, <2>2 DEF Reader
  <2>4. q \in DOMAIN seen => \A i, b : HeldAt(q, i, b) => HeldAt(q, i, b)'
    BY DEF HeldAt
  <2>5. q \in DOMAIN seen /\ q \in Readers(InTree(p)) => q = p /\ q \in midread'
    BY <2>1 DEF Readers, Reader, InTree, Unlinked
  <2>6. q \in DOMAIN seen => k.bytes \in seen'[q]
    BY <2>1, <2>3, <2>5 DEF Reader
  <2>7. q \in DOMAIN seen => q \in midread' \/ Begins(k)
    BY <2>1, <2>3, <2>5 DEF Reader
  <2>8. Reader(q, k)'
    BY <2>1, <2>3, <2>4, <2>6, <2>7 DEF Reader, Begins
  <2> QED
    BY <2>8
<1> QED
  BY <1>1, <1>2 DEF WalkInv, ReadersWitnessed

\* Damage to an object is damage to no plain file.
LEMMA PoolReadersKept ==
    ASSUME WalkInv, NEW R, NEW c, InPlace(R, c), \A q \in R : q \notin DOMAIN seen,
           UNCHANGED <<opts, stats, seen, midread>>
    PROVE  ReadersWitnessed'
<1>1. DOMAIN open' = DOMAIN open
  BY DEF InPlace
<1>2. ASSUME NEW q \in DOMAIN open PROVE Reader(q, open[q])'
  <2> PICK h : h = open[q]
    OBVIOUS
  <2> PICK k : k = open'[q]
    OBVIOUS
  <2>1. Reader(q, h)
    BY DEF WalkInv, ReadersWitnessed
  <2>2. k = h \/ (q \in R /\ k = [h EXCEPT !.bytes = c])
    BY DEF InPlace
  <2>3. /\ k = [x \in {"inode", "bytes", "mapped", "length", "got"} |-> k[x]]
        /\ k.mapped = h.mapped
        /\ q \in DOMAIN seen => k = h
    BY <2>1, <2>2 DEF Reader
  <2>4. Reader(q, k)'
    BY <2>1, <2>3 DEF Reader, HeldAt, Begins
  <2> QED
    BY <2>4
<1> QED
  BY <1>1, <1>2 DEF WalkInv, ReadersWitnessed

LEMMA EditFileKeeps == ASSUME WalkInv, EditFile PROVE WalkInv'
<1>1. PICK p \in FilesOf(tree), c \in Contents :
        /\ tree' = [tree EXCEPT ![p].bytes = c]
        /\ seen' = [seen EXCEPT ![p] = @ \cup {c}]
        /\ \/ /\ InPlace(Readers(InTree(p)), c) /\ midread' = midread \cup Readers(InTree(p))
           \/ Aside(Readers(InTree(p))) /\ midread' = midread
  BY DEF EditFile
<1> PICK nd : nd = tree[p]
  OBVIOUS
<1> PICK new : new = [nd EXCEPT !.bytes = c]
  OBVIOUS
<1>2. p \in DOMAIN tree /\ p \in DOMAIN seen /\ nd.kind = "file" /\ IsFile(nd)
  BY DEF WalkInv, FilesKnown, FilesOf
<1>3. new.kind = "file" /\ new.bytes = c /\ IsFile(new)
  BY <1>2 DEF IsFile, FileNode, LockedFile
<1>4. /\ DOMAIN tree' = DOMAIN tree /\ tree'[p] = new
      /\ \A q \in DOMAIN tree : q # p => tree'[q] = tree[q]
  BY <1>1, <1>2
<1>5. /\ DOMAIN seen' = DOMAIN seen /\ seen'[p] = seen[p] \cup {c}
      /\ \A q \in DOMAIN seen : q # p => seen'[q] = seen[q]
  BY <1>1, <1>2
<1>6. \A q \in DOMAIN tree : tree'[q].kind = tree[q].kind
  BY <1>2, <1>3, <1>4
<1>7. FilesKnown'
  <2>1. \A q \in DOMAIN seen' : q \in Seq(Names) /\ q # << >> /\ Parents(q, tree')
                              /\ seen'[q] \subseteq Contents
    BY <1>4, <1>5, <1>6 DEF WalkInv, FilesKnown, Parents
  <2>2. FilesOf(tree)' \subseteq DOMAIN seen'
    BY <1>4, <1>5, <1>6 DEF WalkInv, FilesKnown, FilesOf
  <2>3. \A q \in DOMAIN seen' \cap DOMAIN tree' :
          /\ tree'[q].kind = "file" /\ IsFile(tree'[q])
          /\ tree'[q].bytes \in seen'[q]
    <3> SUFFICES ASSUME NEW q \in DOMAIN seen \cap DOMAIN tree
                 PROVE  /\ tree'[q].kind = "file" /\ IsFile(tree'[q])
                        /\ tree'[q].bytes \in seen'[q]
      BY <1>4, <1>5
    <3>1. CASE q = p
      BY <1>3, <1>4, <1>5, <3>1
    <3>2. CASE q # p
      BY <1>4, <1>5, <3>2 DEF WalkInv, FilesKnown
    <3> QED
      BY <3>1, <3>2
  <2> QED
    BY <2>1, <2>2, <2>3 DEF FilesKnown
<1>8. \A q \in DOMAIN seen : seen[q] \subseteq seen'[q]
  BY <1>5
<1>9. UNCHANGED <<opts, stats>>
  BY DEF EditFile, walkVars
<1>10. CASE /\ InPlace(Readers(InTree(p)), c) /\ midread' = midread \cup Readers(InTree(p))
  <2>1. ReadersWitnessed'
    BY <1>2, <1>5, <1>9, <1>10, WrittenReaders
  <2> QED
    BY <1>5, <1>7, <1>8, <1>10, <2>1, OthersKeep DEF EditFile
<1>11. CASE Aside(Readers(InTree(p))) /\ midread' = midread
  <2>1. ReadersWitnessed'
    BY <1>5, <1>8, <1>9, <1>11, AsideReaders
  <2> QED
    BY <1>5, <1>7, <1>8, <1>11, <2>1, OthersKeep DEF EditFile
<1> QED
  BY <1>1, <1>10, <1>11

LEMMA RemoveFileKeeps == ASSUME WalkInv, RemoveFile PROVE WalkInv'
<1>1. PICK p \in FilesOf(tree) :
        tree' = [q \in DOMAIN tree \ {p} |-> tree[q]] /\ Aside(Readers(InTree(p)))
  BY DEF RemoveFile
<1>2. UNCHANGED <<seen, midread, opts, stats>>
  BY DEF RemoveFile, walkVars
<1>3. p \in DOMAIN tree /\ tree[p].kind # "dir"
  BY DEF FilesOf
<1>4. DOMAIN tree' = DOMAIN tree \ {p} /\ \A q \in DOMAIN tree' : tree'[q] = tree[q]
  BY <1>1
<1>5. FilesKnown'
  <2>1. \A q \in DOMAIN seen' : q \in Seq(Names) /\ q # << >> /\ Parents(q, tree')
                              /\ seen'[q] \subseteq Contents
    BY <1>2, <1>3, <1>4 DEF WalkInv, FilesKnown, Parents
  <2>2. FilesOf(tree)' \subseteq DOMAIN seen'
    BY <1>2, <1>4 DEF WalkInv, FilesKnown, FilesOf
  <2>3. \A q \in DOMAIN seen' \cap DOMAIN tree' :
          /\ tree'[q].kind = "file" /\ IsFile(tree'[q])
          /\ tree'[q].bytes \in seen'[q]
    BY <1>2, <1>4 DEF WalkInv, FilesKnown
  <2> QED
    BY <2>1, <2>2, <2>3 DEF FilesKnown
<1>6. ReadersWitnessed'
  BY <1>1, <1>2, AsideReaders
<1> QED
  BY <1>2, <1>5, <1>6, OthersKeep DEF RemoveFile

LEMMA DamageObjectKeeps == ASSUME WalkInv, DamageObject PROVE WalkInv'
<1>1. UNCHANGED <<tree, seen, midread, walkVars>> /\ Walking
  BY DEF DamageObject
<1>2. FilesKnown'
  BY <1>1, FilesStay DEF WalkInv
<1>3. UNCHANGED <<opts, stats>>
  BY <1>1 DEF walkVars
<1>4. PICK a \in DOMAIN objects : Aside(PoolReaders(a)) \/ \E c : InPlace(PoolReaders(a), c)
  BY DEF DamageObject
<1>5. ReadersWitnessed'
  <2>1. CASE Aside(PoolReaders(a))
    BY <1>1, <1>3, <2>1, AsideReaders
  <2>2. CASE \E c : InPlace(PoolReaders(a), c)
    <3>1. \A q \in PoolReaders(a) : q \notin DOMAIN seen
      <4> SUFFICES ASSUME NEW q \in PoolReaders(a), q \in DOMAIN seen PROVE FALSE
        OBVIOUS
      <4>1. Reader(q, open[q]) /\ open[q].inode.at = "pool"
        BY DEF PoolReaders, WalkInv, ReadersWitnessed
      <4>2. open[q].inode \in {InTree(q), Unlinked}
        BY <4>1 DEF Reader
      <4> QED
        BY <4>1, <4>2 DEF InTree, Unlinked
    <3>2. PICK c : InPlace(PoolReaders(a), c)
      BY <2>2
    <3> QED
      BY <1>1, <1>3, <3>1, <3>2, PoolReadersKept
  <2> QED
    BY <1>4, <2>1, <2>2
<1> QED
  BY <1>1, <1>2, <1>5, OthersKeep

LEMMA WalkStutterKeeps == WalkInv /\ UNCHANGED vars => WalkInv'
BY DEF WalkInv, vars, FilesKnown, FilesOf, RecordsTyped, StackTyped, QueueTyped,
       SlotsWitnessed, Witnessed, Told, HashingUnfilled, SlotOf, PhasesInOrder,
       EntriesWitnessed, ReadersWitnessed, Reader, HeldAt

LEMMA WalkNextKeeps == WalkInv /\ [Next]_vars => WalkInv'
<1> SUFFICES ASSUME WalkInv, [Next]_vars PROVE WalkInv'
  OBVIOUS
<1>1. CASE BeginWalk
  BY <1>1, BeginWalkKeeps
<1>2. CASE ReadDir
  BY <1>2, ReadDirKeeps
<1>3. CASE Visit
  BY <1>3, VisitKeeps
<1>4. CASE LeaveDir
  BY <1>4, LeaveDirKeeps
<1>5. CASE BeginHash
  BY <1>5, BeginHashKeeps
<1>12. CASE OpenFile
  BY <1>12, OpenFileKeeps
<1>13. CASE ReadBlock
  BY <1>13, ReadBlockKeeps
<1>6. CASE FinishHash
  BY <1>6, FinishHashKeeps
<1>7. CASE Finalize
  BY <1>7, FinalizeKeeps
<1>8. CASE EditFile
  BY <1>8, EditFileKeeps
<1>9. CASE RemoveFile
  BY <1>9, RemoveFileKeeps
<1>10. CASE DamageObject
  BY <1>10, DamageObjectKeeps
<1>11. CASE Rest \/ UNCHANGED vars
  BY <1>11, WalkStutterKeeps DEF Rest
<1> QED
  BY <1>1, <1>2, <1>3, <1>4, <1>5, <1>6, <1>7, <1>8, <1>9, <1>10, <1>11,
     <1>12, <1>13 DEF Next, Walker

\* Under edits, each checksum of a plain file in a finished manifest is that
\* of bytes the file has held during the walk, or, of a file rewritten while
\* its hasher had it open, of blocks it has held in those places; and, with
\* the engines that count what they read, the recorded size is that of the
\* bytes hashed (hash_pending, hash_file).
THEOREM ChecksumsWitnessed == Spec => []EntriesWitnessed
<1>1. Spec => []WalkInv
  BY WalkInitInv, WalkNextKeeps, PTL DEF Spec
<1>2. WalkInv => EntriesWitnessed
  BY DEF WalkInv
<1> QED
  BY <1>1, <1>2, PTL

-----------------------------------------------------------------------------
(* Each directory is read once, and each queued file keeps its slot. *)

\* Records form a tree of their own.
DirsBelow == \A q \in DOMAIN dirs : q # << >> => Front(q) \in DOMAIN dirs

\* The directories being read are one below the other and recorded, and what
\* is left of one to be visited has no record yet.
DescentOnce ==
  \A i \in 1..Len(stack) :
    /\ stack[i].dir \in DOMAIN dirs /\ Len(stack[i].dir) = i - 1
    /\ \A n \in Names : n \in stack[i].left \/ ~stack[i].read =>
                          Append(stack[i].dir, n) \notin DOMAIN dirs

SlotsExist ==
  \A p \in DOMAIN pending :
    Front(p) \in DOMAIN dirs /\ Last(p) \in DOMAIN dirs[Front(p)].files

Ending ==
  /\ phase \in {"idle", "discover", "hash", "done", "failed"}
  /\ (phase = "failed") = (error # Nil)
  /\ edits \in 0..MaxEdits

Places == DirsBelow /\ DescentOnce /\ SlotsExist /\ Ending

LEMMA PlacesInit == Init => Places
<1> SUFFICES ASSUME Init PROVE Places
  OBVIOUS
<1>1. DOMAIN dirs = {} /\ DOMAIN pending = {} /\ Len(stack) = 0
  BY DEF Init
<1>2. Ending
  BY WalkAssumptions DEF Init, Ending
<1> QED
  BY <1>1, <1>2 DEF Places, DirsBelow, DescentOnce, SlotsExist

\* What a step that leaves the records, or the names of their slots, keeps.
SameSlots ==
  /\ DOMAIN dirs' = DOMAIN dirs
  /\ \A e \in DOMAIN dirs : DOMAIN dirs[e].files \subseteq DOMAIN dirs'[e].files

LEMMA SameSlotsKeep ==
    ASSUME Places, SameSlots
    PROVE  /\ DirsBelow' /\ (UNCHANGED stack => DescentOnce')
           /\ (UNCHANGED pending => SlotsExist')
BY DEF Places, SameSlots, DirsBelow, DescentOnce, SlotsExist

LEMMA SameDirsSlots == UNCHANGED dirs => SameSlots
BY DEF SameSlots

LEMMA PlacesFail ==
    ASSUME Places, NEW e, e # Nil, Fail(e), UNCHANGED fsVars PROVE Places'
<1>1. /\ phase' = "failed" /\ error' = e /\ stack' = << >> /\ edits' = edits
      /\ UNCHANGED <<dirs, pending>>
  BY DEF Fail, fsVars
<1>2. DirsBelow' /\ SlotsExist'
  BY <1>1, SameDirsSlots, SameSlotsKeep
<1>3. DescentOnce'
  <2>1. Len(stack') = 0
    BY <1>1
  <2> QED
    BY <2>1 DEF DescentOnce
<1>4. Ending'
  BY <1>1 DEF Places, Ending
<1> QED
  BY <1>2, <1>3, <1>4 DEF Places

LEMMA TopChanged ==
    ASSUME StackTyped, stack # << >>, NEW f
    PROVE  /\ Len(stack) \in Nat \ {0} /\ Top = stack[Len(stack)]
           /\ Len(WithTop(f)) = Len(stack)
           /\ \A i \in 1..Len(stack) :
                WithTop(f)[i] = IF i = Len(stack) THEN f ELSE stack[i]
<1>1. Len(stack) \in Nat \ {0}
  BY PathParts DEF StackTyped
<1> QED
  BY <1>1 DEF Top, WithTop, StackTyped

\* The directory on top gives way to one that promises no more.
LEMMA TopNarrowed ==
    ASSUME StackTyped, stack # << >>, DescentOnce, DOMAIN dirs' = DOMAIN dirs,
           NEW f, stack' = WithTop(f), f.dir = Top.dir, f.read,
           \A n \in f.left : n \in Top.left \/ ~Top.read
    PROVE  DescentOnce'
<1>1. Len(stack') = Len(stack) /\ Len(stack) \in Nat \ {0}
  BY TopChanged
<1> SUFFICES ASSUME NEW i \in 1..Len(stack)
             PROVE  /\ stack'[i].dir \in DOMAIN dirs /\ Len(stack'[i].dir) = i - 1
                    /\ \A n \in Names : n \in stack'[i].left \/ ~stack'[i].read =>
                                          Append(stack'[i].dir, n) \notin DOMAIN dirs
  BY <1>1 DEF DescentOnce
<1>2. CASE i = Len(stack)
  <2>1. stack'[i] = f /\ Top = stack[i]
    BY <1>2, TopChanged
  <2> QED
    BY <2>1 DEF DescentOnce
<1>3. CASE i # Len(stack)
  <2>1. stack'[i] = stack[i]
    BY <1>3, TopChanged
  <2> QED
    BY <2>1 DEF DescentOnce
<1> QED
  BY <1>2, <1>3

LEMMA DroppedNarrows ==
    ASSUME StackTyped, stack # << >>, DescentOnce, DOMAIN dirs' = DOMAIN dirs,
           Top.read, NEW n, stack' = Dropped(n)
    PROVE  DescentOnce'
<1> PICK f : f = [Top EXCEPT !.left = @ \ {n}]
  OBVIOUS
<1>1. Top \in Levels
  BY TopTyped
<1>2. f.dir = Top.dir /\ f.read = Top.read /\ f.left = Top.left \ {n}
  BY <1>1 DEF Levels
<1>3. stack' = WithTop(f)
  BY DEF Dropped
<1> QED
  BY <1>2, <1>3, TopNarrowed

LEMMA BeginWalkPlaces == ASSUME WalkInv, Places, BeginWalk PROVE Places'
<1>1. /\ DOMAIN dirs = {} /\ DOMAIN pending = {} /\ pending' = pending /\ edits' = edits
      /\ phase = "idle"
  BY DEF WalkInv, PhasesInOrder, BeginWalk, fsVars
<1>2. CASE /\ phase' = "failed" /\ error' # Nil /\ UNCHANGED <<stack, dirs>>
  <2>1. DirsBelow' /\ SlotsExist' /\ DescentOnce'
    BY <1>1, <1>2, SameDirsSlots, SameSlotsKeep
  <2>2. Ending'
    BY <1>1, <1>2 DEF Places, Ending
  <2> QED
    BY <2>1, <2>2 DEF Places
<1>3. CASE /\ phase' = "discover" /\ error' = error
           /\ stack' = <<[dir |-> << >>, read |-> FALSE, left |-> {}]>>
           /\ DOMAIN dirs' = {<< >>}
  <2>1. DirsBelow' /\ SlotsExist'
    BY <1>1, <1>3 DEF DirsBelow, SlotsExist
  <2>2. DescentOnce'
    <3>1. Len(stack') = 1 /\ stack'[1].dir = << >>
      BY <1>3
    <3>2. \A n \in Names : Append(<< >>, n) # << >>
      OBVIOUS
    <3>3. Len(<< >>) = 0
      OBVIOUS
    <3>4. ASSUME NEW i \in 1..Len(stack')
          PROVE  /\ stack'[i].dir \in DOMAIN dirs' /\ Len(stack'[i].dir) = i - 1
                 /\ \A n \in Names : Append(stack'[i].dir, n) \notin DOMAIN dirs'
      <4>1. i = 1
        BY <3>1
      <4>2. stack'[i].dir = << >>
        BY <3>1, <4>1
      <4>3. Len(stack'[i].dir) = i - 1
        BY <3>3, <4>1, <4>2
      <4> QED
        BY <1>3, <3>2, <4>2, <4>3
    <3> QED
      BY <3>4 DEF DescentOnce
  <2>3. Ending'
    BY <1>1, <1>3 DEF Places, Ending
  <2> QED
    BY <2>1, <2>2, <2>3 DEF Places
<1>4. \/ /\ phase' = "failed" /\ error' # Nil /\ UNCHANGED <<stack, dirs>>
      \/ /\ phase' = "discover" /\ error' = error
         /\ stack' = <<[dir |-> << >>, read |-> FALSE, left |-> {}]>>
         /\ DOMAIN dirs' = {<< >>}
  <2>0. PICK req \in Requests : \E o \in {resolve_walk(req), build_walk_options(req)} :
         IF o.root # "dir"
         THEN phase' = "failed" /\ error' = RootError(o.root) /\ UNCHANGED <<stack, dirs>>
         ELSE /\ phase' = "discover"
              /\ stack' = <<[dir |-> << >>, read |-> FALSE, left |-> {}]>>
              /\ dirs' = [d \in {<< >>} |-> DirRecord(tree[d].perm)]
              /\ UNCHANGED error
    BY DEF BeginWalk
  <2>1. PICK o \in {resolve_walk(req), build_walk_options(req)} :
         IF o.root # "dir"
         THEN phase' = "failed" /\ error' = RootError(o.root) /\ UNCHANGED <<stack, dirs>>
         ELSE /\ phase' = "discover"
              /\ stack' = <<[dir |-> << >>, read |-> FALSE, left |-> {}]>>
              /\ dirs' = [d \in {<< >>} |-> DirRecord(tree[d].perm)]
              /\ UNCHANGED error
    BY <2>0
  <2>2. o.root \in {"dir", "relative", "file", "missing"}
    BY WalkAssumptions DEF resolve_walk, build_walk_options
  <2>3. o.root # "dir" => RootError(o.root) # Nil
    BY <2>2 DEF RootError, Nil
  <2> QED
    BY <2>1, <2>3
<1> QED
  BY <1>2, <1>3, <1>4

LEMMA ReadDirPlaces == ASSUME WalkInv, Places, ReadDir PROVE Places'
<1> PICK d : d = Stat(Top.dir)
  OBVIOUS
<1>1. CASE Fail("Io")
  <2>1. "Io" # Nil
    BY DEF Nil
  <2> QED
    BY <1>1, <2>1, PlacesFail DEF ReadDir
<1>2. CASE /\ stack' = WithTop([Top EXCEPT !.read = TRUE, !.left = ListingIn(tree, d.at)])
           /\ UNCHANGED <<opts, phase, dirs, pending, stats, open, manifest, error, meter>>
  <2>1. DirsBelow' /\ SlotsExist'
    BY <1>2, SameDirsSlots, SameSlotsKeep
  <2> PICK f : f = [Top EXCEPT !.read = TRUE, !.left = ListingIn(tree, d.at)]
    OBVIOUS
  <2>2. f.dir = Top.dir /\ f.read
    BY TopTyped DEF WalkInv, ReadDir, Levels
  <2>3. DescentOnce'
    BY <1>2, <2>2, TopNarrowed DEF WalkInv, Places, ReadDir
  <2>4. Ending'
    BY <1>2 DEF Places, Ending, ReadDir, fsVars
  <2> QED
    BY <2>1, <2>3, <2>4 DEF Places
<1> QED
  BY <1>1, <1>2 DEF ReadDir

LEMMA LeaveDirPlaces == ASSUME WalkInv, Places, LeaveDir PROVE Places'
<1>1. DirsBelow' /\ SlotsExist'
  BY SameDirsSlots, SameSlotsKeep DEF LeaveDir
<1>2. DescentOnce'
  <2> PICK n : n = Len(stack)
    OBVIOUS
  <2>1. n \in Nat \ {0} /\ stack' = SubSeq(stack, 1, n - 1) /\ dirs' = dirs
    BY PathParts DEF WalkInv, StackTyped, LeaveDir, Front
  <2>2. Len(stack') = n - 1 /\ \A i \in 1..(n - 1) : stack'[i] = stack[i]
    BY <2>1 DEF WalkInv, StackTyped
  <2> QED
    BY <2>1, <2>2 DEF Places, DescentOnce
<1>3. Ending'
  BY DEF Places, Ending, LeaveDir, fsVars
<1> QED
  BY <1>1, <1>2, <1>3 DEF Places

\* Descending: the directory had no record, so nothing queued is lost.
LEMMA DescendIntoPlaces ==
    ASSUME WalkInv, Places, phase = "discover", stack # << >>, Top.read,
           NEW n \in Top.left, NEW own, DescendInto(Append(Top.dir, n), own), UNCHANGED fsVars
    PROVE  Places'
<1> PICK d : d = Top.dir
  OBVIOUS
<1> PICK p : p = Append(d, n)
  OBVIOUS
<1> PICK L : L = Len(stack)
  OBVIOUS
<1> PICK base : base = [dirs EXCEPT ![d].child_dirs = @ \cup {p}]
  OBVIOUS
<1>1. /\ d \in Seq(Names) /\ n \in Names /\ L \in Nat \ {0} /\ Top = stack[L]
      /\ Top \in Levels /\ Len(stack) = L
  BY TopTyped, TopChanged DEF WalkInv, Levels
<1>2. p \in Seq(Names) /\ p # << >> /\ Front(p) = d /\ Last(p) = n /\ Len(p) = Len(d) + 1
  BY <1>1, AppendParts, AppendProperties
<1>3. d \in DOMAIN dirs /\ Len(d) = L - 1 /\ p \notin DOMAIN dirs
  BY <1>1 DEF Places, DescentOnce
<1>4. /\ dirs' = With(base, p, DirRecord(own.perm))
      /\ stack' = Append(Dropped(n), [dir |-> p, read |-> FALSE, left |-> {}])
      /\ UNCHANGED <<phase, pending, error, edits>>
  <2>1. Append(Top.dir, n) = p
    OBVIOUS
  <2> QED
    BY <1>2, <2>1 DEF DescendInto, fsVars
<1>5. DOMAIN dirs' = DOMAIN dirs \cup {p}
      /\ \A e \in DOMAIN dirs : DOMAIN dirs'[e].files = DOMAIN dirs[e].files
  <2>1. DOMAIN base = DOMAIN dirs
    OBVIOUS
  <2>2. DOMAIN dirs' = DOMAIN dirs \cup {p} /\ \A e \in DOMAIN dirs : dirs'[e] = base[e]
    BY <1>3, <1>4, <2>1 DEF With
  <2>3. \A e \in DOMAIN dirs : base[e].files = dirs[e].files
    <3> SUFFICES ASSUME NEW e \in DOMAIN dirs PROVE base[e].files = dirs[e].files
      OBVIOUS
    <3> PICK r : r = dirs[e]
      OBVIOUS
    <3>1. IsRecord(r)
      BY DEF WalkInv, RecordsTyped
    <3>2. base[e] = r \/ base[e] = [r EXCEPT !.child_dirs = @ \cup {p}]
      OBVIOUS
    <3>3. [r EXCEPT !.child_dirs = @ \cup {p}].files = r.files
      BY <3>1 DEF IsRecord
    <3> QED
      BY <3>2, <3>3
  <2> QED
    BY <2>2, <2>3
<1>6. DirsBelow'
  BY <1>2, <1>3, <1>5 DEF Places, DirsBelow
<1>7. SlotsExist'
  BY <1>4, <1>5 DEF Places, SlotsExist
<1>8. Ending'
  BY <1>4 DEF Places, Ending
<1>9. DescentOnce'
  <2> PICK f : f = [Top EXCEPT !.left = @ \ {n}]
    OBVIOUS
  <2> PICK new : new = [dir |-> p, read |-> FALSE, left |-> {}]
    OBVIOUS
  <2>1. f.dir = d /\ f.read = Top.read /\ f.left = Top.left \ {n}
    BY <1>1 DEF Levels
  <2> PICK w : w = WithTop(f)
    OBVIOUS
  <2>2. Len(w) = L /\ \A i \in 1..L : w[i] = IF i = L THEN f ELSE stack[i]
    BY TopChanged DEF WalkInv
  <2>3. w \in Seq(Levels) /\ stack' = Append(w, new)
    BY <1>4, TopTyped DEF WalkInv, Dropped
  <2>4. new \in Levels
    <3>1. {} \in SUBSET Names
      OBVIOUS
    <3> QED
      BY <1>2, <3>1 DEF Levels
  <2>5. /\ Len(stack') = L + 1 /\ stack'[L + 1] = new
        /\ \A i \in 1..L : stack'[i] = IF i = L THEN f ELSE stack[i]
    <3>1. /\ Len(Append(w, new)) = Len(w) + 1 /\ Append(w, new)[Len(w) + 1] = new
          /\ \A i \in 1..Len(w) : Append(w, new)[i] = w[i]
      BY <2>3, <2>4, AppendProperties
    <3> QED
      BY <2>2, <2>3, <3>1
  <2>6. /\ stack'[L + 1].dir \in DOMAIN dirs' /\ Len(stack'[L + 1].dir) = L
        /\ \A m \in Names : Append(stack'[L + 1].dir, m) \notin DOMAIN dirs'
    <3>1. stack'[L + 1].dir = p
      BY <2>5
    <3>2. Len(p) = L
      BY <1>1, <1>2, <1>3
    <3>3. ASSUME NEW m \in Names PROVE Append(p, m) \notin DOMAIN dirs'
      <4>1. Append(p, m) # << >> /\ Front(Append(p, m)) = p /\ Len(Append(p, m)) = Len(p) + 1
        <5>1. Append(p, m) # << >> /\ Front(Append(p, m)) = p
          BY <1>2, AppendParts
        <5>2. Len(Append(p, m)) = Len(p) + 1
          BY <1>2, AppendProperties
        <5> QED
          BY <5>1, <5>2
      <4>2. Append(p, m) \notin DOMAIN dirs
        BY <1>3, <4>1 DEF Places, DirsBelow
      <4>3. Append(p, m) # p
        BY <1>1, <3>2, <4>1
      <4> QED
        BY <1>5, <4>2, <4>3
    <3> QED
      BY <1>5, <3>1, <3>2, <3>3
  <2>7. ASSUME NEW i \in 1..L
        PROVE  /\ stack'[i].dir \in DOMAIN dirs' /\ Len(stack'[i].dir) = i - 1
               /\ \A m \in Names : m \in stack'[i].left \/ ~stack'[i].read =>
                                     Append(stack'[i].dir, m) \notin DOMAIN dirs'
    <3>1. /\ stack[i].dir \in DOMAIN dirs /\ Len(stack[i].dir) = i - 1
          /\ \A m \in Names : m \in stack[i].left \/ ~stack[i].read =>
                                Append(stack[i].dir, m) \notin DOMAIN dirs
      BY <1>1 DEF Places, DescentOnce
    <3>2. CASE i = L
      <4>1. /\ stack'[i].dir = d /\ stack'[i].left = Top.left \ {n}
            /\ stack'[i].read = Top.read /\ stack[i] = Top
        BY <1>1, <2>1, <2>5, <3>2
      <4>2. ASSUME NEW m \in Names, m \in Top.left \ {n} PROVE Append(d, m) \notin DOMAIN dirs'
        <5>1. Append(d, m) \notin DOMAIN dirs
          BY <3>1, <4>1, <4>2
        <5>2. Last(Append(d, m)) = m
          BY <1>1, AppendParts
        <5> QED
          BY <1>2, <1>5, <4>2, <5>1, <5>2
      <4> QED
        BY <1>5, <3>1, <4>1, <4>2
    <3>3. CASE i # L
      <4>1. stack'[i] = stack[i]
        BY <2>5, <3>3
      <4>2. ASSUME NEW m \in Names PROVE Append(stack[i].dir, m) # p
        <5>1. stack[i].dir \in Seq(Names)
          BY <3>1 DEF WalkInv, RecordsTyped
        <5>2. Front(Append(stack[i].dir, m)) = stack[i].dir
          BY <5>1, AppendParts
        <5> QED
          BY <1>1, <1>2, <1>3, <3>1, <3>3, <5>2
      <4> QED
        BY <1>5, <3>1, <4>1, <4>2
    <3> QED
      BY <3>2, <3>3
  <2> SUFFICES ASSUME NEW i \in 1..(L + 1)
               PROVE  /\ stack'[i].dir \in DOMAIN dirs' /\ Len(stack'[i].dir) = i - 1
                      /\ \A m \in Names : m \in stack'[i].left \/ ~stack'[i].read =>
                                            Append(stack'[i].dir, m) \notin DOMAIN dirs'
    BY <2>5 DEF DescentOnce
  <2>8. CASE i = L + 1
    BY <1>1, <2>6, <2>8
  <2>9. CASE i # L + 1
    <3>1. i \in 1..L
      BY <1>1, <2>9
    <3> QED
      BY <2>7, <3>1
  <2> QED
    BY <2>8, <2>9
<1> QED
  BY <1>6, <1>7, <1>8, <1>9 DEF Places

\* Recording a file where it was found.
LEMMA PutFilePlaces ==
    ASSUME WalkInv, Places, phase = "discover", stack # << >>, Top.read,
           NEW n \in Top.left, NEW fill, IsSlot(fill), PutFile(Top.dir, n, fill),
           stack' = Dropped(n), UNCHANGED <<phase, error, edits>>
    PROVE  /\ DirsBelow' /\ DescentOnce' /\ Ending'
           /\ Top.dir \in DOMAIN dirs' /\ n \in DOMAIN dirs'[Top.dir].files
           /\ \A q \in DOMAIN pending :
                Front(q) \in DOMAIN dirs' /\ Last(q) \in DOMAIN dirs'[Front(q)].files
<1> PICK d : d = Top.dir
  OBVIOUS
<1> PICK L : L = Len(stack)
  OBVIOUS
<1>1. n \in Names /\ L \in Nat \ {0} /\ Top = stack[L] /\ Len(stack) = L
  BY TopTyped, TopChanged DEF WalkInv, Levels
<1>2. d \in DOMAIN dirs
  BY <1>1 DEF Places, DescentOnce
<1>3. Filled(d, n, fill)
  BY <1>1, PutFileFills, Zenon DEF WalkInv
<1>4. SameSlots
  BY <1>3 DEF Filled, SameSlots
<1>5. DirsBelow' /\ \A q \in DOMAIN pending :
                      Front(q) \in DOMAIN dirs' /\ Last(q) \in DOMAIN dirs'[Front(q)].files
  BY <1>4 DEF Places, SameSlots, DirsBelow, SlotsExist
<1>6. DescentOnce'
  BY <1>3, DroppedNarrows DEF WalkInv, Places, Filled
<1>7. Ending'
  BY DEF Places, Ending
<1> QED
  BY <1>2, <1>3, <1>5, <1>6, <1>7 DEF Filled

LEMMA VisitPlaces == ASSUME WalkInv, Places, Visit PROVE Places'
<1>1. phase = "discover" /\ stack # << >> /\ Top.read /\ UNCHANGED fsVars /\ edits' = edits
  BY DEF Visit, fsVars
<1>2. PICK n \in Top.left :
        LET p == Append(Top.dir, n)  own == Lstat(p)  target == Stat(p)
        IN  \/ Skip(n)
            \/ Fail("Io") \/ Fail("DanglingLinkedObject")
            \/ DescendInto(p, own.node)
            \/ \E key, bytes : RecordLinked(p, own.node, key, bytes)
            \/ QueueFile(p, own.node)
  BY Zenon DEF Visit
<1> PICK d : d = Top.dir
  OBVIOUS
<1> PICK p : p = Append(d, n)
  OBVIOUS
<1> PICK own : own = Lstat(p).node
  OBVIOUS
<1>3. d \in Seq(Names) /\ n \in Names
  BY <1>1, TopTyped DEF WalkInv, Levels
<1>4. Front(p) = d /\ Last(p) = n
  BY <1>3, AppendParts
<1>5. "Io" # Nil /\ "DanglingLinkedObject" # Nil /\ "LinkedObjectIntegrity" # Nil
  BY DEF Nil
<1>6. CASE Skip(n)
  <2>1. DirsBelow' /\ SlotsExist'
    BY <1>6, SameDirsSlots, SameSlotsKeep DEF Skip
  <2>2. DescentOnce'
    BY <1>1, <1>6, DroppedNarrows DEF WalkInv, Places, Skip
  <2>3. Ending'
    BY <1>1, <1>6 DEF Places, Ending, Skip
  <2> QED
    BY <2>1, <2>2, <2>3 DEF Places
<1>7. CASE Fail("Io") \/ Fail("DanglingLinkedObject")
  BY <1>1, <1>5, <1>7, PlacesFail
<1>8. CASE DescendInto(p, own)
  BY <1>1, <1>8, DescendIntoPlaces
<1>9. CASE \E key, bytes : RecordLinked(p, own, key, bytes)
  <2> PICK key, bytes : RecordLinked(p, own, key, bytes)
    BY <1>9
  <2>1. CASE Fail("LinkedObjectIntegrity")
    BY <1>1, <1>5, <2>1, PlacesFail
  <2> PICK fill : fill = Slot(own.perm, key, LengthOf(own))
    OBVIOUS
  <2>2. CASE /\ PutFile(d, n, fill) /\ stack' = Dropped(n)
             /\ UNCHANGED <<phase, pending, error>>
    <3>1. IsSlot(fill)
      BY DEF IsSlot, Slot
    <3>2. /\ DirsBelow' /\ DescentOnce' /\ Ending'
          /\ \A q \in DOMAIN pending :
               Front(q) \in DOMAIN dirs' /\ Last(q) \in DOMAIN dirs'[Front(q)].files
      BY <1>1, <2>2, <3>1, PutFilePlaces
    <3>3. SlotsExist'
      BY <2>2, <3>2 DEF SlotsExist
    <3> QED
      BY <3>2, <3>3 DEF Places
  <2> QED
    BY <1>4, <2>1, <2>2 DEF RecordLinked
<1>10. CASE QueueFile(p, own)
  <2> PICK fill : fill = Slot(own.perm, Unfilled, LengthOf(own))
    OBVIOUS
  <2>1. /\ PutFile(d, n, fill) /\ stack' = Dropped(n) /\ UNCHANGED <<phase, error>>
        /\ DOMAIN pending' = DOMAIN pending \cup {p}
    BY <1>4, <1>10 DEF QueueFile, With
  <2>2. IsSlot(fill)
    BY DEF IsSlot, Slot
  <2>3. /\ DirsBelow' /\ DescentOnce' /\ Ending'
        /\ d \in DOMAIN dirs' /\ n \in DOMAIN dirs'[d].files
        /\ \A q \in DOMAIN pending :
             Front(q) \in DOMAIN dirs' /\ Last(q) \in DOMAIN dirs'[Front(q)].files
    BY <1>1, <2>1, <2>2, PutFilePlaces
  <2>4. SlotsExist'
    BY <1>4, <2>1, <2>3 DEF SlotsExist
  <2> QED
    BY <2>3, <2>4 DEF Places
<1> QED
  BY <1>2, <1>6, <1>7, <1>8, <1>9, <1>10

\* Steps of the hashers that fill no slot.
LEMMA HashingPlaces ==
    ASSUME Places, \/ BeginHash \/ OpenFile \/ ReadBlock
    PROVE  Places'
<1>1. UNCHANGED fsVars /\ edits' = edits
  BY DEF BeginHash, OpenFile, ReadBlock, fsVars
<1>2. \/ \E res : Fail(HashError(res))
      \/ Fail("Io") \/ Fail("FileChangedDuringWalk")
      \/ UNCHANGED <<phase, stack, dirs, pending, error>>
  <2>1. BeginHash => (\E res : Fail(HashError(res))) \/ UNCHANGED <<phase, stack, dirs, pending, error>>
    BY Zenon DEF BeginHash
  <2>2. OpenFile => \/ \E res : Fail(HashError(res))
                    \/ Fail("Io") \/ UNCHANGED <<phase, stack, dirs, pending, error>>
    BY Zenon DEF OpenFile
  <2>3. ReadBlock => Fail("FileChangedDuringWalk") \/ UNCHANGED <<phase, stack, dirs, pending, error>>
    BY Zenon DEF ReadBlock, Got
  <2> QED
    BY <2>1, <2>2, <2>3
<1>3. CASE UNCHANGED <<phase, stack, dirs, pending, error>>
  <2>1. DirsBelow' /\ SlotsExist' /\ DescentOnce'
    BY <1>3, SameDirsSlots, SameSlotsKeep
  <2>2. Ending'
    BY <1>1, <1>3 DEF Places, Ending
  <2> QED
    BY <2>1, <2>2 DEF Places
<1>4. \A res : HashError(res) # Nil
  BY DEF HashError, Nil
<1>5. "Io" # Nil /\ "FileChangedDuringWalk" # Nil
  BY DEF Nil
<1> QED
  BY <1>1, <1>2, <1>3, <1>4, <1>5, PlacesFail

LEMMA FinishHashPlaces == ASSUME WalkInv, Places, FinishHash PROVE Places'
<1>1. UNCHANGED fsVars /\ edits' = edits
  BY DEF FinishHash, fsVars
<1>2. \/ Fail("FileChangedDuringWalk")
      \/ \E p, sum : /\ dirs' = [dirs EXCEPT ![Front(p)].files[Last(p)].checksum = sum]
                     /\ UNCHANGED <<phase, stack, pending, error>>
  BY Zenon DEF FinishHash, HashDone, WriteBack
<1>3. CASE Fail("FileChangedDuringWalk")
  <2>1. "FileChangedDuringWalk" # Nil
    BY DEF Nil
  <2> QED
    BY <1>1, <1>3, <2>1, PlacesFail
<1>4. CASE \E p, sum : /\ dirs' = [dirs EXCEPT ![Front(p)].files[Last(p)].checksum = sum]
                       /\ UNCHANGED <<phase, stack, pending, error>>
  <2>1. PICK p, sum : /\ dirs' = [dirs EXCEPT ![Front(p)].files[Last(p)].checksum = sum]
                      /\ UNCHANGED <<phase, stack, pending, error>>
    BY <1>4
  <2> PICK d : d = Front(p)
    OBVIOUS
  <2> PICK n : n = Last(p)
    OBVIOUS
  <2>2. SameSlots
    <3>1. DOMAIN dirs' = DOMAIN dirs
      BY <2>1
    <3>2. ASSUME NEW e \in DOMAIN dirs PROVE DOMAIN dirs'[e].files = DOMAIN dirs[e].files
      <4> PICK r : r = dirs[e]
        OBVIOUS
      <4> PICK gs : gs = [r.files EXCEPT ![n].checksum = sum]
        OBVIOUS
      <4>1. IsRecord(r)
        BY DEF WalkInv, RecordsTyped
      <4>2. dirs'[e] = r \/ dirs'[e] = [r EXCEPT !.files = gs]
        BY <2>1
      <4>3. [r EXCEPT !.files = gs].files = gs
        BY <4>1 DEF IsRecord
      <4>4. DOMAIN gs = DOMAIN r.files
        OBVIOUS
      <4> QED
        BY <4>2, <4>3, <4>4
    <3> QED
      BY <3>1, <3>2 DEF SameSlots
  <2>3. DirsBelow' /\ SlotsExist' /\ DescentOnce'
    BY <2>1, <2>2, SameSlotsKeep
  <2>4. Ending'
    BY <1>1, <2>1 DEF Places, Ending
  <2> QED
    BY <2>3, <2>4 DEF Places
<1> QED
  BY <1>2, <1>3, <1>4

LEMMA PlacesNext == WalkInv /\ Places /\ [Next]_vars => Places'
<1> SUFFICES ASSUME WalkInv, Places, [Next]_vars PROVE Places'
  OBVIOUS
<1>1. CASE BeginWalk
  BY <1>1, BeginWalkPlaces
<1>2. CASE ReadDir
  BY <1>2, ReadDirPlaces
<1>3. CASE Visit
  BY <1>3, VisitPlaces
<1>4. CASE LeaveDir
  BY <1>4, LeaveDirPlaces
<1>5. CASE BeginHash \/ OpenFile \/ ReadBlock
  BY <1>5, HashingPlaces
<1>6. CASE FinishHash
  BY <1>6, FinishHashPlaces
<1>7. CASE Finalize
  <2>1. DirsBelow' /\ SlotsExist' /\ DescentOnce'
    BY <1>7, SameDirsSlots, SameSlotsKeep DEF Finalize
  <2>2. Ending'
    BY <1>7 DEF Places, Ending, Finalize, fsVars
  <2> QED
    BY <2>1, <2>2 DEF Places
<1>8. CASE EditFile \/ RemoveFile \/ DamageObject
  <2>1. UNCHANGED walkVars /\ edits < MaxEdits /\ edits' = edits + 1
    BY <1>8 DEF EditFile, RemoveFile, DamageObject
  <2>2. UNCHANGED <<phase, stack, dirs, pending, error>>
    BY <2>1 DEF walkVars
  <2>3. DirsBelow' /\ SlotsExist' /\ DescentOnce'
    BY <2>2, SameDirsSlots, SameSlotsKeep
  <2>4. Ending'
    BY <2>1, <2>2, WalkAssumptions DEF Places, Ending
  <2> QED
    BY <2>3, <2>4 DEF Places
<1>9. CASE Rest \/ UNCHANGED vars
  <2>1. UNCHANGED <<phase, stack, dirs, pending, error, edits>>
    BY <1>9 DEF Rest, vars
  <2>2. DirsBelow' /\ SlotsExist' /\ DescentOnce'
    BY <2>1, SameDirsSlots, SameSlotsKeep
  <2>3. Ending'
    BY <2>1 DEF Places, Ending
  <2> QED
    BY <2>2, <2>3 DEF Places
<1> QED
  BY <1>1, <1>2, <1>3, <1>4, <1>5, <1>6, <1>7, <1>8, <1>9 DEF Next, Walker

\* A queued file always has the slot its checksum goes to, a file being hashed
\* is queued, and a walk has failed exactly when it has an error, for a walk
\* reads no directory twice (discover_dir, hash_pending).
THEOREM WalkTypeCorrect == Spec => []TypeOK
<1>1. Init => WalkInv /\ Places
  BY WalkInitInv, PlacesInit
<1>2. WalkInv /\ Places /\ [Next]_vars => WalkInv' /\ Places'
  BY WalkNextKeeps, PlacesNext
<1>3. WalkInv /\ Places => TypeOK
  BY DEF WalkInv, HashingUnfilled, ReadersWitnessed, Places, SlotsExist, Ending, TypeOK
<1> QED
  BY <1>1, <1>2, <1>3, PTL DEF Spec

-----------------------------------------------------------------------------
(* A walk nobody disturbs. *)

\* The file system is as the scene has it.
Scenery == \E s \in Scenes : tree = s.tree /\ objects = s.pool

\* What the walk must refuse: a link, when it comes to it, or a directory or
\* file that is held back from it, when it goes to read it.
Barred(p) ==
  LET own == Lstat(p).node  all == Stat(p) IN
  \/ RefKind(p) = "broken" /\ ~LeftOut(all.res)
  \/ RefKind(p) = "broken" /\ all.res = "NotFound" /\ Recovered(own) # {}
  \/ /\ RefKind(p) = "file" /\ Recovered(own) # {} /\ opts.verify_linked_objects
     /\ hash_hex(opts.alg, all.node.bytes) # RefFileSum(p)
HeldBack(p) ==
  \/ RefKind(p) = "dir" /\ Shut(Stat(p).node)
  \/ RefKind(p) = "file" /\ Recovered(Lstat(p).node) = {} /\ Locked(Stat(p).node)

\* Every directory recorded is one the reference has, with its permissions
\* and the children recorded below it.
DirsExact ==
  \A d \in DOMAIN dirs :
    /\ d \in RefDirs /\ dirs[d].perm = Lstat(d).node.perm
    /\ dirs[d].child_dirs = {q \in DOMAIN dirs : q # << >> /\ Front(q) = d}

\* Every slot is that of a file of the reference and holds its checksum,
\* unless the file is queued for it.
SlotExact(p, s) ==
  /\ RefKind(p) = "file" /\ s.perm = Lstat(p).node.perm /\ s.size = RefFileSize(p)
  /\ \/ s.checksum = RefFileSum(p) /\ ~HeldBack(p)
     \/ s.checksum = Unfilled /\ p \in DOMAIN pending
SlotsExact ==
  \A d \in DOMAIN dirs : \A n \in DOMAIN dirs[d].files :
    SlotExact(Append(d, n), dirs[d].files[n])

\* What is queued is what lstat said of the file, and no address names it.
JobExact(p, job) ==
  /\ Recovered(Lstat(p).node) = {} /\ job.recorded_size = RefFileSize(p)
  /\ job.is_symlink = (Lstat(p).node.kind = "link")
QueueExact == \A p \in DOMAIN pending : JobExact(p, pending[p])

\* The length a BLAKE3 worker saw is that of the bytes it will read.
StatsExact ==
  \A p \in DOMAIN stats : opts.alg = "blake3" => stats[p] = Len(Stat(p).node.bytes)

\* What a worker has open is what the path leads to, and it has read a
\* beginning of it.
ReaderExact(p, h) ==
  /\ h.bytes = Stat(p).node.bytes /\ h.got \in Seq(Blocks) /\ Begins(h)
  /\ ~HeldBack(p)
ReadersExact == \A p \in DOMAIN open : ReaderExact(p, open[p])

\* A name of a directory is settled when what it leads to is recorded, and
\* is no link the walk has to refuse.
Settled(d, n) ==
  /\ RefKind(Append(d, n)) = "dir" => Append(d, n) \in DOMAIN dirs
  /\ RefKind(Append(d, n)) = "file" => n \in DOMAIN dirs[d].files
  /\ ~Barred(Append(d, n))

\* What is left of a directory being read is in its listing, and all else of
\* it is settled; so is all of a directory that has been read; and neither is
\* held back.
LevelsExact ==
  \A i \in 1..Len(stack) : \A d \in DOMAIN dirs : stack[i].dir = d /\ stack[i].read =>
    /\ ~HeldBack(d) /\ stack[i].left \subseteq ListingIn(tree, Stat(d).at)
    /\ \A n \in Names \ stack[i].left : Settled(d, n)
ReadThrough ==
  \A d \in DOMAIN dirs :
    \/ \E i \in 1..Len(stack) : stack[i].dir = d
    \/ ~HeldBack(d) /\ \A n \in Names : Settled(d, n)

Exact ==
  /\ opts.root = "dir" /\ << >> \in DOMAIN dirs /\ (phase = "hash" => stack = << >>)
  /\ DirsExact /\ SlotsExact /\ QueueExact /\ StatsExact /\ ReadersExact
  /\ LevelsExact /\ ReadThrough

ListedExactly == ~RefRefuses /\ manifest = {RefEntry(p) : p \in RefListed}

Undisturbed ==
  edits = 0 =>
    /\ Scenery
    /\ phase \in {"discover", "hash"} => Exact
    /\ phase = "failed" => RefRefuses
    /\ phase = "done" => ListedExactly
-----------------------------------------------------------------------------
(* Lookups, one name after the other. *)

\* Lookups of paths that begin alike begin alike.
Alike(p, q, k) == \A i \in 1..k : p[i] = q[i]

LEMMA LookupsAgree ==
    ASSUME NEW t, NEW o, NEW p, NEW q, NEW k \in Nat, NEW n \in Nat, k <= n,
           Alike(p, q, k), NEW f, NEW g, IsLookup(f, t, o, p, k), IsLookup(g, t, o, q, n)
    PROVE  f[k] = g[k]
<1>1. /\ \A i \in 0..k : f[i] = IF i = 0 THEN Start(t) ELSE Follow(t, o, f[i - 1], p[i])
      /\ \A i \in 0..n : g[i] = IF i = 0 THEN Start(t) ELSE Follow(t, o, g[i - 1], q[i])
  BY DEF IsLookup
<1> DEFINE T == {i \in Nat : i <= k /\ f[i] # g[i]}
<1> SUFFICES ASSUME T # {} PROVE FALSE
  OBVIOUS
<1>2. PICK i \in T : \A y \in T : ~(y < i)
  <2> T \subseteq Nat
    OBVIOUS
  <2> HIDE DEF T
  <2> QED
    BY LeastNatural
<1>3. i \in 0..k /\ i \in 0..n /\ i <= k /\ f[i] # g[i]
  BY <1>2
<1>4. i # 0
  BY <1>1, <1>3
<1>5. i - 1 \in Nat /\ i - 1 < i /\ i - 1 <= k /\ i \in 1..k
  BY <1>3, <1>4
<1>6. f[i - 1] = g[i - 1]
  BY <1>2, <1>5
<1>7. f[i] = Follow(t, o, f[i - 1], p[i]) /\ g[i] = Follow(t, o, g[i - 1], q[i]) /\ p[i] = q[i]
  BY <1>1, <1>3, <1>4, <1>5 DEF Alike
<1> QED
  BY <1>3, <1>6, <1>7

\* metadata of a path is one step from that of its parent; of the root, none.
LEMMA StatAppend ==
    ASSUME NEW t, NEW o, NEW p \in Seq(Names), NEW n \in Names
    PROVE  StatIn(t, o, Append(p, n)) = Follow(t, o, StatIn(t, o, p), n)
<1> PICK q : q = Append(p, n)
  OBVIOUS
<1> PICK k : k = Len(p)
  OBVIOUS
<1>1. /\ k \in Nat /\ Len(q) = k + 1 /\ q[k + 1] = n
      /\ \A i \in 1..k : p[i] = q[i]
  BY AppendProperties, LenProperties
<1>2. PICK f : IsLookup(f, t, o, p, k) /\ StatIn(t, o, p) = f[k]
  BY <1>1, StatIsLookup
<1> PICK m : m = k + 1
  OBVIOUS
<1>3. PICK g : IsLookup(g, t, o, q, m) /\ StatIn(t, o, q) = g[m]
  <2>1. Len(q) = m /\ Len(q) \in Nat
    BY <1>1
  <2>2. \E g : IsLookup(g, t, o, q, Len(q)) /\ StatIn(t, o, q) = g[Len(q)]
    BY <2>1, StatIsLookup
  <2> QED
    BY <2>1, <2>2
<1>4. f[k] = g[k]
  <2>1. m \in Nat /\ k \in Nat /\ k <= m
    BY <1>1
  <2>2. Alike(p, q, k)
    BY <1>1 DEF Alike
  <2> QED
    <3>1. IsLookup(f, t, o, p, k)
      BY <1>2
    <3>2. IsLookup(g, t, o, q, m)
      BY <1>3
    <3>3. \A ff, gg : IsLookup(ff, t, o, p, k) /\ IsLookup(gg, t, o, q, m) => ff[k] = gg[k]
      BY <2>1, <2>2, LookupsAgree
    <3> QED
      BY <3>1, <3>2, <3>3
<1>5. g[m] = Follow(t, o, g[k], n)
  <2>1. m \in 0..m /\ m # 0 /\ m - 1 = k /\ q[m] = n
    BY <1>1
  <2>2. \A i \in 0..m : g[i] = IF i = 0 THEN Start(t) ELSE Follow(t, o, g[i - 1], q[i])
    BY <1>3 DEF IsLookup
  <2> QED
    BY <2>1, <2>2
<1> QED
  BY <1>2, <1>3, <1>4, <1>5

LEMMA StatRoot == ASSUME NEW t, NEW o PROVE StatIn(t, o, << >>) = Start(t)
<1>1. Len(<< >>) = 0
  OBVIOUS
<1>2. PICK f : IsLookup(f, t, o, << >>, 0) /\ StatIn(t, o, << >>) = f[0]
  BY <1>1, StatIsLookup
<1>3. f[0] = Start(t)
  BY <1>2 DEF IsLookup
<1> QED
  BY <1>2, <1>3

\* What a lookup has in hand.
PoolTyped(o) == \A a \in DOMAIN o : o[a] \in Contents
Sound(st) ==
  /\ IsState(st) /\ st.node.kind \in Kinds
  /\ st.node.kind = "file" => st.node.bytes \in Contents

LEMMA FollowSound ==
    ASSUME NEW t, NEW o, IsTree(t), PoolTyped(o), NEW st, Sound(st), NEW n
    PROVE  Sound(Follow(t, o, st, n))
<1> PICK p : p = Append(st.at, n)
  OBVIOUS
<1> DEFINE r == Follow(t, o, st, n)
<1>1. \A x \in DOMAIN t : t[x].kind \in Kinds /\ (t[x].kind = "file" => t[x].bytes \in Contents)
  BY DEF IsTree
<1>2. \A c \in Contents : FileNode(c).bytes \in Contents /\ FileNode(c).kind \in Kinds
  BY DEF FileNode, Kinds
<1>3. CASE st.res # "ok"
  BY <1>3 DEF Follow
<1>4. CASE \E e : r = [st EXCEPT !.res = e]
  <2>1. r.node = st.node /\ IsState(r)
    BY <1>4 DEF Sound, IsState
  <2> QED
    BY <2>1 DEF Sound
<1>5. CASE p \in DOMAIN t /\ r = [st EXCEPT !.at = p, !.node = t[p]]
  <2>1. r.node = t[p] /\ IsState(r)
    BY <1>5 DEF Sound, IsState
  <2> QED
    BY <1>1, <1>5, <2>1 DEF Sound
<1>6. CASE \E x \in DOMAIN t : r = [st EXCEPT !.at = x, !.node = t[x], !.links = @ + 1]
  <2> PICK x \in DOMAIN t : r = [st EXCEPT !.at = x, !.node = t[x], !.links = @ + 1]
    BY <1>6, Zenon
  <2>1. r.node = t[x] /\ IsState(r)
    BY DEF Sound, IsState
  <2> QED
    BY <1>1, <2>1 DEF Sound
<1>7. CASE \E a \in DOMAIN o : r = [st EXCEPT !.node = FileNode(o[a]), !.links = @ + 1]
  <2> PICK a \in DOMAIN o : r = [st EXCEPT !.node = FileNode(o[a]), !.links = @ + 1]
    BY <1>7, Zenon
  <2>1. r.node = FileNode(o[a]) /\ IsState(r)
    BY DEF Sound, IsState
  <2> QED
    BY <1>2, <2>1 DEF Sound, PoolTyped
<1>8. \A q : LookUp(t, q) = "ok" => q \in DOMAIN t
  <2>1. "Denied" # "ok" /\ "NotDirectory" # "ok" /\ "NotFound" # "ok"
    OBVIOUS
  <2> QED
    BY <2>1, Zenon DEF LookUp
<1>9. \/ st.res # "ok"
      \/ \E e : r = [st EXCEPT !.res = e]
      \/ p \in DOMAIN t /\ r = [st EXCEPT !.at = p, !.node = t[p]]
      \/ \E x \in DOMAIN t : r = [st EXCEPT !.at = x, !.node = t[x], !.links = @ + 1]
      \/ \E a \in DOMAIN o : r = [st EXCEPT !.node = FileNode(o[a]), !.links = @ + 1]
  BY <1>8, Zenon DEF Follow
<1> QED
  BY <1>3, <1>4, <1>5, <1>6, <1>7, <1>9, Zenon

LEMMA StatSound ==
    ASSUME NEW t, NEW o, IsTree(t), PoolTyped(o), NEW p \in Seq(Names)
    PROVE  Sound(StatIn(t, o, p))
<1>0. Len(p) \in Nat
  BY LenProperties
<1>1. PICK f : IsLookup(f, t, o, p, Len(p)) /\ StatIn(t, o, p) = f[Len(p)]
  BY <1>0, StatIsLookup
<1>2. \A i \in 0..Len(p) : f[i] = IF i = 0 THEN Start(t) ELSE Follow(t, o, f[i - 1], p[i])
  BY <1>1 DEF IsLookup
<1> DEFINE T == {i \in Nat : i <= Len(p) /\ ~Sound(f[i])}
<1> SUFFICES ASSUME T # {} PROVE FALSE
  BY <1>0, <1>1
<1>3. PICK i \in T : \A y \in T : ~(y < i)
  <2> T \subseteq Nat
    OBVIOUS
  <2> HIDE DEF T
  <2> QED
    BY LeastNatural
<1>4. i \in 0..Len(p) /\ ~Sound(f[i])
  BY <1>0, <1>3
<1>5. Sound(Start(t))
  BY DEF Sound, Start, IsState, IsTree
<1>6. i # 0
  BY <1>2, <1>4, <1>5
<1>7. i - 1 \in Nat /\ i - 1 < i /\ i - 1 <= Len(p)
  BY <1>0, <1>4, <1>6
<1>8. Sound(f[i - 1])
  BY <1>3, <1>7
<1> QED
  BY <1>2, <1>4, <1>6, <1>8, FollowSound

\* What lstat and stat say of a name of a directory that has been reached: it
\* may not be searched, or a name it does not have is not found, and one that
\* is no link is what the tree has there.
LEMMA NameLookup ==
    ASSUME NEW t, NEW o, IsTree(t), PoolTyped(o), NEW d \in Seq(Names), NEW n \in Names,
           StatIn(t, o, d).res = "ok", StatIn(t, o, d).node.kind = "dir"
    PROVE  LET st == StatIn(t, o, d)
               p == Append(d, n)
               own == LstatIn(t, o, p)
               all == StatIn(t, o, p)
           IN  /\ Shut(st.node) => own.res = "Denied"
               /\ ~Shut(st.node) /\ n \notin ListingIn(t, st.at) => own.res = "NotFound"
               /\ ~Shut(st.node) /\ n \in ListingIn(t, st.at) => own.res = "ok"
               /\ own.res = "ok" /\ own.node.kind # "link" =>
                    all.res = "ok" /\ all.node = own.node
<1> PICK st : st = StatIn(t, o, d)
  OBVIOUS
<1> PICK p : p = Append(d, n)
  OBVIOUS
<1> PICK e : e = Append(st.at, n)
  OBVIOUS
<1>1. p # << >> /\ Front(p) = d /\ Last(p) = n
  BY AppendParts
<1>2. LstatIn(t, o, p) = IF Shut(st.node) THEN [res |-> "Denied", node |-> Special]
                         ELSE IF e \notin DOMAIN t THEN [res |-> "NotFound", node |-> Special]
                         ELSE [res |-> "ok", node |-> t[e]]
  BY <1>1 DEF LstatIn
<1>3. (n \in ListingIn(t, st.at)) = (e \in DOMAIN t)
  BY DEF ListingIn
<1>4. StatIn(t, o, p) = Follow(t, o, st, n)
  BY StatAppend
<1>5. Sound(st)
  BY StatSound
<1>6. ASSUME ~Shut(st.node), e \in DOMAIN t, t[e].kind # "link"
      PROVE  StatIn(t, o, p).res = "ok" /\ StatIn(t, o, p).node = t[e]
  <2>1. StatIn(t, o, p) = [st EXCEPT !.at = e, !.node = t[e]]
    BY <1>4, <1>6 DEF Follow
  <2> QED
    BY <1>5, <2>1 DEF Sound, IsState
<1> QED
  BY <1>2, <1>3, <1>6


-----------------------------------------------------------------------------
(* The reference, on a file system that is as a scene has it. *)

LEMMA SceneryTyped ==
    ASSUME Scenery
    PROVE  /\ IsTree(tree) /\ PoolTyped(objects)
           /\ \A p \in [1..RefDepth -> Names] : Stat(p).res # "ok"
<1> PICK s \in Scenes : tree = s.tree /\ objects = s.pool
  BY DEF Scenery
<1>1. IsTree(s.tree) /\ \A a \in DOMAIN s.pool : s.pool[a] \in Contents
  BY WalkAssumptions
<1>2. \A p \in [1..RefDepth -> Names] : StatIn(s.tree, s.pool, p).res # "ok"
  BY WalkAssumptions
<1> QED
  BY <1>1, <1>2 DEF PoolTyped, Stat

LEMMA PathOfLength ==
    ASSUME NEW k \in Nat, NEW p
    PROVE  p \in [1..k -> Names] <=> p \in Seq(Names) /\ Len(p) = k
<1>1. ASSUME p \in [1..k -> Names] PROVE p \in Seq(Names) /\ Len(p) = k
  BY <1>1
<1>2. ASSUME p \in Seq(Names), Len(p) = k PROVE p \in [1..k -> Names]
  BY <1>2
<1> QED
  BY <1>1, <1>2

\* The reference's paths are those of a bounded length, below directories.
LEMMA FoundTyped ==
    ASSUME NEW p
    PROVE  p \in RefFound <=>
             /\ p \in Seq(Names) /\ Len(p) \in 0..RefDepth
             /\ \A k \in 0..(Len(p) - 1) : RefKind(SubSeq(p, 1, k)) = "dir"
<1>1. RefDepth \in Nat
  BY WalkAssumptions
<1>2. p \in RefPaths <=> \E k \in 0..RefDepth : p \in [1..k -> Names]
  BY DEF RefPaths
<1>3. p \in RefPaths <=> p \in Seq(Names) /\ Len(p) \in 0..RefDepth
  <2>1. \A k \in 0..RefDepth : k \in Nat
    BY <1>1
  <2>2. \A k \in 0..RefDepth : p \in [1..k -> Names] <=> p \in Seq(Names) /\ Len(p) = k
    BY <2>1, PathOfLength
  <2> QED
    BY <1>2, <2>2
<1> QED
  BY <1>3 DEF RefFound

\* A directory of the reference can be read, and is not as deep as a path
\* that leads nowhere.
LEMMA DirReached ==
    ASSUME Scenery, NEW d \in RefDirs
    PROVE  /\ d \in Seq(Names) /\ Len(d) \in Nat /\ Len(d) < RefDepth
           /\ Stat(d).res = "ok" /\ Stat(d).node.kind = "dir"
<1>1. d \in Seq(Names) /\ Len(d) \in 0..RefDepth /\ RefKind(d) = "dir"
  BY FoundTyped DEF RefDirs
<1>2. RefDepth \in Nat \ {0}
  BY WalkAssumptions
<1>3. Stat(d).res = "ok" /\ Stat(d).node.kind = "dir"
  <2>1. CASE d = << >>
    <3>1. Stat(d) = Start(tree)
      BY <2>1, StatRoot DEF Stat
    <3>2. tree[<< >>].kind = "dir"
      BY SceneryTyped DEF IsTree
    <3> QED
      BY <3>1, <3>2 DEF Start
  <2>2. CASE d # << >>
    <3>1. "none" # "dir" /\ "broken" # "dir"
      OBVIOUS
    <3> QED
      BY <1>1, <2>2, <3>1 DEF RefKind
  <2> QED
    BY <2>1, <2>2
<1>4. Len(d) # RefDepth
  <2> SUFFICES ASSUME Len(d) = RefDepth PROVE FALSE
    OBVIOUS
  <2>1. d \in [1..RefDepth -> Names]
    BY <1>1, <1>2, PathOfLength
  <2> QED
    BY <1>3, <2>1, SceneryTyped
<1> QED
  BY <1>1, <1>2, <1>3, <1>4

\* What is found below such a directory is a path of the reference.
LEMMA FoundBelow ==
    ASSUME Scenery, NEW d \in RefDirs, NEW n \in Names
    PROVE  /\ Append(d, n) \in RefFound
           /\ RefKind(Append(d, n)) = "dir" => Append(d, n) \in RefDirs
<1> PICK p : p = Append(d, n)
  OBVIOUS
<1> PICK k : k = Len(d)
  OBVIOUS
<1>1. /\ d \in Seq(Names) /\ k \in Nat /\ k < RefDepth /\ RefKind(d) = "dir"
      /\ \A i \in 0..(k - 1) : RefKind(SubSeq(d, 1, i)) = "dir"
  BY DirReached, FoundTyped DEF RefDirs
<1>2. p \in Seq(Names) /\ p # << >> /\ Front(p) = d
  BY <1>1, AppendParts
<1>3. Len(p) = k + 1
  BY <1>1, AppendProperties
<1>4. \A i \in 0..k : SubSeq(p, 1, i) = SubSeq(d, 1, i)
  BY <1>1, <1>2, <1>3, PathParts
<1>5. SubSeq(d, 1, k) = d
  BY <1>1
<1>6. \A i \in 0..(Len(p) - 1) : RefKind(SubSeq(p, 1, i)) = "dir"
  <2> SUFFICES ASSUME NEW i \in 0..(Len(p) - 1) PROVE RefKind(SubSeq(p, 1, i)) = "dir"
    OBVIOUS
  <2>1. i \in 0..k /\ (i = k \/ i \in 0..(k - 1))
    BY <1>1, <1>3
  <2>2. RefKind(SubSeq(d, 1, i)) = "dir"
    BY <1>1, <1>5, <2>1
  <2>3. SubSeq(p, 1, i) = SubSeq(d, 1, i)
    BY <1>4, <2>1
  <2> QED
    BY <2>2, <2>3
<1>7. Len(p) \in 0..RefDepth
  BY <1>1, <1>3, WalkAssumptions
<1>8. p \in RefFound
  BY <1>2, <1>6, <1>7, FoundTyped
<1> QED
  BY <1>8 DEF RefDirs

\* The root is one of them.
LEMMA RootFound == << >> \in RefDirs
<1>1. << >> \in Seq(Names) /\ Len(<< >>) = 0
  BY EmptySeq
<1>2. Len(<< >>) \in 0..RefDepth
  BY <1>1, WalkAssumptions
<1>3. \A k \in 0..(Len(<< >>) - 1) : FALSE
  BY <1>1
<1>4. << >> \in RefFound
  BY <1>1, <1>2, <1>3, FoundTyped
<1> QED
  BY <1>4 DEF RefDirs, RefKind

\* A name of a directory that its listing does not have leads nowhere; one it
\* has is found, if the directory is not held back, and found without fail
\* when it is no link.
LEMMA NameFound ==
    ASSUME Scenery, NEW d \in RefDirs, NEW n \in Names
    PROVE  LET p == Append(d, n)
               listed == n \in ListingIn(tree, Stat(d).at)
           IN  /\ ~listed => RefKind(p) = "none"
               /\ listed /\ ~HeldBack(d) => Lstat(p).res = "ok"
               /\ Lstat(p).res = "ok" /\ Lstat(p).node.kind # "link" =>
                    Stat(p).res = "ok" /\ Stat(p).node = Lstat(p).node
<1> PICK p : p = Append(d, n)
  OBVIOUS
<1>1. /\ n \notin ListingIn(tree, Stat(d).at) => Lstat(p).res # "ok"
      /\ n \in ListingIn(tree, Stat(d).at) /\ ~HeldBack(d) => Lstat(p).res = "ok"
      /\ Lstat(p).res = "ok" /\ Lstat(p).node.kind # "link" =>
           Stat(p).res = "ok" /\ Stat(p).node = Lstat(p).node
  <2>1. /\ IsTree(tree) /\ PoolTyped(objects) /\ d \in Seq(Names)
        /\ StatIn(tree, objects, d).res = "ok" /\ StatIn(tree, objects, d).node.kind = "dir"
    BY SceneryTyped, DirReached DEF Stat
  <2>2. "NotFound" # "ok" /\ "Denied" # "ok"
    OBVIOUS
  <2>3. Shut(StatIn(tree, objects, d).node) = Shut(Stat(d).node)
    BY DEF Stat
  <2>4. Shut(Stat(d).node) => HeldBack(d)
    BY DEF RefDirs, HeldBack
  <2>5. LET st == StatIn(tree, objects, d)
        IN  /\ Shut(st.node) => LstatIn(tree, objects, p).res = "Denied"
            /\ ~Shut(st.node) /\ n \notin ListingIn(tree, st.at) =>
                 LstatIn(tree, objects, p).res = "NotFound"
            /\ ~Shut(st.node) /\ n \in ListingIn(tree, st.at) =>
                 LstatIn(tree, objects, p).res = "ok"
            /\ LstatIn(tree, objects, p).res = "ok"
               /\ LstatIn(tree, objects, p).node.kind # "link" =>
                 /\ StatIn(tree, objects, p).res = "ok"
                 /\ StatIn(tree, objects, p).node = LstatIn(tree, objects, p).node
    BY <2>1, NameLookup
  <2> QED
    BY <2>2, <2>4, <2>5 DEF Stat, Lstat
<1>2. Lstat(p).res # "ok" => RefKind(p) = "none"
  <2>1. d \in Seq(Names)
    BY DirReached
  <2>2. p # << >>
    BY <2>1, AppendParts
  <2> QED
    BY <2>2 DEF RefKind
<1> QED
  BY <1>1, <1>2

\* As long as neither the file system nor the options change, nor does what
\* the reference says.
Still == UNCHANGED <<tree, objects, opts>>

LEMMA RefStill ==
    ASSUME Still
    PROVE  /\ \A p : /\ RefKind(p)' = RefKind(p) /\ Lstat(p)' = Lstat(p) /\ Stat(p)' = Stat(p)
                     /\ RefFileSum(p)' = RefFileSum(p) /\ RefFileSize(p)' = RefFileSize(p)
                     /\ RefRefused(p)' = RefRefused(p)
                     /\ Barred(p)' = Barred(p) /\ HeldBack(p)' = HeldBack(p)
           /\ RefFound' = RefFound /\ RefDirs' = RefDirs /\ RefRefuses' = RefRefuses
           /\ Scenery' = Scenery /\ \A own : Recovered(own)' = Recovered(own)
<1>1. tree' = tree /\ objects' = objects /\ opts' = opts
  BY DEF Still
<1>2. ASSUME NEW p PROVE Stat(p)' = Stat(p) /\ Lstat(p)' = Lstat(p)
  BY <1>1 DEF Stat, Lstat
<1>3. ASSUME NEW p PROVE RefKind(p)' = RefKind(p)
  BY <1>1, <1>2 DEF RefKind, is_excluded
<1>4. ASSUME NEW own PROVE Recovered(own)' = Recovered(own)
  BY <1>1 DEF Recovered, recover_keys
<1>5. ASSUME NEW p PROVE RefFileSum(p)' = RefFileSum(p) /\ RefFileSize(p)' = RefFileSize(p)
  BY <1>1, <1>2 DEF RefFileSum, RefFileSize, Recovered, recover_keys
<1>6. ASSUME NEW p PROVE RefRefused(p)' = RefRefused(p)
  BY <1>1, <1>2, <1>3, <1>4, <1>5 DEF RefRefused
<1>11. ASSUME NEW p PROVE Barred(p)' = Barred(p) /\ HeldBack(p)' = HeldBack(p)
  <2>1. Recovered(Lstat(p).node)' = Recovered(Lstat(p).node)
    BY <1>1, <1>2 DEF Recovered, recover_keys
  <2>2. Barred(p)' = Barred(p)
    BY <1>1, <1>2, <1>3, <1>5, <2>1 DEF Barred
  <2>3. HeldBack(p)' = HeldBack(p)
    BY <1>2, <1>3, <2>1 DEF HeldBack
  <2> QED
    BY <2>2, <2>3
<1>7. RefFound' = RefFound
  BY <1>3 DEF RefFound
<1>8. RefDirs' = RefDirs
  BY <1>3, <1>7 DEF RefDirs
<1>9. RefRefuses' = RefRefuses
  BY <1>1, <1>6, <1>7 DEF RefRefuses
<1>10. Scenery' = Scenery
  BY <1>1 DEF Scenery
<1> QED
  BY <1>2, <1>3, <1>4, <1>5, <1>6, <1>7, <1>8, <1>9, <1>10, <1>11


-----------------------------------------------------------------------------
(* What a step that only adds to the records leaves exact. *)

Grown ==
  /\ DOMAIN dirs \subseteq DOMAIN dirs'
  /\ \A e \in DOMAIN dirs : DOMAIN dirs[e].files \subseteq DOMAIN dirs'[e].files

LEMMA SettledStays ==
    ASSUME Still, Grown, NEW d \in DOMAIN dirs, NEW n, Settled(d, n) PROVE Settled(d, n)'
BY RefStill DEF Settled, Grown

LEMMA SlotsStay ==
    ASSUME Still, UNCHANGED dirs, DOMAIN pending \subseteq DOMAIN pending', SlotsExact
    PROVE  SlotsExact'
BY RefStill DEF SlotsExact, SlotExact

LEMMA DirsStay ==
    ASSUME Still, UNCHANGED dirs, DirsExact PROVE DirsExact'
BY RefStill DEF DirsExact

LEMMA JobsStay ==
    ASSUME Still, UNCHANGED pending, QueueExact PROVE QueueExact'
<1>1. \A p : /\ Lstat(p)' = Lstat(p) /\ RefFileSize(p)' = RefFileSize(p)
  BY RefStill
<1>2. \A own : Recovered(own)' = Recovered(own)
  BY RefStill
<1> SUFFICES ASSUME NEW p \in DOMAIN pending PROVE JobExact(p, pending[p])'
  BY DEF QueueExact
<1>3. JobExact(p, pending[p])
  BY DEF QueueExact
<1>4. Recovered(Lstat(p).node)' = Recovered(Lstat(p).node)
  BY <1>1, <1>2 DEF Recovered, recover_keys, Still
<1> QED
  BY <1>1, <1>3, <1>4 DEF JobExact

LEMMA StatsStay ==
    ASSUME Still, UNCHANGED stats, StatsExact PROVE StatsExact'
BY RefStill DEF StatsExact, Still

LEMMA OpenStay ==
    ASSUME Still, UNCHANGED open, ReadersExact PROVE ReadersExact'
BY RefStill DEF ReadersExact, ReaderExact, Begins, Still

\* The directory on top gives way to one whose other names are settled.
LEMMA TopSettled ==
    ASSUME StackTyped, stack # << >>, Still, Grown, DOMAIN dirs' = DOMAIN dirs,
           DescentOnce, LevelsExact, ReadThrough,
           NEW f, stack' = WithTop(f), f.dir = Top.dir,
           NEW d, d = Top.dir, ~HeldBack(d), f.left \subseteq ListingIn(tree, Stat(d).at),
           \A n \in Names \ f.left : Settled(d, n)'
    PROVE  LevelsExact' /\ ReadThrough'
<1> PICK L : L = Len(stack)
  OBVIOUS
<1>1. /\ L \in Nat \ {0} /\ Top = stack[L] /\ Len(stack') = L
      /\ \A i \in 1..L : stack'[i] = IF i = L THEN f ELSE stack[i]
  BY TopChanged
<1>2. LevelsExact'
  <2> SUFFICES ASSUME NEW i \in 1..Len(stack'), NEW e \in DOMAIN dirs',
                      stack'[i].dir = e, stack'[i].read
               PROVE  /\ ~HeldBack(e)' /\ stack'[i].left \subseteq ListingIn(tree, Stat(e).at)'
                      /\ \A n \in Names \ stack'[i].left : Settled(e, n)'
    BY DEF LevelsExact
  <2>1. /\ ListingIn(tree, Stat(e).at)' = ListingIn(tree, Stat(e).at)
        /\ HeldBack(e)' = HeldBack(e)
    BY RefStill DEF ListingIn, Still
  <2>2. CASE i = L
    <3>1. e = d /\ stack'[i].left = f.left
      BY <1>1, <2>2
    <3> QED
      BY <2>1, <3>1
  <2>3. CASE i # L
    <3>1. stack'[i] = stack[i] /\ i \in 1..Len(stack)
      BY <1>1, <2>3
    <3>2. /\ ~HeldBack(e) /\ stack[i].left \subseteq ListingIn(tree, Stat(e).at)
          /\ \A n \in Names \ stack[i].left : Settled(e, n)
      BY <3>1 DEF LevelsExact
    <3>3. \A n \in Names \ stack[i].left : Settled(e, n)'
      BY <3>2, SettledStays
    <3> QED
      BY <2>1, <3>1, <3>2, <3>3
  <2> QED
    BY <2>2, <2>3
<1>3. ReadThrough'
  <2> SUFFICES ASSUME NEW e \in DOMAIN dirs', ~\E i \in 1..Len(stack') : stack'[i].dir = e
               PROVE  ~HeldBack(e)' /\ \A n \in Names : Settled(e, n)'
    BY DEF ReadThrough
  <2>1. \A i \in 1..L : stack'[i].dir = stack[i].dir
    BY <1>1
  <2>2. ~HeldBack(e) /\ \A n \in Names : Settled(e, n)
    BY <1>1, <2>1 DEF ReadThrough
  <2> QED
    BY <2>2, SettledStays, RefStill
<1> QED
  BY <1>2, <1>3

LEMMA GrownSame == UNCHANGED dirs => Grown
BY DEF Grown

LEMMA StillInPlace == UNCHANGED <<opts, fsVars>> => Still
BY DEF Still, fsVars

-----------------------------------------------------------------------------
(* Reading directories. *)

\* How a step may leave a walk nobody disturbs.
Onward == phase' \in {"discover", "hash"} /\ Exact'
Refused == phase' = "failed" /\ RefRefuses

LEMMA ReadDirExact ==
    ASSUME WalkInv, Places, Scenery, Exact, ReadDir PROVE Onward \/ Refused
<1> PICK d : d = Top.dir
  OBVIOUS
<1>1. StackTyped /\ stack # << >> /\ phase = "discover" /\ UNCHANGED fsVars
  BY DEF WalkInv, ReadDir
<1>2. d \in DOMAIN dirs /\ d \in RefDirs
  <2>1. d \in DOMAIN dirs
    BY <1>1, TopChanged DEF Places, DescentOnce
  <2> QED
    BY <2>1 DEF Exact, DirsExact
<1>3. Stat(d).res = "ok" /\ Stat(d).node.kind = "dir"
  BY <1>2, DirReached
<1>11. CASE Shut(Stat(d).node)
  <2>1. phase' = "failed"
    BY <1>11 DEF ReadDir, Fail
  <2>2. d \in RefFound /\ RefRefused(d)
    BY <1>2, <1>11 DEF RefDirs, RefRefused
  <2> QED
    BY <2>1, <2>2 DEF Refused, RefRefuses
<1> SUFFICES ASSUME ~Shut(Stat(d).node) PROVE Onward
  BY <1>11
<1>12. ~HeldBack(d)
  <2>1. RefKind(d) = "dir" /\ "dir" # "file"
    BY <1>2 DEF RefDirs
  <2> QED
    BY <2>1 DEF HeldBack
<1> PICK f : f = [Top EXCEPT !.read = TRUE, !.left = ListingIn(tree, Stat(d).at)]
  OBVIOUS
<1>4. /\ stack' = WithTop(f)
      /\ UNCHANGED <<opts, phase, dirs, pending, stats, open, manifest, error, meter>>
  BY <1>3 DEF ReadDir
<1>5. f.dir = d /\ f.left = ListingIn(tree, Stat(d).at)
  <2>1. Top \in Levels
    BY <1>1, TopTyped
  <2> QED
    BY <2>1 DEF Levels
<1>6. Still /\ Grown
  BY <1>1, <1>4, GrownSame, StillInPlace
<1>7. ASSUME NEW n \in Names \ f.left PROVE Settled(d, n)'
  <2>1. RefKind(Append(d, n)) = "none"
    BY <1>2, <1>5, <1>7, NameFound
  <2>2. Settled(d, n)
    <3>1. "none" # "dir" /\ "none" # "file" /\ "none" # "broken"
      OBVIOUS
    <3> QED
      BY <2>1, <3>1 DEF Settled, Barred
  <2> QED
    BY <1>2, <1>6, <2>2, SettledStays
<1>8. LevelsExact' /\ ReadThrough'
  BY <1>1, <1>4, <1>5, <1>6, <1>7, <1>12, TopSettled DEF Places, Exact
<1>9. DirsExact' /\ SlotsExact' /\ QueueExact' /\ StatsExact' /\ ReadersExact'
  BY <1>4, <1>6, DirsStay, SlotsStay, JobsStay, StatsStay, OpenStay DEF Exact
<1>10. phase' = "discover" /\ opts'.root = "dir" /\ << >> \in DOMAIN dirs'
  BY <1>1, <1>4 DEF Exact
<1> QED
  BY <1>8, <1>9, <1>10 DEF Onward, Exact

LEMMA LeaveDirExact ==
    ASSUME WalkInv, Places, Scenery, Exact, LeaveDir PROVE Onward
<1> PICK L : L = Len(stack)
  OBVIOUS
<1>1. /\ StackTyped /\ stack # << >> /\ Top.read /\ Top.left = {} /\ phase = "discover"
      /\ UNCHANGED <<opts, dirs, pending, stats, open, fsVars>>
  BY DEF WalkInv, LeaveDir
<1>2. L \in Nat \ {0} /\ Top = stack[L]
  BY <1>1, TopChanged
<1>3. Len(stack') = L - 1 /\ \A i \in 1..(L - 1) : stack'[i] = stack[i]
  <2>1. stack' = SubSeq(stack, 1, L - 1)
    BY DEF LeaveDir, Front
  <2> QED
    BY <1>1, <1>2, <2>1 DEF StackTyped
<1>4. Still /\ Grown
  BY <1>1, GrownSame, StillInPlace
<1>5. LevelsExact'
  <2> SUFFICES ASSUME NEW i \in 1..Len(stack'), NEW e \in DOMAIN dirs',
                      stack'[i].dir = e, stack'[i].read
               PROVE  /\ ~HeldBack(e)' /\ stack'[i].left \subseteq ListingIn(tree, Stat(e).at)'
                      /\ \A n \in Names \ stack'[i].left : Settled(e, n)'
    BY DEF LevelsExact
  <2>1. /\ ListingIn(tree, Stat(e).at)' = ListingIn(tree, Stat(e).at)
        /\ HeldBack(e)' = HeldBack(e)
    BY <1>4, RefStill DEF ListingIn, Still
  <2>2. stack'[i] = stack[i] /\ i \in 1..Len(stack) /\ e \in DOMAIN dirs
    BY <1>1, <1>2, <1>3
  <2>3. /\ ~HeldBack(e) /\ stack[i].left \subseteq ListingIn(tree, Stat(e).at)
        /\ \A n \in Names \ stack[i].left : Settled(e, n)
    BY <2>2 DEF Exact, LevelsExact
  <2>4. \A n \in Names \ stack[i].left : Settled(e, n)'
    BY <1>4, <2>2, <2>3, SettledStays
  <2> QED
    BY <2>1, <2>2, <2>3, <2>4
<1>6. ReadThrough'
  <2> SUFFICES ASSUME NEW e \in DOMAIN dirs', ~\E i \in 1..Len(stack') : stack'[i].dir = e
               PROVE  ~HeldBack(e)' /\ \A n \in Names : Settled(e, n)'
    BY DEF ReadThrough
  <2>1. e \in DOMAIN dirs
    BY <1>1
  <2>2. CASE e = stack[L].dir
    <3>1. Names \ stack[L].left = Names /\ L \in 1..Len(stack)
      BY <1>1, <1>2
    <3>2. ~HeldBack(e) /\ \A n \in Names : Settled(e, n)
      BY <1>1, <1>2, <2>1, <2>2, <3>1 DEF Exact, LevelsExact
    <3> QED
      BY <1>4, <2>1, <3>2, SettledStays, RefStill
  <2>3. CASE e # stack[L].dir
    <3>1. ~\E i \in 1..Len(stack) : stack[i].dir = e
      <4> SUFFICES ASSUME NEW i \in 1..Len(stack), stack[i].dir = e PROVE FALSE
        OBVIOUS
      <4>1. i \in 1..(L - 1)
        BY <1>2, <2>3
      <4> QED
        BY <1>3, <4>1
    <3>2. ~HeldBack(e) /\ \A n \in Names : Settled(e, n)
      BY <2>1, <3>1 DEF Exact, ReadThrough
    <3> QED
      BY <1>4, <2>1, <3>2, SettledStays, RefStill
  <2> QED
    BY <2>2, <2>3
<1>7. DirsExact' /\ SlotsExact' /\ QueueExact' /\ StatsExact' /\ ReadersExact'
  BY <1>1, <1>4, DirsStay, SlotsStay, JobsStay, StatsStay, OpenStay DEF Exact
<1>8. /\ phase' \in {"discover", "hash"} /\ (phase' = "hash" => stack' = << >>)
      /\ opts'.root = "dir" /\ << >> \in DOMAIN dirs'
  <2>1. opts'.root = "dir" /\ << >> \in DOMAIN dirs'
    BY <1>1 DEF Exact
  <2>2. CASE L = 1
    <3>1. phase' = "hash" /\ Len(stack') = 0
      BY <1>3, <2>2 DEF LeaveDir
    <3>2. stack' \in Seq(Levels)
      BY <1>1, TopTyped DEF LeaveDir
    <3>3. stack' = << >>
      BY <3>1, <3>2, EmptySeq
    <3> QED
      BY <2>1, <3>1, <3>3
  <2>3. CASE L # 1
    <3>1. phase' = "discover"
      BY <1>1, <2>3 DEF LeaveDir
    <3> QED
      BY <2>1, <3>1
  <2> QED
    BY <2>2, <2>3
<1> QED
  BY <1>5, <1>6, <1>7, <1>8 DEF Onward, Exact


-----------------------------------------------------------------------------
(* One turn of the readdir loop. *)

\* Where it stands: a name of the listing of a directory of the reference.
LEMMA VisitStands ==
    ASSUME WalkInv, Places, Scenery, Exact, stack # << >>, Top.read,
           NEW n \in Top.left, NEW d, d = Top.dir, NEW p, p = Append(d, n)
    PROVE  /\ d \in DOMAIN dirs /\ d \in RefDirs /\ d \in Seq(Names) /\ n \in Names
           /\ ~HeldBack(d) /\ Top.left \subseteq ListingIn(tree, Stat(d).at)
           /\ \A m \in Names \ Top.left : Settled(d, m)
           /\ p \in RefFound /\ p \in Seq(Names) /\ p # << >>
           /\ Front(p) = d /\ Last(p) = n
           /\ Lstat(p).res = "ok" /\ p \notin DOMAIN dirs
<1> PICK L : L = Len(stack)
  OBVIOUS
<1>1. /\ L \in Nat \ {0} /\ Top = stack[L] /\ L \in 1..Len(stack)
  BY TopChanged DEF WalkInv
<1>2. Top \in Levels
  BY TopTyped DEF WalkInv
<1>3. n \in Names /\ d \in Seq(Names)
  BY <1>2 DEF Levels
<1>4. d \in DOMAIN dirs /\ p \notin DOMAIN dirs
  BY <1>1, <1>3 DEF Places, DescentOnce
<1>5. d \in RefDirs
  BY <1>4 DEF Exact, DirsExact
<1>6. /\ ~HeldBack(d) /\ Top.left \subseteq ListingIn(tree, Stat(d).at)
      /\ \A m \in Names \ Top.left : Settled(d, m)
  BY <1>1, <1>4 DEF Exact, LevelsExact
<1>7. p \in RefFound
  BY <1>3, <1>5, FoundBelow
<1>8. p \in Seq(Names) /\ p # << >> /\ Front(p) = d /\ Last(p) = n
  BY <1>3, AppendParts
<1>9. Lstat(p).res = "ok"
  BY <1>3, <1>5, <1>6, NameFound
<1> QED
  BY <1>3, <1>4, <1>5, <1>6, <1>7, <1>8, <1>9

\* What is dropped from a level.
LEMMA DroppedLevel ==
    ASSUME StackTyped, stack # << >>, NEW n
    PROVE  \E f : /\ Dropped(n) = WithTop(f) /\ f.dir = Top.dir /\ f.read = Top.read
                  /\ f.left = Top.left \ {n}
<1> PICK f : f = [Top EXCEPT !.left = @ \ {n}]
  OBVIOUS
<1>1. Top \in Levels
  BY TopTyped
<1>2. f.dir = Top.dir /\ f.read = Top.read /\ f.left = Top.left \ {n}
  BY <1>1 DEF Levels
<1> QED
  BY <1>2 DEF Dropped

\* A name that is dropped when it is settled, with no directory added.
LEMMA DroppedExact ==
    ASSUME WalkInv, Places, Scenery, Exact, stack # << >>, Top.read,
           NEW n \in Top.left, NEW d, d = Top.dir,
           Still, Grown, DOMAIN dirs' = DOMAIN dirs, stack' = Dropped(n), Settled(d, n)'
    PROVE  LevelsExact' /\ ReadThrough'
<1>1. PICK f : /\ Dropped(n) = WithTop(f) /\ f.dir = Top.dir /\ f.read = Top.read
               /\ f.left = Top.left \ {n}
  BY DroppedLevel DEF WalkInv
<1>2. /\ d \in DOMAIN dirs /\ ~HeldBack(d) /\ Top.left \subseteq ListingIn(tree, Stat(d).at)
      /\ \A m \in Names \ Top.left : Settled(d, m)
  <2> PICK p : p = Append(d, n)
    OBVIOUS
  <2> QED
    BY VisitStands
<1>3. ASSUME NEW m \in Names \ f.left PROVE Settled(d, m)'
  <2>1. CASE m = n
    BY <2>1
  <2>2. CASE m # n
    <3>1. Settled(d, m)
      BY <1>1, <1>2, <2>2
    <3> QED
      BY <1>2, <3>1, SettledStays
  <2> QED
    BY <2>1, <2>2
<1>4. f.left \subseteq ListingIn(tree, Stat(d).at) /\ stack' = WithTop(f)
  BY <1>1, <1>2
<1> QED
  BY <1>1, <1>2, <1>3, <1>4, TopSettled DEF WalkInv, Places, Exact

LEMMA SkipExact ==
    ASSUME WalkInv, Places, Scenery, Exact, phase = "discover", stack # << >>, Top.read,
           NEW n \in Top.left, NEW d, d = Top.dir, Settled(d, n),
           Skip(n), UNCHANGED fsVars
    PROVE  Onward
<1>1. /\ stack' = Dropped(n)
      /\ UNCHANGED <<opts, phase, dirs, pending, stats, open, manifest, error, meter>>
  BY DEF Skip
<1>2. Still /\ Grown
  BY <1>1, GrownSame, StillInPlace
<1>3. d \in DOMAIN dirs
  <2> PICK p : p = Append(d, n)
    OBVIOUS
  <2> QED
    BY VisitStands
<1>4. Settled(d, n)'
  BY <1>2, <1>3, SettledStays
<1>5. LevelsExact' /\ ReadThrough'
  BY <1>1, <1>2, <1>4, DroppedExact
<1>6. DirsExact' /\ SlotsExact' /\ QueueExact' /\ StatsExact' /\ ReadersExact'
  BY <1>1, <1>2, DirsStay, SlotsStay, JobsStay, StatsStay, OpenStay DEF Exact
<1> QED
  BY <1>1, <1>5, <1>6 DEF Onward, Exact

\* Recording a file leaves the rest of every directory as it is.
LEMMA PutFileAside ==
    ASSUME RecordsTyped, NEW d, NEW n, NEW fill, PutFile(d, n, fill), NEW e \in DOMAIN dirs
    PROVE  dirs'[e].perm = dirs[e].perm /\ dirs'[e].child_dirs = dirs[e].child_dirs
<1> PICK r : r = dirs[e]
  OBVIOUS
<1> PICK w : w = With(dirs[d].files, n, fill)
  OBVIOUS
<1>1. IsRecord(r)
  BY DEF RecordsTyped
<1>2. dirs' = [dirs EXCEPT ![d].files = w]
  BY DEF PutFile
<1>3. dirs'[e] = r \/ dirs'[e] = [r EXCEPT !.files = w]
  BY <1>2
<1>4. [r EXCEPT !.files = w].perm = r.perm /\ [r EXCEPT !.files = w].child_dirs = r.child_dirs
  BY <1>1 DEF IsRecord
<1> QED
  BY <1>3, <1>4

LEMMA PutFileExact ==
    ASSUME WalkInv, Places, Scenery, Exact, phase = "discover", stack # << >>, Top.read,
           NEW n \in Top.left, NEW d, d = Top.dir, NEW p, p = Append(d, n),
           NEW fill, IsSlot(fill), PutFile(d, n, fill), stack' = Dropped(n),
           UNCHANGED <<opts, phase, stats, open, fsVars>>,
           DOMAIN pending \subseteq DOMAIN pending', QueueExact',
           RefKind(p) = "file", ~Barred(p),
           fill.perm = Lstat(p).node.perm, fill.size = RefFileSize(p),
           \/ fill.checksum = RefFileSum(p) /\ ~HeldBack(p)
           \/ fill.checksum = Unfilled /\ p \in DOMAIN pending'
    PROVE  Onward
<1>1. d \in DOMAIN dirs /\ n \in Names
  BY VisitStands
<1>2. Filled(d, n, fill)
  BY <1>1, PutFileFills, Zenon DEF WalkInv
<1>3. \A e \in DOMAIN dirs : dirs'[e].perm = dirs[e].perm /\ dirs'[e].child_dirs = dirs[e].child_dirs
  BY PutFileAside DEF WalkInv
<1>4. Still
  BY StillInPlace
<1>5. DOMAIN dirs' = DOMAIN dirs /\ Grown
  BY <1>2 DEF Filled, Grown
<1>6. Settled(d, n)'
  <2>1. n \in DOMAIN dirs'[d].files
    BY <1>1, <1>2 DEF Filled
  <2>2. "file" # "dir"
    OBVIOUS
  <2> QED
    BY <1>4, <2>1, <2>2, RefStill DEF Settled
<1>7. LevelsExact' /\ ReadThrough'
  BY <1>4, <1>5, <1>6, DroppedExact
<1>8. DirsExact'
  BY <1>3, <1>4, <1>5, RefStill DEF Exact, DirsExact
<1>9. SlotsExact'
  <2> SUFFICES ASSUME NEW e \in DOMAIN dirs', NEW k \in DOMAIN dirs'[e].files
               PROVE  SlotExact(Append(e, k), dirs[e].files[k])'
    BY DEF SlotsExact
  <2>1. \/ e = d /\ k = n /\ dirs'[e].files[k] = fill
        \/ k \in DOMAIN dirs[e].files /\ dirs'[e].files[k] = dirs[e].files[k]
    BY <1>2, <1>5 DEF Filled
  <2>2. CASE e = d /\ k = n /\ dirs'[e].files[k] = fill
    <3>1. Append(e, k) = p
      BY <2>2
    <3> QED
      BY <1>4, <2>2, <3>1, RefStill DEF SlotExact
  <2>3. CASE k \in DOMAIN dirs[e].files /\ dirs'[e].files[k] = dirs[e].files[k]
    <3>1. SlotExact(Append(e, k), dirs[e].files[k])
      BY <1>5, <2>3 DEF Exact, SlotsExact
    <3> QED
      BY <1>4, <2>3, <3>1, RefStill DEF SlotExact
  <2> QED
    BY <2>1, <2>2, <2>3
<1>10. StatsExact' /\ ReadersExact'
  BY <1>4, StatsStay, OpenStay DEF Exact
<1> QED
  BY <1>5, <1>7, <1>8, <1>9, <1>10 DEF Onward, Exact

\* What the directory records have once a directory below d has been entered.
Descended(d, p, own) ==
  /\ DOMAIN dirs' = DOMAIN dirs \cup {p}
  /\ dirs'[p].perm = own.perm /\ dirs'[p].child_dirs = {} /\ DOMAIN dirs'[p].files = {}
  /\ \A e \in DOMAIN dirs :
       /\ dirs'[e].perm = dirs[e].perm /\ dirs'[e].files = dirs[e].files
       /\ dirs'[e].child_dirs = IF e = d THEN dirs[e].child_dirs \cup {p}
                                ELSE dirs[e].child_dirs

LEMMA DescendIntoRecords ==
    ASSUME RecordsTyped, NEW d \in DOMAIN dirs, d = Top.dir, NEW p, p \notin DOMAIN dirs,
           NEW own, DescendInto(p, own)
    PROVE  Descended(d, p, own)
<1> PICK base : base = [dirs EXCEPT ![d].child_dirs = @ \cup {p}]
  OBVIOUS
<1> PICK rec : rec = DirRecord(own.perm)
  OBVIOUS
<1>1. dirs' = With(base, p, rec) /\ DOMAIN base = DOMAIN dirs
  BY DEF DescendInto
<1>2. /\ DOMAIN dirs' = DOMAIN dirs \cup {p} /\ dirs'[p] = rec
      /\ \A e \in DOMAIN dirs : dirs'[e] = base[e]
  BY <1>1 DEF With
<1>3. rec.perm = own.perm /\ rec.child_dirs = {} /\ DOMAIN rec.files = {}
  <2>1. DOMAIN << >> = {}
    OBVIOUS
  <2> QED
    BY <2>1 DEF DirRecord
<1>4. ASSUME NEW e \in DOMAIN dirs
      PROVE  /\ base[e].perm = dirs[e].perm /\ base[e].files = dirs[e].files
             /\ base[e].child_dirs = IF e = d THEN dirs[e].child_dirs \cup {p}
                                     ELSE dirs[e].child_dirs
  <2> PICK r : r = dirs[e]
    OBVIOUS
  <2> PICK cs : cs = r.child_dirs \cup {p}
    OBVIOUS
  <2>1. IsRecord(r)
    BY DEF RecordsTyped
  <2>2. CASE e = d
    <3>1. base[e] = [r EXCEPT !.child_dirs = cs]
      BY <2>2
    <3>2. /\ [r EXCEPT !.child_dirs = cs].perm = r.perm
          /\ [r EXCEPT !.child_dirs = cs].files = r.files
          /\ [r EXCEPT !.child_dirs = cs].child_dirs = cs
      BY <2>1 DEF IsRecord
    <3> QED
      BY <2>2, <3>1, <3>2
  <2>3. CASE e # d
    BY <2>3
  <2> QED
    BY <2>2, <2>3
<1> QED
  BY <1>2, <1>3, <1>4 DEF Descended


LEMMA DescendIntoExact ==
    ASSUME WalkInv, Places, Scenery, Exact, phase = "discover", stack # << >>, Top.read,
           NEW n \in Top.left, NEW d, d = Top.dir, NEW p, p = Append(d, n),
           NEW own, own = Lstat(p).node, DescendInto(p, own), UNCHANGED fsVars,
           RefKind(p) = "dir"
    PROVE  Onward
<1> PICK L : L = Len(stack)
  OBVIOUS
<1>1. /\ d \in DOMAIN dirs /\ d \in RefDirs /\ d \in Seq(Names) /\ n \in Names
      /\ ~HeldBack(d) /\ Top.left \subseteq ListingIn(tree, Stat(d).at)
      /\ \A m \in Names \ Top.left : Settled(d, m)
      /\ p \in RefFound /\ p \in Seq(Names) /\ p # << >> /\ Front(p) = d /\ Last(p) = n
      /\ p \notin DOMAIN dirs
  BY VisitStands
<1>2. /\ DOMAIN dirs' = DOMAIN dirs \cup {p}
      /\ dirs'[p].perm = own.perm /\ dirs'[p].child_dirs = {} /\ DOMAIN dirs'[p].files = {}
      /\ \A e \in DOMAIN dirs :
           /\ dirs'[e].perm = dirs[e].perm /\ dirs'[e].files = dirs[e].files
           /\ dirs'[e].child_dirs = IF e = d THEN dirs[e].child_dirs \cup {p}
                                    ELSE dirs[e].child_dirs
  <2>1. RecordsTyped
    BY DEF WalkInv
  <2>2. Descended(d, p, own)
    BY <1>1, <2>1, DescendIntoRecords
  <2> QED
    BY <2>2 DEF Descended
<1> PICK new : new = [dir |-> p, read |-> FALSE, left |-> {}]
  OBVIOUS
<1>3. /\ stack' = Append(Dropped(n), new)
      /\ UNCHANGED <<opts, phase, pending, stats, open, manifest, error, meter>>
  BY <1>1 DEF DescendInto
<1>4. Still /\ Grown
  BY <1>2, <1>3, StillInPlace DEF Grown
<1>5. PICK f : /\ Dropped(n) = WithTop(f) /\ f.dir = Top.dir /\ f.read = Top.read
               /\ f.left = Top.left \ {n}
  BY DroppedLevel DEF WalkInv
<1>6. /\ L \in Nat \ {0} /\ Top = stack[L] /\ Len(stack') = L + 1 /\ stack'[L + 1] = new
      /\ \A i \in 1..L : stack'[i] = IF i = L THEN f ELSE stack[i]
  <2> PICK w : w = WithTop(f)
    OBVIOUS
  <2>1. /\ L \in Nat \ {0} /\ Top = stack[L] /\ Len(w) = L
        /\ \A i \in 1..L : w[i] = IF i = L THEN f ELSE stack[i]
    BY TopChanged DEF WalkInv
  <2>2. w \in Seq(Levels)
    BY <1>5, TopTyped DEF WalkInv
  <2>3. new \in Levels
    <3>1. {} \in SUBSET Names
      OBVIOUS
    <3> QED
      BY <1>1, <3>1 DEF Levels
  <2>4. /\ Len(Append(w, new)) = Len(w) + 1 /\ Append(w, new)[Len(w) + 1] = new
        /\ \A i \in 1..Len(w) : Append(w, new)[i] = w[i]
    BY <2>2, <2>3, AppendProperties
  <2> QED
    BY <1>3, <1>5, <2>1, <2>4
<1>7. ASSUME NEW m \in Names \ f.left PROVE Settled(d, m)'
  <2>1. CASE m = n
    <3>1. p \in DOMAIN dirs' /\ "file" # "dir" /\ "broken" # "dir"
      BY <1>2
    <3> QED
      BY <1>4, <2>1, <3>1, RefStill DEF Settled, Barred
  <2>2. CASE m # n
    <3>1. Settled(d, m)
      BY <1>1, <1>5, <2>2
    <3> QED
      BY <1>1, <1>4, <3>1, SettledStays
  <2> QED
    BY <2>1, <2>2
<1>8. LevelsExact'
  <2> SUFFICES ASSUME NEW i \in 1..Len(stack'), NEW e \in DOMAIN dirs',
                      stack'[i].dir = e, stack'[i].read
               PROVE  /\ ~HeldBack(e)' /\ stack'[i].left \subseteq ListingIn(tree, Stat(e).at)'
                      /\ \A m \in Names \ stack'[i].left : Settled(e, m)'
    BY DEF LevelsExact
  <2>1. /\ ListingIn(tree, Stat(e).at)' = ListingIn(tree, Stat(e).at)
        /\ HeldBack(e)' = HeldBack(e)
    BY <1>4, RefStill DEF ListingIn, Still
  <2>2. i # L + 1
    BY <1>6
  <2>3. i \in 1..L
    BY <1>6, <2>2
  <2>4. CASE i = L
    <3>1. e = d /\ stack'[i].left = f.left /\ f.left \subseteq Top.left
      BY <1>5, <1>6, <2>3, <2>4
    <3> QED
      BY <1>1, <1>7, <2>1, <3>1
  <2>5. CASE i # L
    <3>1. stack'[i] = stack[i] /\ i \in 1..Len(stack)
      BY <1>6, <2>3, <2>5
    <3>2. e \in DOMAIN dirs
      BY <3>1 DEF Places, DescentOnce
    <3>3. /\ ~HeldBack(e) /\ stack[i].left \subseteq ListingIn(tree, Stat(e).at)
          /\ \A m \in Names \ stack[i].left : Settled(e, m)
      BY <3>1, <3>2 DEF Exact, LevelsExact
    <3>4. \A m \in Names \ stack[i].left : Settled(e, m)'
      BY <1>4, <3>2, <3>3, SettledStays
    <3> QED
      BY <2>1, <3>1, <3>3, <3>4
  <2> QED
    BY <2>4, <2>5
<1>9. ReadThrough'
  <2> SUFFICES ASSUME NEW e \in DOMAIN dirs', ~\E i \in 1..Len(stack') : stack'[i].dir = e
               PROVE  ~HeldBack(e)' /\ \A m \in Names : Settled(e, m)'
    BY DEF ReadThrough
  <2>1. e # p
    <3>1. L + 1 \in 1..Len(stack') /\ stack'[L + 1].dir = p
      BY <1>6
    <3> QED
      BY <3>1
  <2>2. e \in DOMAIN dirs
    BY <1>2, <2>1
  <2>3. \A i \in 1..L : i \in 1..Len(stack') /\ stack'[i].dir = stack[i].dir
    BY <1>5, <1>6
  <2>4. ~HeldBack(e) /\ \A m \in Names : Settled(e, m)
    BY <2>2, <2>3 DEF Exact, ReadThrough
  <2> QED
    BY <1>4, <2>2, <2>4, SettledStays, RefStill
<1>10. DirsExact'
  <2> SUFFICES ASSUME NEW e \in DOMAIN dirs'
               PROVE  /\ e \in RefDirs' /\ dirs'[e].perm = Lstat(e)'.node.perm
                      /\ dirs'[e].child_dirs = {q \in DOMAIN dirs' : q # << >> /\ Front(q) = e}
    BY DEF DirsExact
  <2>1. RefDirs' = RefDirs /\ Lstat(e)' = Lstat(e)
    BY <1>4, RefStill
  <2>2. CASE e = p
    <3>1. \A q \in DOMAIN dirs' : q # << >> => Front(q) # p
      <4>1. \A q \in DOMAIN dirs : q # << >> => Front(q) \in DOMAIN dirs
        BY DEF Places, DirsBelow
      <4>2. DOMAIN dirs' = DOMAIN dirs \cup {p}
        BY <1>2
      <4> QED
        BY <1>1, <4>1, <4>2
    <3>2. p \in RefDirs
      BY <1>1 DEF RefDirs
    <3> QED
      BY <1>2, <2>1, <2>2, <3>1, <3>2
  <2>3. CASE e \in DOMAIN dirs
    <3>1. /\ e \in RefDirs /\ dirs[e].perm = Lstat(e).node.perm
          /\ dirs[e].child_dirs = {q \in DOMAIN dirs : q # << >> /\ Front(q) = e}
      BY <2>3 DEF Exact, DirsExact
    <3>2. dirs'[e].child_dirs = {q \in DOMAIN dirs' : q # << >> /\ Front(q) = e}
      <4>1. DOMAIN dirs' = DOMAIN dirs \cup {p}
        BY <1>2
      <4>2. dirs'[e].child_dirs = IF e = d THEN dirs[e].child_dirs \cup {p}
                                  ELSE dirs[e].child_dirs
        BY <1>2, <2>3
      <4>3. CASE e = d
        BY <1>1, <3>1, <4>1, <4>2, <4>3
      <4>4. CASE e # d
        BY <1>1, <3>1, <4>1, <4>2, <4>4
      <4> QED
        BY <4>3, <4>4
    <3> QED
      BY <1>2, <2>1, <2>3, <3>1, <3>2
  <2> QED
    BY <1>2, <2>2, <2>3
<1>11. SlotsExact'
  <2> SUFFICES ASSUME NEW e \in DOMAIN dirs', NEW k \in DOMAIN dirs'[e].files
               PROVE  SlotExact(Append(e, k), dirs[e].files[k])'
    BY DEF SlotsExact
  <2>1. e \in DOMAIN dirs /\ dirs'[e].files = dirs[e].files
    BY <1>2
  <2>2. SlotExact(Append(e, k), dirs[e].files[k])
    BY <2>1 DEF Exact, SlotsExact
  <2> QED
    BY <1>3, <1>4, <2>1, <2>2, RefStill DEF SlotExact
<1>12. QueueExact' /\ StatsExact' /\ ReadersExact'
  BY <1>3, <1>4, JobsStay, StatsStay, OpenStay DEF Exact
<1>13. phase' = "discover" /\ opts'.root = "dir" /\ << >> \in DOMAIN dirs'
  BY <1>2, <1>3 DEF Exact
<1> QED
  BY <1>8, <1>9, <1>10, <1>11, <1>12, <1>13 DEF Onward, Exact

\* A link into a hinted store: its address is what the reference names it by.
LEMMA RecordLinkedExact ==
    ASSUME WalkInv, Places, Scenery, Exact, phase = "discover", stack # << >>, Top.read,
           NEW n \in Top.left, NEW d, d = Top.dir, NEW p, p = Append(d, n),
           NEW own, own = Lstat(p).node, Recovered(own) # {},
           NEW bytes, bytes = Stat(p).node.bytes, RefKind(p) = "file",
           RecordLinked(p, own, KeyIn(Recovered(own)), bytes), UNCHANGED fsVars
    PROVE  Onward \/ Refused
<1> PICK key : key = KeyIn(Recovered(own))
  OBVIOUS
<1> PICK fill : fill = Slot(own.perm, key, LengthOf(own))
  OBVIOUS
<1>1. d \in DOMAIN dirs /\ p \in RefFound /\ Last(p) = n
  BY VisitStands
<1>2. RefFileSum(p) = key /\ RefFileSize(p) = LengthOf(own)
  BY DEF RefFileSum, RefFileSize
<1>3. CASE opts.verify_linked_objects /\ hash_hex(opts.alg, bytes) # key
  <2>1. phase' = "failed"
    BY <1>3 DEF RecordLinked, Fail
  <2>2. RefRefused(p)
    BY <1>2, <1>3 DEF RefRefused
  <2> QED
    BY <1>1, <2>1, <2>2 DEF Refused, RefRefuses
<1>4. CASE ~(opts.verify_linked_objects /\ hash_hex(opts.alg, bytes) # key)
  <2>1. /\ PutFile(d, n, fill) /\ stack' = Dropped(n)
        /\ UNCHANGED <<opts, phase, pending, stats, open, manifest, error>>
    BY <1>1, <1>4 DEF RecordLinked
  <2>2. ~Barred(p) /\ ~HeldBack(p)
    <3>1. "file" # "broken" /\ "file" # "dir"
      OBVIOUS
    <3> QED
      BY <1>2, <1>4, <3>1 DEF Barred, HeldBack
  <2>3. IsSlot(fill) /\ fill.perm = own.perm /\ fill.checksum = key /\ fill.size = LengthOf(own)
    BY DEF IsSlot, Slot
  <2>4. QueueExact'
    BY <2>1, JobsStay, StillInPlace DEF Exact
  <2>5. UNCHANGED <<opts, phase, stats, open, fsVars>> /\ DOMAIN pending \subseteq DOMAIN pending'
    BY <2>1
  <2>6. /\ fill.perm = Lstat(p).node.perm /\ fill.size = RefFileSize(p)
        /\ fill.checksum = RefFileSum(p)
    BY <1>2, <2>3
  <2>7. Onward
    BY <2>1, <2>2, <2>3, <2>4, <2>5, <2>6, PutFileExact
  <2> QED
    BY <2>7
<1> QED
  BY <1>3, <1>4

LEMMA QueueFileExact ==
    ASSUME WalkInv, Places, Scenery, Exact, phase = "discover", stack # << >>, Top.read,
           NEW n \in Top.left, NEW d, d = Top.dir, NEW p, p = Append(d, n),
           NEW own, own = Lstat(p).node, Recovered(own) = {}, RefKind(p) = "file",
           QueueFile(p, own), UNCHANGED fsVars
    PROVE  Onward
<1> PICK fill : fill = Slot(own.perm, Unfilled, LengthOf(own))
  OBVIOUS
<1> PICK job : job = [recorded_size |-> LengthOf(own), is_symlink |-> own.kind = "link"]
  OBVIOUS
<1>1. d \in DOMAIN dirs /\ Last(p) = n
  BY VisitStands
<1>2. RefFileSize(p) = LengthOf(own)
  BY DEF RefFileSize
<1>3. /\ PutFile(d, n, fill) /\ stack' = Dropped(n) /\ pending' = With(pending, p, job)
      /\ UNCHANGED <<opts, phase, stats, open, manifest, error>>
  BY <1>1 DEF QueueFile
<1>4. /\ DOMAIN pending' = DOMAIN pending \cup {p} /\ pending'[p] = job
      /\ \A q \in DOMAIN pending : q # p => pending'[q] = pending[q]
  BY <1>3 DEF With
<1>5. Still
  BY <1>3, StillInPlace
<1>6. IsSlot(fill) /\ fill.perm = own.perm /\ fill.checksum = Unfilled /\ fill.size = LengthOf(own)
  BY DEF IsSlot, Slot
<1>7. ~Barred(p)
  <2>1. "file" # "broken"
    OBVIOUS
  <2> QED
    BY <2>1 DEF Barred
<1>8. QueueExact'
  <2> SUFFICES ASSUME NEW q \in DOMAIN pending' PROVE JobExact(q, pending[q])'
    BY DEF QueueExact
  <2>1. Recovered(Lstat(q).node)' = Recovered(Lstat(q).node)
    BY <1>5, RefStill DEF Recovered, recover_keys, Still
  <2>2. CASE q = p
    <3>1. job.recorded_size = LengthOf(own) /\ job.is_symlink = (own.kind = "link")
      OBVIOUS
    <3> QED
      BY <1>2, <1>4, <1>5, <2>1, <2>2, <3>1, RefStill DEF JobExact
  <2>3. CASE q # p
    <3>1. q \in DOMAIN pending /\ pending'[q] = pending[q]
      BY <1>4, <2>3
    <3>2. JobExact(q, pending[q])
      BY <3>1 DEF Exact, QueueExact
    <3> QED
      BY <1>5, <2>1, <3>1, <3>2, RefStill DEF JobExact
  <2> QED
    BY <2>2, <2>3
<1> QED
  <2>1. DOMAIN pending \subseteq DOMAIN pending' /\ p \in DOMAIN pending'
    BY <1>4
  <2>2. UNCHANGED <<opts, phase, stats, open, fsVars>>
    BY <1>3
  <2>3. fill.checksum = Unfilled /\ p \in DOMAIN pending'
    BY <1>6, <2>1
  <2>4. fill.perm = Lstat(p).node.perm /\ fill.size = RefFileSize(p)
    BY <1>2, <1>6
  <2> QED
    BY <1>3, <1>6, <1>7, <1>8, <2>1, <2>2, <2>3, <2>4, PutFileExact

LEMMA VisitExact ==
    ASSUME WalkInv, Places, Scenery, Exact, Visit PROVE Onward \/ Refused
<1>1. phase = "discover" /\ stack # << >> /\ Top.read /\ UNCHANGED fsVars
  BY DEF Visit
<1>2. PICK n \in Top.left :
        LET p == Append(Top.dir, n)
            own == Lstat(p)
            target == Stat(p)
        IN IF is_excluded(p) THEN Skip(n)
           ELSE IF own.res # "ok" THEN Fail("Io")
           ELSE IF own.node.kind = "link" /\ ~opts.follow THEN Skip(n)
           ELSE IF target.res # "ok"
                THEN IF own.node.kind # "link" \/ ~LeftOut(target.res) THEN Fail("Io")
                     ELSE IF target.res = "NotFound" /\ Recovered(own.node) # {}
                          THEN Fail("DanglingLinkedObject")
                          ELSE Skip(n)
           ELSE IF target.node.kind = "dir" THEN DescendInto(p, own.node)
           ELSE IF target.node.kind # "file" THEN Skip(n)
           ELSE IF Recovered(own.node) # {}
                THEN RecordLinked(p, own.node, KeyIn(Recovered(own.node)), target.node.bytes)
           ELSE QueueFile(p, own.node)
  BY Zenon DEF Visit
<1> PICK d : d = Top.dir
  OBVIOUS
<1> PICK p : p = Append(d, n)
  OBVIOUS
<1> PICK own : own = Lstat(p)
  OBVIOUS
<1> PICK target : target = Stat(p)
  OBVIOUS
<1>3. /\ d \in DOMAIN dirs /\ d \in RefDirs /\ n \in Names /\ p \in RefFound /\ p # << >>
      /\ own.res = "ok"
  BY <1>1, VisitStands
<1>4. own.node.kind # "link" => target.res = "ok"
  BY <1>3, NameFound
<1> DEFINE none == is_excluded(p) \/ (own.node.kind = "link" /\ ~opts.follow)
<1>5. RefKind(p) = IF none THEN "none"
                   ELSE IF target.res = "ok" THEN target.node.kind ELSE "broken"
  BY <1>3 DEF RefKind
<1>6. "none" # "dir" /\ "none" # "file" /\ "none" # "broken" /\ "dir" # "file"
      /\ "broken" # "dir" /\ "broken" # "file" /\ "ok" # "NotFound"
  OBVIOUS
<1>7. CASE none
  <2>1. Skip(n)
    BY <1>2, <1>3, <1>7
  <2>2. Settled(d, n)
    BY <1>5, <1>6, <1>7 DEF Settled, Barred
  <2> QED
    BY <1>1, <2>1, <2>2, SkipExact
<1>8. CASE ~none /\ target.res # "ok"
  <2>1. RefKind(p) = "broken" /\ own.node.kind = "link"
    BY <1>4, <1>5, <1>8
  <2>4. CASE ~LeftOut(target.res)
    <3>1. Fail("Io")
      BY <1>2, <1>3, <1>8, <2>1, <2>4
    <3>2. RefRefused(p)
      BY <2>1, <2>4 DEF RefRefused
    <3> QED
      BY <1>3, <3>1, <3>2 DEF Refused, RefRefuses, Fail
  <2>2. CASE LeftOut(target.res) /\ target.res = "NotFound" /\ Recovered(own.node) # {}
    <3>1. Fail("DanglingLinkedObject")
      BY <1>2, <1>3, <1>8, <2>1, <2>2
    <3>2. RefRefused(p)
      BY <2>1, <2>2 DEF RefRefused
    <3> QED
      BY <1>3, <3>1, <3>2 DEF Refused, RefRefuses, Fail
  <2>3. CASE LeftOut(target.res) /\ ~(target.res = "NotFound" /\ Recovered(own.node) # {})
    <3>1. Skip(n)
      BY <1>2, <1>3, <1>8, <2>1, <2>3
    <3>2. Settled(d, n)
      BY <1>6, <2>1, <2>3 DEF Settled, Barred
    <3> QED
      BY <1>1, <3>1, <3>2, SkipExact
  <2> QED
    BY <2>2, <2>3, <2>4
<1>9. CASE ~none /\ target.res = "ok"
  <2>1. RefKind(p) = target.node.kind
    BY <1>5, <1>9
  <2>2. CASE target.node.kind = "dir"
    <3>1. DescendInto(p, own.node)
      BY <1>2, <1>3, <1>9, <2>2
    <3> QED
      BY <1>1, <2>1, <2>2, <3>1, DescendIntoExact
  <2>6. target.node.kind # "broken"
    <3>1. p \in Seq(Names)
      BY <1>1, VisitStands
    <3>2. Sound(target)
      BY <3>1, StatSound, SceneryTyped DEF Stat
    <3> QED
      BY <3>2 DEF Sound, Kinds
  <2>3. CASE target.node.kind # "dir" /\ target.node.kind # "file"
    <3>1. Skip(n)
      BY <1>2, <1>3, <1>9, <2>3
    <3>2. Settled(d, n)
      BY <1>6, <1>9, <2>1, <2>3, <2>6 DEF Settled, Barred
    <3> QED
      BY <1>1, <3>1, <3>2, SkipExact
  <2>4. CASE target.node.kind = "file" /\ Recovered(own.node) # {}
    <3>1. RecordLinked(p, own.node, KeyIn(Recovered(own.node)), target.node.bytes)
      BY <1>2, <1>3, <1>6, <1>9, <2>4
    <3> QED
      BY <1>1, <2>1, <2>4, <3>1, RecordLinkedExact
  <2>5. CASE target.node.kind = "file" /\ Recovered(own.node) = {}
    <3>1. QueueFile(p, own.node)
      BY <1>2, <1>3, <1>6, <1>9, <2>5
    <3> QED
      BY <1>1, <2>1, <2>5, <3>1, QueueFileExact
  <2> QED
    BY <2>2, <2>3, <2>4, <2>5
<1> QED
  BY <1>7, <1>8, <1>9


-----------------------------------------------------------------------------
(* Hashing what is queued. *)

\* A queued file is one of the reference, and can be read; a plain one has the
\* length lstat said.
LEMMA QueuedFound ==
    ASSUME WalkInv, Places, Scenery, Exact, NEW p \in DOMAIN pending
    PROVE  /\ p \in RefFound /\ RefKind(p) = "file" /\ Stat(p).res = "ok"
           /\ Recovered(Lstat(p).node) = {}
           /\ Stat(p).node.bytes \in Seq(Blocks) /\ Len(Stat(p).node.bytes) \in Nat
           /\ RefFileSum(p) = hash_hex(opts.alg, Stat(p).node.bytes)
           /\ ~pending[p].is_symlink => pending[p].recorded_size = Len(Stat(p).node.bytes)
<1> PICK d : d = Front(p)
  OBVIOUS
<1> PICK n : n = Last(p)
  OBVIOUS
<1>1. p \in Seq(Names) /\ p # << >>
  BY DEF WalkInv, QueueTyped
<1>2. d \in Seq(Names) /\ n \in Names /\ Append(d, n) = p
  BY <1>1, PathParts
<1>3. d \in DOMAIN dirs /\ n \in DOMAIN dirs[d].files
  BY DEF Places, SlotsExist
<1>4. RefKind(p) = "file"
  BY <1>2, <1>3 DEF Exact, SlotsExact, SlotExact
<1>5. Stat(p).res = "ok" /\ Stat(p).node.kind = "file"
  <2>1. "none" # "file" /\ "broken" # "file"
    OBVIOUS
  <2> QED
    BY <1>1, <1>4, <2>1 DEF RefKind
<1>6. Stat(p).node.bytes \in Seq(Blocks) /\ Len(Stat(p).node.bytes) \in Nat
  <2>1. Sound(Stat(p))
    BY <1>1, StatSound, SceneryTyped DEF Stat
  <2>2. Stat(p).node.bytes \in Contents
    BY <1>5, <2>1 DEF Sound
  <2> QED
    BY <2>2, WalkAssumptions
<1>7. JobExact(p, pending[p])
  BY DEF Exact, QueueExact
<1>8. /\ Recovered(Lstat(p).node) = {}
      /\ RefFileSum(p) = hash_hex(opts.alg, Stat(p).node.bytes)
  BY <1>7 DEF JobExact, RefFileSum
<1>10. p \in RefFound
  <2>1. d \in RefDirs
    BY <1>3 DEF Exact, DirsExact
  <2> QED
    BY <1>2, <2>1, FoundBelow
<1>9. ASSUME ~pending[p].is_symlink
      PROVE  pending[p].recorded_size = Len(Stat(p).node.bytes)
  <2>1. Lstat(p).node.kind # "link"
    BY <1>7, <1>9 DEF JobExact
  <2>2. d \in RefDirs
    BY <1>3 DEF Exact, DirsExact
  <2>3. Lstat(p).res = "ok"
    <3>1. "none" # "file"
      OBVIOUS
    <3> QED
      BY <1>1, <1>4, <3>1 DEF RefKind
  <2>4. Stat(p).node = Lstat(p).node
    BY <1>2, <2>1, <2>2, <2>3, NameFound
  <2> QED
    BY <1>5, <1>7, <2>4 DEF JobExact, RefFileSize, LengthOf
<1> QED
  BY <1>4, <1>5, <1>6, <1>8, <1>9, <1>10

\* A step of the hash pass that leaves the records where they are leaves all
\* that was read settled.
LEMMA HashingOn ==
    ASSUME Exact, phase = "hash", Still, Grown, DOMAIN dirs' = DOMAIN dirs,
           UNCHANGED <<phase, stack>>, DirsExact', SlotsExact', QueueExact', StatsExact',
           ReadersExact'
    PROVE  Onward
<1>1. stack = << >> /\ stack' = << >> /\ Len(stack) = 0 /\ Len(stack') = 0
  BY DEF Exact
<1>2. LevelsExact'
  BY <1>1 DEF LevelsExact
<1>3. ReadThrough'
  <2> SUFFICES ASSUME NEW e \in DOMAIN dirs
               PROVE  ~HeldBack(e)' /\ \A m \in Names : Settled(e, m)'
    BY DEF ReadThrough
  <2>1. ~HeldBack(e) /\ \A m \in Names : Settled(e, m)
    BY <1>1 DEF Exact, ReadThrough
  <2> QED
    BY <2>1, SettledStays, RefStill
<1>4. opts'.root = "dir" /\ << >> \in DOMAIN dirs'
  BY DEF Exact, Still
<1> QED
  BY <1>1, <1>2, <1>3, <1>4 DEF Onward, Exact

LEMMA BeginHashExact ==
    ASSUME WalkInv, Places, Scenery, Exact, BeginHash PROVE Onward
<1>1. phase = "hash" /\ UNCHANGED fsVars
  BY DEF BeginHash
<1>2. PICK p \in Unhashed \ DOMAIN stats :
        IF opts.alg = "blake3" /\ Stat(p).res # "ok" THEN Fail(HashError(Stat(p).res))
        ELSE /\ stats' = With(stats, p, IF opts.alg = "blake3"
                                        THEN Len(Stat(p).node.bytes) ELSE 0)
             /\ UNCHANGED <<opts, phase, stack, dirs, pending, open, manifest, error, meter>>
  BY Zenon DEF BeginHash
<1>3. p \in DOMAIN pending
  BY DEF Unhashed
<1>4. Stat(p).res = "ok"
  BY <1>3, QueuedFound
<1> PICK v : v = IF opts.alg = "blake3" THEN Len(Stat(p).node.bytes) ELSE 0
  OBVIOUS
<1>5. /\ stats' = With(stats, p, v)
      /\ UNCHANGED <<opts, phase, stack, dirs, pending, open, manifest, error, meter>>
  BY <1>2, <1>4
<1>6. Still /\ Grown
  BY <1>1, <1>5, GrownSame, StillInPlace
<1>7. StatsExact'
  <2>1. \A q \in DOMAIN stats' : IF q = p THEN stats'[q] = v
                                 ELSE q \in DOMAIN stats /\ stats'[q] = stats[q]
    BY <1>5 DEF With
  <2> QED
    BY <1>6, <2>1, RefStill DEF Exact, StatsExact, Still
<1>8. DirsExact' /\ SlotsExact' /\ QueueExact' /\ ReadersExact'
  BY <1>5, <1>6, DirsStay, SlotsStay, JobsStay, OpenStay DEF Exact
<1> QED
  BY <1>1, <1>5, <1>6, <1>7, <1>8, HashingOn

\* A step that changes only what is open.
LEMMA ReadingExact ==
    ASSUME Exact, phase = "hash", ReadersExact',
           UNCHANGED <<opts, phase, stack, dirs, pending, stats, manifest, error, meter, fsVars>>
    PROVE  Onward
<1>1. Still /\ Grown
  BY GrownSame, StillInPlace
<1>2. DirsExact' /\ SlotsExact' /\ QueueExact' /\ StatsExact'
  BY <1>1, DirsStay, SlotsStay, JobsStay, StatsStay DEF Exact
<1> QED
  BY <1>1, <1>2, HashingOn

LEMMA OpenFileExact ==
    ASSUME WalkInv, Places, Scenery, Exact, OpenFile PROVE Onward \/ Refused
<1>1. phase = "hash" /\ UNCHANGED fsVars
  BY DEF OpenFile
<1>2. PICK p \in DOMAIN stats \ DOMAIN open :
        IF Stat(p).res # "ok" THEN Fail(HashError(Stat(p).res))
        ELSE IF Locked(Stat(p).node) THEN Fail("Io")
        ELSE \E m \in {FALSE, opts.alg = "blake3" /\ stats[p] >= MmapThreshold} :
               /\ open' = With(open, p, [inode |-> Inode(p), bytes |-> Stat(p).node.bytes,
                                        mapped |-> m, length |-> Len(Stat(p).node.bytes),
                                        got |-> << >>])
               /\ UNCHANGED <<opts, phase, stack, dirs, pending, stats, manifest, error, meter>>
  BY Zenon DEF OpenFile
<1>3. p \in DOMAIN pending
  BY DEF WalkInv, HashingUnfilled
<1>4. /\ p \in RefFound /\ RefKind(p) = "file" /\ Stat(p).res = "ok"
      /\ Recovered(Lstat(p).node) = {}
  BY <1>3, QueuedFound
<1>5. CASE Locked(Stat(p).node)
  <2>1. phase' = "failed"
    BY <1>2, <1>4, <1>5 DEF Fail
  <2>2. RefRefused(p)
    BY <1>4, <1>5 DEF RefRefused
  <2> QED
    BY <1>4, <2>1, <2>2 DEF Refused, RefRefuses
<1>6. CASE ~Locked(Stat(p).node)
  <2>1. PICK m \in {FALSE, opts.alg = "blake3" /\ stats[p] >= MmapThreshold} :
          /\ open' = With(open, p, [inode |-> Inode(p), bytes |-> Stat(p).node.bytes,
                                   mapped |-> m, length |-> Len(Stat(p).node.bytes),
                                   got |-> << >>])
          /\ UNCHANGED <<opts, phase, stack, dirs, pending, stats, manifest, error, meter>>
    BY <1>2, <1>4, <1>6
  <2> PICK h : h = [inode |-> Inode(p), bytes |-> Stat(p).node.bytes,
                    mapped |-> m, length |-> Len(Stat(p).node.bytes), got |-> << >>]
    OBVIOUS
  <2>2. /\ h.bytes = Stat(p).node.bytes /\ h.got = << >> /\ h.length = Len(h.bytes)
        /\ h.got \in Seq(Blocks) /\ DOMAIN h.got = {}
    BY EmptySeq
  <2>3. ~HeldBack(p)
    <3>1. "file" # "dir"
      OBVIOUS
    <3> QED
      BY <1>4, <1>6, <3>1 DEF HeldBack
  <2>4. ReaderExact(p, h)
    BY <2>2, <2>3 DEF ReaderExact, Begins
  <2>5. /\ DOMAIN open' = DOMAIN open \cup {p} /\ open'[p] = h
        /\ \A q \in DOMAIN open : q # p => open'[q] = open[q]
    BY <2>1 DEF With
  <2>6. \A q \in DOMAIN open' : ReaderExact(q, open'[q])
    BY <2>4, <2>5 DEF Exact, ReadersExact
  <2>7. ReadersExact'
    <3>1. Still
      BY <1>1, <2>1, StillInPlace
    <3> QED
      BY <2>6, <3>1, RefStill DEF ReadersExact, ReaderExact, Begins
  <2> QED
    BY <1>1, <2>1, <2>7, ReadingExact
<1> QED
  BY <1>5, <1>6

\* Nobody cuts a file short: a mapping never runs past its end.
LEMMA ReadBlockExact ==
    ASSUME WalkInv, Places, Scenery, Exact, ReadBlock PROVE Onward
<1>1. phase = "hash" /\ UNCHANGED fsVars
  BY DEF ReadBlock
<1>2. PICK p \in DOMAIN open :
        /\ ~Through(open[p])
        /\ \/ /\ Len(open[p].got) + 1 <= Len(open[p].bytes)
              /\ Got(p, open[p].bytes[Len(open[p].got) + 1])
           \/ Len(open[p].got) + 1 > Len(open[p].bytes)
  BY Zenon DEF ReadBlock
<1> PICK h : h = open[p]
  OBVIOUS
<1> PICK n : n = Len(h.got)
  OBVIOUS
<1>3. p \in DOMAIN pending
  BY DEF WalkInv, HashingUnfilled, ReadersWitnessed
<1>4. ReaderExact(p, h) /\ h = [x \in {"inode", "bytes", "mapped", "length", "got"} |-> h[x]]
  BY DEF Exact, ReadersExact, WalkInv, ReadersWitnessed, Reader
<1>5. h.bytes \in Seq(Blocks) /\ h.got \in Seq(Blocks) /\ h.got \in Seq(Blocks \cup {Zero})
      /\ Begins(h)
  BY <1>3, <1>4, QueuedFound DEF ReaderExact
<1> PICK k : k = [h EXCEPT !.got = Append(h.got, h.bytes[n + 1])]
  OBVIOUS
<1>6. /\ k.got = Append(h.got, h.bytes[n + 1]) /\ k.bytes = h.bytes
      /\ k.mapped = h.mapped /\ k.length = h.length
  BY <1>4
<1>7. n + 1 <= Len(h.bytes) /\ Begins(k)
  BY <1>2, <1>5, <1>6, NextBlock
<1>8. n \in Nat /\ Len(h.bytes) \in Nat /\ DOMAIN h.bytes = 1..Len(h.bytes)
  BY <1>5, LenProperties
<1>9. Got(p, h.bytes[n + 1])
  BY <1>2, <1>7, <1>8
<1>10. k.got \in Seq(Blocks)
  <2>1. h.bytes[n + 1] \in Blocks
    BY <1>5, <1>7, <1>8, ElementOfSeq
  <2> QED
    BY <1>5, <1>6, <2>1, AppendProperties
<1>11. ReaderExact(p, k)
  BY <1>4, <1>6, <1>7, <1>10 DEF ReaderExact
<1>12. /\ DOMAIN open' = DOMAIN open /\ open'[p] = k
       /\ \A q \in DOMAIN open : q # p => open'[q] = open[q]
  BY <1>9 DEF Got
<1>13. \A q \in DOMAIN open' : ReaderExact(q, open'[q])
  BY <1>11, <1>12 DEF Exact, ReadersExact
<1>14. ReadersExact'
  <2>1. Still
    BY <1>1, <1>9, StillInPlace DEF Got
  <2> QED
    BY <1>13, <2>1, RefStill DEF ReadersExact, ReaderExact, Begins
<1> QED
  BY <1>1, <1>9, <1>14, ReadingExact DEF Got

\* What writing a checksum back changes.
WrittenBack(d, n, sum) ==
  /\ DOMAIN dirs' = DOMAIN dirs
  /\ \A e \in DOMAIN dirs :
       /\ dirs'[e].perm = dirs[e].perm /\ dirs'[e].child_dirs = dirs[e].child_dirs
       /\ DOMAIN dirs'[e].files = DOMAIN dirs[e].files
       /\ \A k \in DOMAIN dirs[e].files :
            /\ dirs'[e].files[k].perm = dirs[e].files[k].perm
            /\ dirs'[e].files[k].size = dirs[e].files[k].size
            /\ dirs'[e].files[k].checksum = IF e = d /\ k = n THEN sum
                                            ELSE dirs[e].files[k].checksum

LEMMA ChecksumWritten ==
    ASSUME RecordsTyped, NEW d \in DOMAIN dirs, NEW n \in DOMAIN dirs[d].files, NEW sum,
           dirs' = [dirs EXCEPT ![d].files[n].checksum = sum]
    PROVE  WrittenBack(d, n, sum)
<1> PICK r : r = dirs[d]
  OBVIOUS
<1> PICK fs : fs = r.files
  OBVIOUS
<1> PICK s : s = fs[n]
  OBVIOUS
<1> PICK t : t = [s EXCEPT !.checksum = sum]
  OBVIOUS
<1> PICK gs : gs = [fs EXCEPT ![n] = t]
  OBVIOUS
<1>1. IsRecord(r) /\ IsSlot(s)
  BY DEF RecordsTyped
<1>2. /\ DOMAIN dirs' = DOMAIN dirs /\ dirs'[d] = [r EXCEPT !.files = gs]
      /\ \A e \in DOMAIN dirs : e # d => dirs'[e] = dirs[e]
  OBVIOUS
<1>3. /\ dirs'[d].perm = r.perm /\ dirs'[d].child_dirs = r.child_dirs
      /\ dirs'[d].files = gs
  BY <1>1, <1>2 DEF IsRecord
<1>4. DOMAIN gs = DOMAIN fs /\ \A k \in DOMAIN fs : gs[k] = IF k = n THEN t ELSE fs[k]
  OBVIOUS
<1>5. t.perm = s.perm /\ t.size = s.size /\ t.checksum = sum
  BY <1>1 DEF IsSlot
<1> SUFFICES ASSUME NEW e \in DOMAIN dirs
             PROVE  /\ dirs'[e].perm = dirs[e].perm /\ dirs'[e].child_dirs = dirs[e].child_dirs
                    /\ DOMAIN dirs'[e].files = DOMAIN dirs[e].files
                    /\ \A k \in DOMAIN dirs[e].files :
                         /\ dirs'[e].files[k].perm = dirs[e].files[k].perm
                         /\ dirs'[e].files[k].size = dirs[e].files[k].size
                         /\ dirs'[e].files[k].checksum =
                              IF e = d /\ k = n THEN sum ELSE dirs[e].files[k].checksum
  BY <1>2 DEF WrittenBack
<1>6. CASE e = d
  <2>1. /\ dirs'[e].perm = dirs[e].perm /\ dirs'[e].child_dirs = dirs[e].child_dirs
        /\ dirs[e].files = fs /\ dirs'[e].files = gs
    BY <1>3, <1>6
  <2>2. \A k \in DOMAIN fs :
          /\ gs[k].perm = fs[k].perm /\ gs[k].size = fs[k].size
          /\ gs[k].checksum = IF k = n THEN sum ELSE fs[k].checksum
    BY <1>4, <1>5
  <2>3. DOMAIN dirs'[e].files = DOMAIN dirs[e].files
    BY <1>4, <2>1
  <2>4. ASSUME NEW k \in DOMAIN dirs[e].files
        PROVE  /\ dirs'[e].files[k].perm = dirs[e].files[k].perm
               /\ dirs'[e].files[k].size = dirs[e].files[k].size
               /\ dirs'[e].files[k].checksum =
                    IF e = d /\ k = n THEN sum ELSE dirs[e].files[k].checksum
    <3>1. /\ gs[k].perm = fs[k].perm /\ gs[k].size = fs[k].size
          /\ gs[k].checksum = IF k = n THEN sum ELSE fs[k].checksum
      BY <2>1, <2>2
    <3> QED
      BY <1>6, <2>1, <3>1
  <2> QED
    BY <2>1, <2>3, <2>4
<1>7. CASE e # d
  BY <1>2, <1>7
<1> QED
  BY <1>6, <1>7

LEMMA FinishHashExact ==
    ASSUME WalkInv, Places, Scenery, Exact, FinishHash PROVE Onward
<1>1. phase = "hash" /\ UNCHANGED fsVars
  BY DEF FinishHash
<1>2. PICK p \in DOMAIN open : Through(open[p]) /\ HashDone(p, open[p].got)
  BY Zenon DEF FinishHash
<1>3. /\ p \in DOMAIN pending /\ p \in DOMAIN stats
      /\ opts.alg = "blake3" => stats[p] = Len(Stat(p).node.bytes)
  BY DEF WalkInv, HashingUnfilled, ReadersWitnessed, Exact, StatsExact
<1>4. /\ Stat(p).res = "ok" /\ Len(Stat(p).node.bytes) \in Nat
      /\ Stat(p).node.bytes \in Seq(Blocks)
      /\ RefFileSum(p) = hash_hex(opts.alg, Stat(p).node.bytes)
      /\ ~pending[p].is_symlink => pending[p].recorded_size = Len(Stat(p).node.bytes)
  BY <1>3, QueuedFound
<1>19. ReaderExact(p, open[p])
  BY DEF Exact, ReadersExact
<1> PICK c : c = Stat(p).node.bytes
  OBVIOUS
<1> PICK sum : sum = hash_hex(opts.alg, c)
  OBVIOUS
<1> PICK d : d = Front(p)
  OBVIOUS
<1> PICK n : n = Last(p)
  OBVIOUS
<1>5. HashDone(p, c)
  <2>1. /\ open[p].got \in Seq(Blocks \cup {Zero}) /\ Begins(open[p])
        /\ open[p].bytes = c /\ open[p].bytes \in Seq(Blocks)
    BY <1>4, <1>19 DEF ReaderExact
  <2>2. open[p].got = c
    BY <1>2, <2>1, AllRead
  <2> QED
    BY <1>2, <2>2
<1>6. hashed_bytes(p, c) = Len(c)
  BY <1>3 DEF hashed_bytes
<1>7. /\ dirs' = [dirs EXCEPT ![d].files[n].checksum = sum]
      /\ stats' = [q \in DOMAIN stats \ {p} |-> stats[q]]
      /\ open' = [q \in DOMAIN open \ {p} |-> open[q]]
      /\ UNCHANGED <<opts, phase, stack, pending, manifest, error>>
  BY <1>4, <1>5, <1>6 DEF HashDone, WriteBack
<1>8. d \in DOMAIN dirs /\ n \in DOMAIN dirs[d].files /\ Append(d, n) = p
  <2>1. p \in Seq(Names) /\ p # << >>
    BY <1>3 DEF WalkInv, QueueTyped
  <2> QED
    BY <1>3, <2>1, PathParts DEF Places, SlotsExist
<1>9. WrittenBack(d, n, sum)
  <2>1. RecordsTyped
    BY DEF WalkInv
  <2> QED
    BY <1>7, <1>8, <2>1, ChecksumWritten
<1>10. Still /\ Grown /\ DOMAIN dirs' = DOMAIN dirs
  <2>1. Grown /\ DOMAIN dirs' = DOMAIN dirs
    BY <1>9 DEF Grown, WrittenBack
  <2> QED
    BY <1>1, <1>7, <2>1, StillInPlace
<1>11. DirsExact'
  BY <1>9, <1>10, RefStill DEF WrittenBack, Exact, DirsExact
<1>12. SlotsExact'
  <2> SUFFICES ASSUME NEW e \in DOMAIN dirs', NEW k \in DOMAIN dirs'[e].files
               PROVE  SlotExact(Append(e, k), dirs[e].files[k])'
    BY DEF SlotsExact
  <2>1. /\ e \in DOMAIN dirs /\ k \in DOMAIN dirs[e].files
        /\ dirs'[e].files[k].perm = dirs[e].files[k].perm
        /\ dirs'[e].files[k].size = dirs[e].files[k].size
        /\ dirs'[e].files[k].checksum = IF e = d /\ k = n THEN sum
                                        ELSE dirs[e].files[k].checksum
    BY <1>9 DEF WrittenBack
  <2>2. SlotExact(Append(e, k), dirs[e].files[k])
    BY <2>1 DEF Exact, SlotsExact
  <2>3. CASE e = d /\ k = n
    <3>1. Append(e, k) = p /\ RefFileSum(p) = sum /\ ~HeldBack(p)
      BY <1>4, <1>8, <1>19, <2>3 DEF ReaderExact
    <3> QED
      BY <1>7, <1>10, <2>1, <2>2, <2>3, <3>1, RefStill DEF SlotExact
  <2>4. CASE ~(e = d /\ k = n)
    BY <1>7, <1>10, <2>1, <2>2, <2>4, RefStill DEF SlotExact
  <2> QED
    BY <2>3, <2>4
<1>13. StatsExact'
  <2>1. \A q \in DOMAIN stats' : q \in DOMAIN stats /\ stats'[q] = stats[q]
    BY <1>7
  <2> QED
    BY <1>10, <2>1, RefStill DEF Exact, StatsExact, Still
<1>14. ReadersExact'
  <2>1. \A q \in DOMAIN open' : q \in DOMAIN open /\ open'[q] = open[q]
    BY <1>7
  <2>2. \A q \in DOMAIN open' : ReaderExact(q, open'[q])
    BY <2>1 DEF Exact, ReadersExact
  <2> QED
    BY <1>10, <2>2, RefStill DEF ReadersExact, ReaderExact, Begins
<1>15. QueueExact'
  BY <1>7, <1>10, JobsStay DEF Exact
<1> QED
  BY <1>1, <1>7, <1>10, <1>11, <1>12, <1>13, <1>14, <1>15, HashingOn


-----------------------------------------------------------------------------
(* The merkle pass.  What it computes is defined by recursion from a       *)
(* directory to those below it, and so is what the reference has: both are *)
(* the one function that satisfies the same equations.                     *)

RefDirsBelow(p) == {Append(p, n) : n \in RefBelow(p, "dir")}
MerkleOf(f, p) ==
  LET files == RefBelow(p, "file")
      below == {Append(p, n) : n \in RefBelow(p, "dir")}
  IN [checksum |-> directory_checksum(opts.alg,
           {RefFileSum(Append(p, n)) : n \in files} \cup {f[q].checksum : q \in below}),
      size |-> SumFunction([n \in files |-> RefFileSize(Append(p, n))]) +
               SumFunction([q \in below |-> f[q].size])]
IsMerkle(f, D) == f = [p \in D |-> MerkleOf(f, p)]

\* A directory's checksum and size depend on those below it alone.
LEMMA MerkleLocal ==
    ASSUME NEW f, NEW g, NEW p, \A q \in RefDirsBelow(p) : f[q] = g[q]
    PROVE  MerkleOf(f, p) = MerkleOf(g, p)
<1> PICK below : below = RefDirsBelow(p)
  OBVIOUS
<1>1. {f[q].checksum : q \in below} = {g[q].checksum : q \in below}
  OBVIOUS
<1>2. [q \in below |-> f[q].size] = [q \in below |-> g[q].size]
  OBVIOUS
<1>3. \A h : MerkleOf(h, p) =
        [checksum |-> directory_checksum(opts.alg,
             {RefFileSum(Append(p, n)) : n \in RefBelow(p, "file")} \cup {h[q].checksum : q \in below}),
         size |-> SumFunction([n \in RefBelow(p, "file") |-> RefFileSize(Append(p, n))]) +
                  SumFunction([q \in below |-> h[q].size])]
  BY DEF MerkleOf, RefDirsBelow
<1> QED
  BY <1>1, <1>2, <1>3

LEMMA BelowDeeper ==
    ASSUME Scenery, NEW p \in RefDirs, NEW q \in RefDirsBelow(p)
    PROVE  q \in RefDirs /\ Len(q) = Len(p) + 1
<1>1. PICK n \in Names : q = Append(p, n) /\ RefKind(Append(p, n)) = "dir"
  BY DEF RefDirsBelow, RefBelow
<1>2. p \in Seq(Names)
  BY DirReached
<1> QED
  BY <1>1, <1>2, FoundBelow, AppendProperties

\* From the deepest directories up there is always such a function.
RefDirsFrom(m) == {p \in RefDirs : Len(p) + m >= RefDepth}

LEMMA MerkleStep ==
    ASSUME Scenery, NEW m \in Nat, NEW f, IsMerkle(f, RefDirsFrom(m))
    PROVE  \E g : IsMerkle(g, RefDirsFrom(m + 1))
<1> PICK D : D = RefDirsFrom(m)
  OBVIOUS
<1> PICK E : E = RefDirsFrom(m + 1)
  OBVIOUS
<1> PICK g : g = [p \in E |-> MerkleOf(f, p)]
  OBVIOUS
<1>1. \A p \in D : f[p] = MerkleOf(f, p)
  BY DEF IsMerkle
<1>2. ASSUME NEW p \in E PROVE g[p] = MerkleOf(g, p)
  <2>1. p \in RefDirs /\ Len(p) + (m + 1) >= RefDepth
    BY DEF RefDirsFrom
  <2>2. Len(p) \in Nat /\ RefDepth \in Nat
    BY <2>1, DirReached, WalkAssumptions
  <2>3. ASSUME NEW q \in RefDirsBelow(p) PROVE f[q] = g[q]
    <3>1. q \in RefDirs /\ Len(q) = Len(p) + 1
      BY <2>1, BelowDeeper
    <3>2. Len(q) + m >= RefDepth /\ Len(q) + (m + 1) >= RefDepth
      BY <2>1, <2>2, <3>1
    <3>3. q \in D /\ q \in E
      BY <3>1, <3>2 DEF RefDirsFrom
    <3> QED
      BY <1>1, <3>3
  <2>4. MerkleOf(f, p) = MerkleOf(g, p)
    BY <2>3, MerkleLocal
  <2> QED
    BY <2>4
<1>3. g = [p \in E |-> MerkleOf(g, p)]
  <2> PICK h : h = [p \in E |-> MerkleOf(g, p)]
    OBVIOUS
  <2>1. \A p \in E : g[p] = h[p]
    BY <1>2
  <2>2. g = h
    BY <2>1
  <2> QED
    BY <2>2
<1> QED
  BY <1>3 DEF IsMerkle

LEMMA MerkleExists == ASSUME Scenery PROVE \E f : IsMerkle(f, RefDirs)
<1>0. RefDepth \in Nat
  BY WalkAssumptions
<1> DEFINE T == {m \in Nat : ~\E f : IsMerkle(f, RefDirsFrom(m))}
<1>1. T = {}
  <2> SUFFICES ASSUME T # {} PROVE FALSE
    OBVIOUS
  <2>1. PICK m \in T : \A y \in T : ~(y < m)
    <3> T \subseteq Nat
      OBVIOUS
    <3> HIDE DEF T
    <3> QED
      BY LeastNatural
  <2>2. m # 0
    <3> SUFFICES ASSUME m = 0 PROVE FALSE
      OBVIOUS
    <3>1. \A p \in RefDirs : Len(p) \in Nat /\ Len(p) < RefDepth
      BY DirReached
    <3>2. \A p \in RefDirs : ~(Len(p) + 0 >= RefDepth)
      BY <1>0, <3>1
    <3>3. RefDirsFrom(0) = {}
      BY <3>2 DEF RefDirsFrom
    <3> PICK f : f = [p \in {} |-> p]
      OBVIOUS
    <3> PICK g : g = [p \in {} |-> MerkleOf(f, p)]
      OBVIOUS
    <3>4. f = g
      OBVIOUS
    <3>5. IsMerkle(f, {})
      BY <3>4 DEF IsMerkle
    <3> QED
      BY <2>1, <3>3, <3>5
  <2>3. m \in Nat /\ m - 1 \in Nat /\ m - 1 < m /\ (m - 1) + 1 = m
    BY <2>1, <2>2
  <2>4. \E f : IsMerkle(f, RefDirsFrom(m - 1))
    BY <2>1, <2>3
  <2>5. \E g : IsMerkle(g, RefDirsFrom((m - 1) + 1))
    BY <2>3, <2>4, MerkleStep
  <2> QED
    BY <2>1, <2>3, <2>5
<1>2. \E f : IsMerkle(f, RefDirsFrom(RefDepth))
  BY <1>0, <1>1
<1>3. RefDirsFrom(RefDepth) = RefDirs
  <2>1. \A p \in RefDirs : Len(p) \in Nat
    BY DirReached
  <2>2. \A p \in RefDirs : Len(p) + RefDepth >= RefDepth
    BY <1>0, <2>1
  <2> QED
    BY <2>2 DEF RefDirsFrom
<1> QED
  BY <1>2, <1>3

\* And only one.
LEMMA MerkleUnique ==
    ASSUME Scenery, NEW f, NEW g, IsMerkle(f, RefDirs), IsMerkle(g, RefDirs) PROVE f = g
<1>1. \A p \in RefDirs : f[p] = MerkleOf(f, p) /\ g[p] = MerkleOf(g, p)
  BY DEF IsMerkle
<1>2. RefDepth \in Nat /\ \A p \in RefDirs : Len(p) \in Nat /\ Len(p) < RefDepth
  BY DirReached, WalkAssumptions
<1> DEFINE T == {k \in Nat : \E p \in RefDirs : Len(p) + k = RefDepth /\ f[p] # g[p]}
<1>3. T = {}
  <2> SUFFICES ASSUME T # {} PROVE FALSE
    OBVIOUS
  <2>1. PICK k \in T : \A y \in T : ~(y < k)
    <3> T \subseteq Nat
      OBVIOUS
    <3> HIDE DEF T
    <3> QED
      BY LeastNatural
  <2>2. PICK p \in RefDirs : Len(p) + k = RefDepth /\ f[p] # g[p]
    BY <2>1
  <2>3. k - 1 \in Nat /\ k - 1 < k
    BY <1>2, <2>1, <2>2
  <2>4. ASSUME NEW q \in RefDirsBelow(p) PROVE f[q] = g[q]
    <3>1. q \in RefDirs /\ Len(q) = Len(p) + 1
      BY BelowDeeper
    <3>2. Len(q) + (k - 1) = RefDepth
      BY <1>2, <2>1, <2>2, <3>1
    <3> QED
      BY <2>1, <2>3, <3>1, <3>2
  <2>5. MerkleOf(f, p) = MerkleOf(g, p)
    BY <2>4, MerkleLocal
  <2> QED
    BY <1>1, <2>2, <2>5
<1>4. ASSUME NEW p \in RefDirs PROVE f[p] = g[p]
  <2> PICK k : k = RefDepth - Len(p)
    OBVIOUS
  <2>1. k \in Nat /\ Len(p) + k = RefDepth
    BY <1>2
  <2> QED
    BY <1>3, <2>1
<1> QED
  BY <1>4 DEF IsMerkle

LEMMA RefMerkleIs == ASSUME Scenery PROVE IsMerkle(RefMerkle, RefDirs)
<1> DEFINE F == CHOOSE f : IsMerkle(f, RefDirs)
<1>1. IsMerkle(F, RefDirs)
  BY MerkleExists
<1>2. RefMerkle = F
  BY DEF RefMerkle, IsMerkle, MerkleOf
<1> QED
  BY <1>1, <1>2


-----------------------------------------------------------------------------
(* A finished discovery has everything the reference has. *)

LEMMA FoundParent ==
    ASSUME NEW p \in RefFound, p # << >>
    PROVE  /\ p \in Seq(Names) /\ Front(p) \in RefDirs /\ Last(p) \in Names
           /\ Append(Front(p), Last(p)) = p
<1>1. /\ p \in Seq(Names) /\ Len(p) \in 0..RefDepth
      /\ \A k \in 0..(Len(p) - 1) : RefKind(SubSeq(p, 1, k)) = "dir"
  BY FoundTyped
<1> PICK d : d = Front(p)
  OBVIOUS
<1> PICK m : m = Len(p) - 1
  OBVIOUS
<1>2. /\ Len(p) \in Nat \ {0} /\ d \in Seq(Names) /\ Last(p) \in Names
      /\ Len(d) = Len(p) - 1 /\ Append(d, Last(p)) = p
      /\ \A k \in 0..(Len(p) - 1) : SubSeq(d, 1, k) = SubSeq(p, 1, k)
  BY <1>1, PathParts
<1>3. m \in 0..(Len(p) - 1) /\ Len(d) = m /\ m \in 0..RefDepth
  BY <1>1, <1>2, WalkAssumptions
<1>4. RefKind(d) = "dir"
  <2>1. d = SubSeq(p, 1, m)
    BY DEF Front
  <2> QED
    BY <1>1, <1>3, <2>1
<1>5. \A k \in 0..(Len(d) - 1) : RefKind(SubSeq(d, 1, k)) = "dir"
  <2> SUFFICES ASSUME NEW k \in 0..(Len(d) - 1) PROVE RefKind(SubSeq(d, 1, k)) = "dir"
    OBVIOUS
  <2>1. k \in 0..(Len(p) - 1)
    BY <1>2
  <2> QED
    BY <1>1, <1>2, <2>1
<1>6. d \in RefFound
  BY <1>2, <1>3, <1>5, FoundTyped
<1> QED
  BY <1>1, <1>2, <1>4, <1>6 DEF RefDirs

\* When no directory is left on the stack, those recorded are those of the
\* reference, with all that is below them.
LEMMA RecordsComplete ==
    ASSUME RecordsTyped, Scenery, Exact, stack = << >>
    PROVE  /\ DOMAIN dirs = RefDirs
           /\ \A d \in RefDirs : /\ DOMAIN dirs[d].files = RefBelow(d, "file")
                                 /\ dirs[d].child_dirs = RefDirsBelow(d)
<1>1. \A d \in DOMAIN dirs : \A n \in Names : Settled(d, n)
  <2>1. ~\E i \in 1..Len(stack) : TRUE
    OBVIOUS
  <2> QED
    BY <2>1 DEF Exact, ReadThrough
<1>2. DOMAIN dirs \subseteq RefDirs
  BY DEF Exact, DirsExact
<1>3. RefDirs \subseteq DOMAIN dirs
  <2> SUFFICES ASSUME NEW p \in RefDirs, p \notin DOMAIN dirs PROVE FALSE
    OBVIOUS
  <2>0. /\ p \in Seq(Names) /\ Len(p) \in Nat /\ RefKind(p) = "dir"
        /\ \A k \in 0..(Len(p) - 1) : RefKind(SubSeq(p, 1, k)) = "dir"
    BY DirReached, FoundTyped DEF RefDirs
  <2> DEFINE T == {k \in Nat : k <= Len(p) /\ SubSeq(p, 1, k) \notin DOMAIN dirs}
  <2>1. SubSeq(p, 1, Len(p)) = p
    BY <2>0
  <2>2. Len(p) \in T
    <3> PICK m : m = Len(p)
      OBVIOUS
    <3>1. m \in Nat /\ m <= Len(p)
      BY <2>0
    <3> PICK q : q = SubSeq(p, 1, m)
      OBVIOUS
    <3>2. q = p
      BY <2>1
    <3>3. SubSeq(p, 1, m) \notin DOMAIN dirs
      BY <3>2
    <3> QED
      BY <3>1, <3>3
  <2>3. PICK k \in T : \A y \in T : ~(y < k)
    <3> T \subseteq Nat /\ T # {}
      BY <2>2
    <3> HIDE DEF T
    <3> QED
      BY LeastNatural
  <2>4. k # 0
    <3>1. SubSeq(p, 1, 0) = << >>
      OBVIOUS
    <3>2. << >> \in DOMAIN dirs
      BY DEF Exact
    <3> QED
      BY <2>3, <3>1, <3>2
  <2>5. k \in 1..Len(p) /\ k - 1 \in Nat /\ k - 1 < k /\ k - 1 <= Len(p)
    BY <2>0, <2>3, <2>4
  <2> PICK d : d = SubSeq(p, 1, k - 1)
    OBVIOUS
  <2>6. d \in DOMAIN dirs
    BY <2>3, <2>5
  <2>7. p[k] \in Names /\ Append(d, p[k]) = SubSeq(p, 1, k)
    BY <2>0, <2>5, PrefixStep
  <2>8. RefKind(SubSeq(p, 1, k)) = "dir"
    <3>1. CASE k = Len(p)
      BY <2>0, <2>1, <3>1
    <3>2. CASE k # Len(p)
      <4>1. k \in 0..(Len(p) - 1)
        BY <2>0, <2>5, <3>2
      <4> QED
        BY <2>0, <4>1
    <3> QED
      BY <3>1, <3>2
  <2>9. SubSeq(p, 1, k) \in DOMAIN dirs
    BY <1>1, <2>6, <2>7, <2>8 DEF Settled
  <2> QED
    BY <2>3, <2>9
<1>5. ASSUME NEW d \in RefDirs
      PROVE  /\ DOMAIN dirs[d].files = RefBelow(d, "file")
             /\ dirs[d].child_dirs = RefDirsBelow(d)
  <2>1. d \in DOMAIN dirs /\ d \in Seq(Names)
    BY <1>3, DirReached
  <2>2. DOMAIN dirs[d].files = RefBelow(d, "file")
    <3>1. ASSUME NEW n \in DOMAIN dirs[d].files PROVE n \in RefBelow(d, "file")
      <4>1. n \in Names
        BY <2>1 DEF RecordsTyped
      <4>2. SlotExact(Append(d, n), dirs[d].files[n])
        BY <2>1 DEF Exact, SlotsExact
      <4> QED
        BY <4>1, <4>2 DEF SlotExact, RefBelow
    <3>2. ASSUME NEW n \in RefBelow(d, "file") PROVE n \in DOMAIN dirs[d].files
      BY <1>1, <2>1 DEF RefBelow, Settled
    <3> QED
      BY <3>1, <3>2
  <2>3. dirs[d].child_dirs = {q \in DOMAIN dirs : q # << >> /\ Front(q) = d}
    BY <2>1 DEF Exact, DirsExact
  <2>4. ASSUME NEW q \in DOMAIN dirs, q # << >>, Front(q) = d PROVE q \in RefDirsBelow(d)
    <3>1. q \in RefFound /\ RefKind(q) = "dir"
      BY <1>2 DEF RefDirs
    <3>2. Last(q) \in Names /\ Append(d, Last(q)) = q
      BY <2>4, <3>1, FoundParent
    <3> QED
      BY <3>1, <3>2 DEF RefDirsBelow, RefBelow
  <2>5. ASSUME NEW q \in RefDirsBelow(d) PROVE q \in DOMAIN dirs /\ q # << >> /\ Front(q) = d
    <3>1. PICK n \in Names : q = Append(d, n) /\ RefKind(Append(d, n)) = "dir"
      BY DEF RefDirsBelow, RefBelow
    <3>2. q \in DOMAIN dirs
      BY <1>1, <2>1, <3>1 DEF Settled
    <3> QED
      BY <2>1, <3>1, <3>2, AppendParts
  <2> QED
    BY <2>2, <2>3, <2>4, <2>5
<1> QED
  BY <1>2, <1>3, <1>5

-----------------------------------------------------------------------------
(* What Finalize writes. *)

FinalOf(f, p) ==
  LET fs == dirs[p].files
      below == dirs[p].child_dirs
  IN [checksum |-> directory_checksum(opts.alg,
           {fs[n].checksum : n \in DOMAIN fs} \cup {f[q].checksum : q \in below}),
      size |-> SumFunction([n \in DOMAIN fs |-> fs[n].size]) +
               SumFunction([q \in below |-> f[q].size])]
IsFinal(f) == f = [p \in DOMAIN dirs |-> FinalOf(f, p)]

\* Once every queued file is hashed, slots hold what the reference has.
LEMMA SlotsFilled ==
    ASSUME WalkInv, Scenery, Exact, Unhashed = {},
           NEW d \in DOMAIN dirs, NEW n \in DOMAIN dirs[d].files
    PROVE  LET p == Append(d, n)  s == dirs[d].files[n]
           IN  /\ RefKind(p) = "file" /\ s.perm = Lstat(p).node.perm
               /\ s.size = RefFileSize(p) /\ s.checksum = RefFileSum(p)
               /\ ~HeldBack(p)
<1> PICK p : p = Append(d, n)
  OBVIOUS
<1> PICK s : s = dirs[d].files[n]
  OBVIOUS
<1>1. SlotExact(p, s)
  BY DEF Exact, SlotsExact
<1>2. s.checksum = RefFileSum(p) /\ ~HeldBack(p)
  <2> SUFFICES ASSUME s.checksum = Unfilled, p \in DOMAIN pending PROVE FALSE
    BY <1>1 DEF SlotExact
  <2>1. d \in Seq(Names) /\ n \in Names
    BY DEF WalkInv, RecordsTyped
  <2>2. Front(p) = d /\ Last(p) = n
    BY <2>1, AppendParts
  <2> QED
    BY <2>2 DEF Unhashed, SlotOf
<1> QED
  BY <1>1, <1>2 DEF SlotExact

\* Nothing the walk must refuse was on its way.
LEMMA NothingRefused ==
    ASSUME WalkInv, Scenery, Exact, stack = << >>, Unhashed = {}
    PROVE  ~RefRefuses
<1> SUFFICES ASSUME NEW p \in RefFound, RefRefused(p) PROVE FALSE
  BY DEF RefRefuses, Exact
<1>1. /\ DOMAIN dirs = RefDirs
      /\ \A d \in RefDirs : DOMAIN dirs[d].files = RefBelow(d, "file")
  BY RecordsComplete DEF WalkInv
<1>2. \A d \in RefDirs : ~HeldBack(d) /\ \A n \in Names : Settled(d, n)
  <2>1. ~\E i \in 1..Len(stack) : TRUE
    OBVIOUS
  <2> QED
    BY <1>1, <2>1 DEF Exact, ReadThrough
<1>3. Barred(p) \/ HeldBack(p)
  BY DEF RefRefused, Barred, HeldBack
<1>4. ~HeldBack(p)
  <2> SUFFICES ASSUME HeldBack(p) PROVE FALSE
    OBVIOUS
  <2>1. RefKind(p) = "dir" => p \in RefDirs
    BY DEF RefDirs
  <2>2. RefKind(p) = "file"
    BY <1>2, <2>1 DEF HeldBack
  <2>3. p # << >>
    <3>1. "dir" # "file"
      OBVIOUS
    <3> QED
      BY <2>2, <3>1 DEF RefKind
  <2>4. /\ Front(p) \in RefDirs /\ Last(p) \in Names /\ Append(Front(p), Last(p)) = p
    BY <2>3, FoundParent
  <2>5. Last(p) \in DOMAIN dirs[Front(p)].files
    BY <1>1, <2>2, <2>4 DEF RefBelow
  <2> QED
    BY <1>1, <2>4, <2>5, SlotsFilled
<1>5. Barred(p)
  BY <1>3, <1>4
<1>6. p # << >>
  <2>1. "dir" # "broken" /\ "dir" # "file"
    OBVIOUS
  <2> QED
    BY <1>5, <2>1 DEF Barred, RefKind
<1>7. Front(p) \in RefDirs /\ Last(p) \in Names /\ Append(Front(p), Last(p)) = p
  BY <1>6, FoundParent
<1> QED
  BY <1>2, <1>5, <1>7 DEF Settled

LEMMA FinalIsMerkle ==
    ASSUME WalkInv, Scenery, Exact, stack = << >>, Unhashed = {}, NEW f, NEW p \in RefDirs
    PROVE  FinalOf(f, p) = MerkleOf(f, p)
<1> PICK fs : fs = dirs[p].files
  OBVIOUS
<1> PICK below : below = RefDirsBelow(p)
  OBVIOUS
<1> PICK files : files = RefBelow(p, "file")
  OBVIOUS
<1>1. p \in DOMAIN dirs /\ DOMAIN fs = files /\ dirs[p].child_dirs = below
  BY RecordsComplete DEF WalkInv
<1>2. \A n \in files : fs[n].size = RefFileSize(Append(p, n)) /\ fs[n].checksum = RefFileSum(Append(p, n))
  BY <1>1, SlotsFilled
<1>3. {fs[n].checksum : n \in DOMAIN fs} = {RefFileSum(Append(p, n)) : n \in files}
  BY <1>1, <1>2
<1>4. [n \in DOMAIN fs |-> fs[n].size] = [n \in files |-> RefFileSize(Append(p, n))]
  BY <1>1, <1>2
<1>5. FinalOf(f, p) =
        [checksum |-> directory_checksum(opts.alg,
             {fs[n].checksum : n \in DOMAIN fs} \cup {f[q].checksum : q \in below}),
         size |-> SumFunction([n \in DOMAIN fs |-> fs[n].size]) +
                  SumFunction([q \in below |-> f[q].size])]
  BY <1>1 DEF FinalOf
<1>6. MerkleOf(f, p) =
        [checksum |-> directory_checksum(opts.alg,
             {RefFileSum(Append(p, n)) : n \in files} \cup {f[q].checksum : q \in below}),
         size |-> SumFunction([n \in files |-> RefFileSize(Append(p, n))]) +
                  SumFunction([q \in below |-> f[q].size])]
  BY DEF MerkleOf, RefDirsBelow
<1> QED
  BY <1>3, <1>4, <1>5, <1>6

LEMMA FinalizedIs ==
    ASSUME WalkInv, Scenery, Exact, stack = << >>, Unhashed = {}
    PROVE  Finalized = RefMerkle
<1>1. DOMAIN dirs = RefDirs
  BY RecordsComplete DEF WalkInv
<1>2. ASSUME NEW f PROVE IsFinal(f) <=> IsMerkle(f, RefDirs)
  <2> PICK g : g = [p \in DOMAIN dirs |-> FinalOf(f, p)]
    OBVIOUS
  <2> PICK h : h = [p \in RefDirs |-> MerkleOf(f, p)]
    OBVIOUS
  <2>1. \A p \in RefDirs : FinalOf(f, p) = MerkleOf(f, p)
    BY FinalIsMerkle
  <2>2. g = h
    BY <1>1, <2>1
  <2> QED
    BY <2>2 DEF IsFinal, IsMerkle
<1>3. IsFinal(RefMerkle)
  BY <1>2, RefMerkleIs
<1> DEFINE F == CHOOSE f : IsFinal(f)
<1>4. IsFinal(F)
  BY <1>3
<1>5. Finalized = F
  BY DEF Finalized, IsFinal, FinalOf
<1>6. IsMerkle(Finalized, RefDirs)
  BY <1>2, <1>4, <1>5
<1> QED
  BY <1>6, RefMerkleIs, MerkleUnique


LEMMA EntriesExact ==
    ASSUME WalkInv, Scenery, Exact, stack = << >>, Unhashed = {}
    PROVE  EntriesOf = {RefEntry(p) : p \in RefListed}
<1>1. /\ DOMAIN dirs = RefDirs /\ Finalized = RefMerkle
      /\ \A d \in RefDirs : DOMAIN dirs[d].files = RefBelow(d, "file")
  BY RecordsComplete, FinalizedIs DEF WalkInv
<1> DEFINE D(p) == Entry("D", dirs[p].perm, Finalized[p].checksum, Finalized[p].size, p)
           F(p, n) == Entry("F", dirs[p].files[n].perm, dirs[p].files[n].checksum,
                            dirs[p].files[n].size, Append(p, n))
<1>2. \A e : e \in EntriesOf <=> \/ \E p \in DOMAIN dirs : e = D(p)
                                 \/ \E p \in DOMAIN dirs : \E n \in DOMAIN dirs[p].files : e = F(p, n)
  BY DEF EntriesOf
<1>3. ASSUME NEW p \in RefDirs PROVE p \in RefListed /\ RefKind(p) = "dir" /\ D(p) = RefEntry(p)
  <2>1. p \in RefListed /\ RefKind(p) = "dir" /\ "dir" # "file"
    BY DEF RefDirs, RefListed
  <2>2. dirs[p].perm = Lstat(p).node.perm
    BY <1>1 DEF Exact, DirsExact
  <2> QED
    BY <1>1, <2>1, <2>2 DEF RefEntry
<1>4. ASSUME NEW d \in RefDirs, NEW n \in RefBelow(d, "file")
      PROVE  Append(d, n) \in RefListed /\ F(d, n) = RefEntry(Append(d, n))
  <2>1. n \in Names /\ RefKind(Append(d, n)) = "file"
    BY DEF RefBelow
  <2>2. Append(d, n) \in RefListed
    BY <2>1, FoundBelow DEF RefListed
  <2>3. LET p == Append(d, n)  s == dirs[d].files[n]
        IN  /\ s.perm = Lstat(p).node.perm
            /\ s.size = RefFileSize(p) /\ s.checksum = RefFileSum(p)
    BY <1>1, SlotsFilled
  <2> QED
    BY <2>1, <2>2, <2>3 DEF RefEntry
<1>5. ASSUME NEW p \in RefListed
      PROVE  \/ p \in RefDirs
             \/ \E d \in RefDirs : \E n \in RefBelow(d, "file") : p = Append(d, n)
  <2>1. p \in RefFound /\ RefKind(p) \in {"dir", "file"}
    BY DEF RefListed
  <2>2. CASE RefKind(p) = "dir"
    BY <2>1, <2>2 DEF RefDirs
  <2>3. CASE RefKind(p) = "file"
    <3>1. p # << >>
      <4>1. "dir" # "file"
        OBVIOUS
      <4> QED
        BY <2>3, <4>1 DEF RefKind
    <3>2. Front(p) \in RefDirs /\ Last(p) \in Names /\ Append(Front(p), Last(p)) = p
      BY <2>1, <3>1, FoundParent
    <3>3. Last(p) \in RefBelow(Front(p), "file")
      BY <2>3, <3>2 DEF RefBelow
    <3> QED
      BY <3>2, <3>3
  <2> QED
    BY <2>1, <2>2, <2>3
<1> HIDE DEF D, F
<1>6. ASSUME NEW e \in EntriesOf PROVE \E p \in RefListed : e = RefEntry(p)
  BY <1>1, <1>2, <1>3, <1>4
<1>7. ASSUME NEW p \in RefListed PROVE RefEntry(p) \in EntriesOf
  <2>1. CASE p \in RefDirs
    BY <1>1, <1>2, <1>3, <2>1
  <2>2. CASE \E d \in RefDirs : \E n \in RefBelow(d, "file") : p = Append(d, n)
    <3> PICK d \in RefDirs : \E n \in RefBelow(d, "file") : p = Append(d, n)
      BY <2>2
    <3> PICK n \in RefBelow(d, "file") : p = Append(d, n)
      OBVIOUS
    <3>1. F(d, n) = RefEntry(p)
      BY <1>4
    <3>2. d \in DOMAIN dirs /\ n \in DOMAIN dirs[d].files
      BY <1>1
    <3> QED
      BY <1>2, <3>1, <3>2
  <2> QED
    BY <1>5, <2>1, <2>2
<1> QED
  BY <1>6, <1>7

LEMMA RefMerkleHolds == Scenery => IsMerkle(RefMerkle, RefDirs)
BY RefMerkleIs

LEMMA RefMerkleIsNext == (Scenery => IsMerkle(RefMerkle, RefDirs))'
BY RefMerkleHolds, PTL

\* The reference of a tree and options that stay stays.
LEMMA RefMerkleStill == ASSUME Scenery, Still PROVE RefMerkle' = RefMerkle
<1>1. Scenery' /\ RefDirs' = RefDirs
  BY RefStill
<1> PICK f : f = RefMerkle'
  OBVIOUS
<1>2. IsMerkle(f, RefDirs)'
  BY <1>1, RefMerkleIsNext
<1>3. ASSUME NEW p PROVE MerkleOf(f, p)' = MerkleOf(f, p)
  <2>1. \A kind : RefBelow(p, kind)' = RefBelow(p, kind)
    BY RefStill DEF RefBelow
  <2>2. \A q : RefFileSum(q)' = RefFileSum(q) /\ RefFileSize(q)' = RefFileSize(q)
    BY RefStill
  <2>3. opts' = opts
    BY DEF Still
  <2> PICK files : files = RefBelow(p, "file")
    OBVIOUS
  <2> PICK below : below = {Append(p, n) : n \in RefBelow(p, "dir")}
    OBVIOUS
  <2> DEFINE M == [checksum |-> directory_checksum(opts.alg,
                       {RefFileSum(Append(p, n)) : n \in files} \cup {f[q].checksum : q \in below}),
                   size |-> SumFunction([n \in files |-> RefFileSize(Append(p, n))]) +
                            SumFunction([q \in below |-> f[q].size])]
  <2>4. MerkleOf(f, p) = M
    BY DEF MerkleOf
  <2>5. files = RefBelow(p, "file")' /\ below = {Append(p, n) : n \in RefBelow(p, "dir")'}
    BY <2>1
  <2>6. MerkleOf(f, p)' = M'
    BY <2>5 DEF MerkleOf
  <2>7. {RefFileSum(Append(p, n)) : n \in files}' = {RefFileSum(Append(p, n)) : n \in files}
    BY <2>2
  <2>8. [n \in files |-> RefFileSize(Append(p, n))]' = [n \in files |-> RefFileSize(Append(p, n))]
    BY <2>2
  <2>9. M' = M
    BY <2>3, <2>7, <2>8
  <2> QED
    BY <2>4, <2>6, <2>9
<1>4. IsMerkle(f, RefDirs)
  <2>1. f = [p \in RefDirs' |-> MerkleOf(f, p)']
    BY <1>2 DEF IsMerkle
  <2>2. f = [p \in RefDirs |-> MerkleOf(f, p)]
    BY <1>1, <1>3, <2>1
  <2> QED
    BY <2>2 DEF IsMerkle
<1> QED
  BY <1>4, RefMerkleIs, MerkleUnique

LEMMA EntryStill ==
    ASSUME Scenery, Still
    PROVE  {RefEntry(p) : p \in RefListed}' = {RefEntry(p) : p \in RefListed}
<1>1. RefMerkle' = RefMerkle
  BY RefMerkleStill
<1>2. ASSUME NEW p PROVE RefEntry(p)' = RefEntry(p)
  BY <1>1, RefStill DEF RefEntry
<1>3. RefListed' = RefListed
  BY RefStill DEF RefListed
<1> QED
  BY <1>2, <1>3


-----------------------------------------------------------------------------
(* A walk from its beginning to its end. *)

LEMMA RootFoundNext == (<< >> \in RefDirs)'
BY RootFound, PTL

\* A root that is no directory is refused; discovery of one that is begins
\* with its record alone.
LEMMA BeginWalkExact ==
    ASSUME WalkInv, Scenery, BeginWalk
    PROVE  Scenery' /\ (Onward \/ (phase' = "failed" /\ RefRefuses'))
<1>1. /\ phase = "idle" /\ UNCHANGED <<pending, stats, open, manifest, meter>>
      /\ UNCHANGED <<tree, objects>>
  BY DEF BeginWalk, fsVars
<1>2. Scenery'
  BY <1>1 DEF Scenery
<1>3. CASE opts'.root # "dir"
  <2>1. phase' = "failed"
    BY <1>3 DEF BeginWalk
  <2>2. RefRefuses'
    BY <1>3 DEF RefRefuses
  <2> QED
    BY <1>2, <2>1, <2>2
<1>4. CASE opts'.root = "dir"
  <2> DEFINE L0 == [dir |-> << >>, read |-> FALSE, left |-> {}]
  <2>1. /\ phase' = "discover" /\ stack' = <<L0>>
        /\ dirs' = [d \in {<< >>} |-> DirRecord(tree[d].perm)]
    BY <1>4 DEF BeginWalk
  <2>2. DOMAIN dirs' = {<< >>} /\ dirs'[<< >>] = DirRecord(tree[<< >>].perm)
    BY <2>1
  <2>3. /\ dirs'[<< >>].perm = tree[<< >>].perm /\ dirs'[<< >>].child_dirs = {}
        /\ DOMAIN dirs'[<< >>].files = {}
    BY <2>2 DEF DirRecord
  <2>4. Len(stack') = 1 /\ stack'[1] = L0
    BY <2>1
  <2>5. DirsExact'
    <3>1. (<< >> \in RefDirs)'
      BY RootFoundNext
    <3>2. (Lstat(<< >>).node.perm)' = tree[<< >>].perm
      BY <1>1 DEF Lstat, LstatIn
    <3>3. {q \in DOMAIN dirs' : q # << >> /\ Front(q) = << >>} = {}
      BY <2>2
    <3> QED
      BY <2>2, <2>3, <3>1, <3>2, <3>3 DEF DirsExact
  <2>6. SlotsExact'
    BY <2>2, <2>3 DEF SlotsExact
  <2>7. DOMAIN pending' = {} /\ DOMAIN stats' = {} /\ DOMAIN open' = {}
    BY <1>1 DEF WalkInv, PhasesInOrder, ReadersWitnessed
  <2>8. QueueExact' /\ StatsExact' /\ ReadersExact'
    BY <2>7 DEF QueueExact, StatsExact, ReadersExact
  <2>9. LevelsExact' /\ ReadThrough'
    <3>1. \A i \in 1..Len(stack') : ~stack'[i].read
      BY <2>4
    <3>2. 1 \in 1..Len(stack') /\ stack'[1].dir = << >>
      BY <2>4
    <3>3. LevelsExact'
      BY <3>1 DEF LevelsExact
    <3>4. ReadThrough'
      BY <2>2, <3>2 DEF ReadThrough
    <3> QED
      BY <3>3, <3>4
  <2>10. (opts.root = "dir" /\ << >> \in DOMAIN dirs /\ (phase = "hash" => stack = << >>))'
    <3>1. "discover" # "hash"
      OBVIOUS
    <3> QED
      BY <1>4, <2>1, <2>2, <3>1
  <2>11. Exact'
    BY <2>5, <2>6, <2>8, <2>9, <2>10 DEF Exact
  <2> QED
    BY <1>2, <2>1, <2>11 DEF Onward
<1> QED
  BY <1>3, <1>4

\* When every file is hashed, what is written down is what the reference lists.
LEMMA FinalizeExact ==
    ASSUME WalkInv, Scenery, Exact, Finalize
    PROVE  phase' = "done" /\ ListedExactly'
<1>1. /\ phase = "hash" /\ Unhashed = {} /\ manifest' = EntriesOf /\ phase' = "done"
      /\ UNCHANGED <<opts, fsVars>>
  BY DEF Finalize
<1>2. stack = << >>
  BY <1>1 DEF Exact
<1>3. Still
  BY <1>1, StillInPlace
<1>4. EntriesOf = {RefEntry(p) : p \in RefListed}
  BY <1>1, <1>2, EntriesExact
<1>5. ~RefRefuses
  BY <1>1, <1>2, NothingRefused
<1>6. ~RefRefuses'
  BY <1>3, <1>5, RefStill
<1>7. manifest' = {RefEntry(p) : p \in RefListed}'
  BY <1>1, <1>3, <1>4, EntryStill
<1> QED
  BY <1>1, <1>6, <1>7 DEF ListedExactly

\* Nobody may disturb the walk and leave no trace of it.
LEMMA EditsCounted ==
    ASSUME Places, EditFile \/ RemoveFile \/ DamageObject PROVE edits' # 0
<1>1. edits \in Nat /\ edits' = edits + 1
  BY WalkAssumptions DEF Places, Ending, EditFile, RemoveFile, DamageObject
<1> QED
  BY <1>1

LEMMA UndisturbedInit == Init => Undisturbed
<1> SUFFICES ASSUME Init PROVE Undisturbed
  OBVIOUS
<1>1. phase = "idle" /\ Scenery
  BY DEF Init, Scenery
<1>2. "idle" \notin {"discover", "hash"} /\ "idle" # "failed" /\ "idle" # "done"
  OBVIOUS
<1> QED
  BY <1>1, <1>2 DEF Undisturbed

\* A step of the walk on a file system nobody has touched.
LEMMA WalkerUndisturbed ==
    ASSUME WalkInv, Places, Undisturbed, edits = 0, Walker
    PROVE  Undisturbed'
<1>0. /\ "idle" # "discover" /\ "idle" # "hash" /\ "failed" # "done"
      /\ \A x \in {"discover", "hash"} : x # "failed" /\ x # "done"
  OBVIOUS
<1>1. Scenery /\ (phase \in {"discover", "hash"} => Exact)
  BY DEF Undisturbed
<1>2. CASE BeginWalk
  BY <1>0, <1>1, <1>2, BeginWalkExact DEF Undisturbed, Onward
<1>3. ASSUME ReadDir \/ Visit \/ LeaveDir \/ BeginHash \/ OpenFile \/ ReadBlock \/ FinishHash
      PROVE  /\ phase \in {"discover", "hash"} /\ UNCHANGED <<opts, fsVars>>
             /\ Onward \/ Refused
  <2>1. CASE ReadDir
    <3>1. phase = "discover" /\ UNCHANGED fsVars
      BY <2>1 DEF ReadDir
    <3>2. Onward \/ Refused
      BY <1>1, <2>1, <3>1, ReadDirExact
    <3>3. UNCHANGED opts
      BY <2>1 DEF ReadDir, Fail
    <3> QED
      BY <3>1, <3>2, <3>3
  <2>2. CASE Visit
    <3>1. phase = "discover" /\ UNCHANGED fsVars
      BY <2>2 DEF Visit
    <3>2. Onward \/ Refused
      BY <1>1, <2>2, <3>1, VisitExact
    <3>3. UNCHANGED opts
      BY <2>2 DEF Visit, Fail, Skip, DescendInto, RecordLinked, QueueFile
    <3> QED
      BY <3>1, <3>2, <3>3
  <2>3. CASE LeaveDir
    <3>1. phase = "discover" /\ UNCHANGED <<opts, fsVars>>
      BY <2>3 DEF LeaveDir
    <3>2. Onward
      BY <1>1, <2>3, <3>1, LeaveDirExact
    <3> QED
      BY <3>1, <3>2
  <2>4. CASE BeginHash
    <3>1. phase = "hash" /\ UNCHANGED fsVars
      BY <2>4 DEF BeginHash
    <3>2. Onward \/ Refused
      BY <1>1, <2>4, <3>1, BeginHashExact
    <3>3. UNCHANGED opts
      BY <2>4 DEF BeginHash, Fail
    <3> QED
      BY <3>1, <3>2, <3>3
  <2>5. CASE FinishHash
    <3>1. phase = "hash" /\ UNCHANGED fsVars
      BY <2>5 DEF FinishHash
    <3>2. Onward \/ Refused
      BY <1>1, <2>5, <3>1, FinishHashExact
    <3>3. UNCHANGED opts
      BY <2>5 DEF FinishHash, HashDone, WriteBack, Fail
    <3> QED
      BY <3>1, <3>2, <3>3
  <2>6. CASE OpenFile
    <3>1. phase = "hash" /\ UNCHANGED fsVars
      BY <2>6 DEF OpenFile
    <3>2. Onward \/ Refused
      BY <1>1, <2>6, <3>1, OpenFileExact
    <3>3. UNCHANGED opts
      BY <2>6 DEF OpenFile, Fail
    <3> QED
      BY <3>1, <3>2, <3>3
  <2>7. CASE ReadBlock
    <3>1. phase = "hash" /\ UNCHANGED fsVars
      BY <2>7 DEF ReadBlock
    <3>2. Onward
      BY <1>1, <2>7, <3>1, ReadBlockExact
    <3>3. UNCHANGED opts
      BY <2>7 DEF ReadBlock, Got, Fail
    <3> QED
      BY <3>1, <3>2, <3>3
  <2> QED
    BY <1>3, <2>1, <2>2, <2>3, <2>4, <2>5, <2>6, <2>7
<1>4. CASE ReadDir \/ Visit \/ LeaveDir \/ BeginHash \/ OpenFile \/ ReadBlock \/ FinishHash
  <2>1. Still
    BY <1>3, <1>4, StillInPlace
  <2>2. Scenery' /\ RefRefuses' = RefRefuses
    BY <1>1, <2>1, RefStill
  <2> QED
    BY <1>0, <1>3, <1>4, <2>2 DEF Undisturbed, Onward, Refused
<1>5. CASE Finalize
  <2>1. phase = "hash" /\ UNCHANGED <<opts, fsVars>>
    BY <1>5 DEF Finalize
  <2>2. Still
    BY <2>1, StillInPlace
  <2>3. Scenery'
    BY <1>1, <2>2, RefStill
  <2>4. phase' = "done" /\ ListedExactly'
    BY <1>1, <1>5, <2>1, FinalizeExact
  <2> QED
    BY <1>0, <2>3, <2>4 DEF Undisturbed
<1> QED
  BY <1>2, <1>4, <1>5 DEF Walker

LEMMA StandingExact == ASSUME UNCHANGED vars, Exact PROVE Exact'
<1>1. UNCHANGED <<opts, phase, stack, dirs, pending, stats, open>> /\ Still /\ Grown
  BY GrownSame DEF vars, Still
<1>2. /\ DirsExact' /\ SlotsExact' /\ QueueExact' /\ StatsExact' /\ ReadersExact'
  BY <1>1, DirsStay, SlotsStay, JobsStay, StatsStay, OpenStay DEF Exact
<1>3. LevelsExact'
  <2>1. \A d : /\ ListingIn(tree, Stat(d).at)' = ListingIn(tree, Stat(d).at)
              /\ HeldBack(d)' = HeldBack(d)
    BY <1>1, RefStill DEF ListingIn, Still
  <2> QED
    BY <1>1, <2>1, SettledStays DEF Exact, LevelsExact
<1>4. ReadThrough'
  BY <1>1, SettledStays, RefStill DEF Exact, ReadThrough
<1> QED
  BY <1>1, <1>2, <1>3, <1>4 DEF Exact

LEMMA UndisturbedNext ==
    WalkInv /\ Places /\ Undisturbed /\ [Next]_vars => Undisturbed'
<1> SUFFICES ASSUME WalkInv, Places, Undisturbed, [Next]_vars PROVE Undisturbed'
  OBVIOUS
<1>1. CASE EditFile \/ RemoveFile \/ DamageObject
  BY <1>1, EditsCounted DEF Undisturbed
<1>2. CASE Walker
  <2>1. edits' = edits
    BY <1>2 DEF Walker, BeginWalk, ReadDir, Visit, LeaveDir, BeginHash, OpenFile, ReadBlock,
                FinishHash, Finalize, fsVars
  <2>2. CASE edits = 0
    BY <1>2, <2>2, WalkerUndisturbed
  <2>3. CASE edits # 0
    BY <2>1, <2>3 DEF Undisturbed
  <2> QED
    BY <2>2, <2>3
<1>3. CASE UNCHANGED vars \/ Rest
  <2>1. UNCHANGED vars
    BY <1>3 DEF Rest
  <2>2. UNCHANGED <<edits, phase, manifest>> /\ Still
    BY <2>1 DEF vars, Still
  <2>3. CASE edits = 0
    <3>1. Scenery /\ Scenery' = Scenery /\ RefRefuses' = RefRefuses
      BY <2>2, <2>3, RefStill DEF Undisturbed
    <3>2. ListedExactly' = ListedExactly
      BY <2>2, <3>1, EntryStill DEF ListedExactly
    <3>3. phase \in {"discover", "hash"} => Exact'
      BY <2>1, <2>3, StandingExact DEF Undisturbed
    <3> QED
      BY <2>2, <3>1, <3>2, <3>3 DEF Undisturbed
  <2>4. CASE edits # 0
    BY <2>2, <2>4 DEF Undisturbed
  <2> QED
    BY <2>3, <2>4
<1> QED
  BY <1>1, <1>2, <1>3 DEF Next

\* On a tree and object pool nobody edits, a finished walk lists exactly what
\* one sequential reading would, for every tree, every pattern of links, every
\* order of listing and every interleaving of the workers, block by block; and
\* a walk fails only where it must refuse the root, a directory or file it may
\* not read, a link whose lookup fails otherwise than by leading nowhere or in
\* a circle, or a linked object (walk_inner, discover_dir, hash_pending,
\* hash_file and the merkle pass after them).
THEOREM UndisturbedWalkExact == Spec => []QuiescentExact
<1>1. Init => WalkInv /\ Places /\ Undisturbed
  BY WalkInitInv, PlacesInit, UndisturbedInit
<1>2. WalkInv /\ Places /\ Undisturbed /\ [Next]_vars => WalkInv' /\ Places' /\ Undisturbed'
  BY WalkNextKeeps, PlacesNext, UndisturbedNext
<1>3. WalkInv /\ Places /\ Undisturbed => QuiescentExact
  <2> SUFFICES ASSUME WalkInv, Places, Undisturbed PROVE QuiescentExact
    OBVIOUS
  <2>1. TypeOK
    BY DEF WalkInv, HashingUnfilled, ReadersWitnessed, Places, SlotsExist, Ending, TypeOK
  <2> QED
    BY <2>1 DEF Undisturbed, ListedExactly, QuiescentExact
<1> QED
  BY <1>1, <1>2, <1>3, PTL DEF Spec

-----------------------------------------------------------------------------
(* What diff computes.  Its unions and its resolution of sides are         *)
(* recursions of as many turns as a side has manifests: one or two here.   *)

\* Entries as a walk writes them, no two of them under one path.
IsEntry(e) ==
  /\ e = [x \in {"type", "perm", "checksum", "size", "path"} |-> e[x]]
  /\ e.type \in {"D", "F"} /\ e.path \in Seq(Names)
IsManifest(m) ==
  /\ m # {} /\ \A e \in m : IsEntry(e)
  /\ \A e \in m : \A g \in m : PathOf(e) = PathOf(g) => e = g

\* Two of them that agree on the permissions of the directories they share.
DirsAgree(a, b) ==
  \A e \in a : \A g \in b :
    e.type = "D" /\ g.type = "D" /\ e.path = g.path => e.perm = g.perm

LEMMA MapOfEntries ==
    ASSUME NEW m, IsManifest(m)
    PROVE  /\ \A e \in m : PathOf(e) \in DOMAIN MapOf(m) /\ MapOf(m)[PathOf(e)] = e
           /\ \A k \in DOMAIN MapOf(m) : MapOf(m)[k] \in m /\ PathOf(MapOf(m)[k]) = k
<1>1. DOMAIN MapOf(m) = {PathOf(e) : e \in m} /\
      \A k \in DOMAIN MapOf(m) : MapOf(m)[k] = EntryAt(m, k)
  BY DEF MapOf
<1>2. ASSUME NEW k \in {PathOf(e) : e \in m} PROVE EntryAt(m, k) \in m /\ PathOf(EntryAt(m, k)) = k
  <2>1. \E e \in m : PathOf(e) = k
    OBVIOUS
  <2> HIDE DEF PathOf
  <2> QED
    BY <2>1 DEF EntryAt
<1> QED
  BY <1>1, <1>2 DEF IsManifest

\* A file and a directory never have the same path.
LEMMA PathsApart ==
    ASSUME NEW e, NEW g, IsEntry(e), IsEntry(g), PathOf(e) = PathOf(g)
    PROVE  e.type = g.type /\ e.path = g.path
<1>1. ASSUME NEW p \in Seq(Names), NEW q \in Seq(Names) PROVE Append(p, "/") # q
  <2> SUFFICES ASSUME Append(p, "/") = q PROVE FALSE
    OBVIOUS
  <2>1. Len(q) \in Nat /\ Len(p) \in Nat /\ Len(q) = Len(p) + 1 /\ q[Len(q)] = "/"
    BY AppendProperties
  <2>2. q[Len(q)] \in Names
    BY <2>1, ElementOfSeq
  <2> QED
    BY <2>1, <2>2, DiffAssumption
<1>2. ASSUME NEW p \in Seq(Names), NEW q \in Seq(Names), Append(p, "/") = Append(q, "/")
      PROVE  p = q
  <2>1. p \in Seq(Names \cup {"/"}) /\ q \in Seq(Names \cup {"/"})
    OBVIOUS
  <2>2. Front(Append(p, "/")) = p /\ Front(Append(q, "/")) = q
    BY <2>1, AppendParts
  <2> QED
    BY <1>2, <2>2
<1>3. "D" # "F"
  OBVIOUS
<1> QED
  BY <1>1, <1>2, <1>3 DEF IsEntry, PathOf

\* Entries under one path have the same content just when they are one, unless
\* they are directories, whose content is what their permissions are.
LEMMA ContentTold ==
    ASSUME NEW e, NEW g, IsEntry(e), IsEntry(g), PathOf(e) = PathOf(g)
    PROVE  /\ e.type = "F" => (same_content(e, g) <=> e = g)
           /\ e.type = "D" => (same_content(e, g) <=> e.perm = g.perm)
           /\ same_content(e, g) <=> same_content(g, e)
<1>1. e.type = g.type /\ e.path = g.path
  BY PathsApart
<1>2. ASSUME e.type = "F" PROVE same_content(e, g) <=> e = g
  <2>1. same_content(e, g) <=>
          <<e.type, e.perm, e.checksum, e.size>> = <<g.type, g.perm, g.checksum, g.size>>
    BY <1>1, <1>2 DEF same_content, fingerprint
  <2>2. same_content(e, g) <=> e.perm = g.perm /\ e.checksum = g.checksum /\ e.size = g.size
    BY <1>1, <2>1
  <2>3. ASSUME e.perm = g.perm, e.checksum = g.checksum, e.size = g.size PROVE e = g
    <3>1. \A x \in {"type", "perm", "checksum", "size", "path"} : e[x] = g[x]
      BY <1>1, <2>3
    <3> QED
      BY <3>1 DEF IsEntry
  <2> QED
    BY <2>2, <2>3
<1>3. ASSUME e.type = "D" PROVE same_content(e, g) <=> e.perm = g.perm
  <2>1. same_content(e, g) <=> <<e.type, e.perm>> = <<g.type, g.perm>>
    <3>1. "D" # "F"
      OBVIOUS
    <3> QED
      BY <1>1, <1>3, <3>1 DEF same_content, fingerprint
  <2> QED
    BY <1>1, <2>1
<1> QED
  BY <1>2, <1>3 DEF same_content

\* Uniting a side's first manifest, and its second.
LEMMA UniteFirst ==
    ASSUME NEW m, NEW oc
    PROVE  Unite([ok |-> TRUE, map |-> << >>], m, oc) = [ok |-> TRUE, map |-> MapOf(m)]
<1> PICK side : side = [ok |-> TRUE, map |-> << >>]
  OBVIOUS
<1> PICK at : at = MapOf(m)
  OBVIOUS
<1>1. side.ok /\ DOMAIN side.map = {}
  OBVIOUS
<1>2. DOMAIN at = {PathOf(e) : e \in m} /\ at = [k \in DOMAIN at |-> at[k]]
  BY DEF MapOf
<1> DEFINE clash == {k \in DOMAIN at \cap DOMAIN side.map : ~same_content(side.map[k], at[k])}
<1>3. clash = {}
  BY <1>1
<1>4. [k \in DOMAIN at \cup DOMAIN side.map |->
         IF k \in clash \/ k \notin DOMAIN side.map THEN at[k] ELSE side.map[k]] = at
  BY <1>1, <1>2, <1>3
<1>5. Unite(side, m, oc) =
        IF ~side.ok THEN side
        ELSE IF clash # {} /\ oc = "error" THEN Collision
        ELSE [ok |-> TRUE,
              map |-> [k \in DOMAIN at \cup DOMAIN side.map |->
                         IF k \in clash \/ k \notin DOMAIN side.map THEN at[k] ELSE side.map[k]]]
  BY DEF Unite
<1>6. Unite(side, m, oc) = [ok |-> TRUE, map |-> at]
  <2> HIDE DEF clash
  <2> PICK made : made = [k \in DOMAIN at \cup DOMAIN side.map |->
                          IF k \in clash \/ k \notin DOMAIN side.map THEN at[k] ELSE side.map[k]]
    OBVIOUS
  <2>1. Unite(side, m, oc) = IF ~side.ok THEN side
                             ELSE IF clash # {} /\ oc = "error" THEN Collision
                             ELSE [ok |-> TRUE, map |-> made]
    BY <1>5
  <2>2. made = at
    BY <1>4
  <2> QED
    BY <1>1, <1>3, <2>1, <2>2
<1> QED
  BY <1>6

IsUnion(f, ms, oc) ==
  f = [i \in 0..Len(ms) |-> IF i = 0 THEN [ok |-> TRUE, map |-> << >>]
                            ELSE Unite(f[i - 1], ms[i], oc)]

LEMMA UnionIs ==
    ASSUME NEW ms, NEW oc, NEW f, IsUnion(f, ms, oc)
    PROVE  \E g : IsUnion(g, ms, oc) /\ union_side(ms, oc) = g[Len(ms)]
<1> DEFINE G == CHOOSE g : IsUnion(g, ms, oc)
<1>1. IsUnion(G, ms, oc)
  OBVIOUS
<1>2. union_side(ms, oc) = G[Len(ms)]
  BY DEF union_side, IsUnion
<1> QED
  BY <1>1, <1>2

\* A side's map: of one manifest, of two where the second has its way.
Whole(m) == [ok |-> TRUE, map |-> MapOf(m)]

LEMMA UnionOne == ASSUME NEW m, NEW oc PROVE union_side(<<m>>, oc) = Whole(m)
<1> PICK ms : ms = <<m>>
  OBVIOUS
<1>1. Len(ms) = 1 /\ ms[1] = m
  OBVIOUS
<1> PICK f : f = [i \in 0..1 |-> IF i = 0 THEN [ok |-> TRUE, map |-> << >>] ELSE Whole(m)]
  OBVIOUS
<1>2. f[0] = [ok |-> TRUE, map |-> << >>] /\ f[1] = Whole(m)
  OBVIOUS
<1>3. Unite([ok |-> TRUE, map |-> << >>], m, oc) = Whole(m)
  BY UniteFirst DEF Whole
<1>4. IsUnion(f, ms, oc)
  <2> PICK g : g = [i \in 0..Len(ms) |-> IF i = 0 THEN [ok |-> TRUE, map |-> << >>]
                                         ELSE Unite(f[i - 1], ms[i], oc)]
    OBVIOUS
  <2>1. \A i \in 0..1 : i = 0 \/ i = 1
    OBVIOUS
  <2>2. g[0] = f[0]
    BY <1>1, <1>2
  <2>3. g[1] = f[1]
    <3>1. g[1] = Unite(f[0], m, oc)
      BY <1>1
    <3> QED
      BY <1>2, <1>3, <3>1
  <2>4. f = g
    BY <1>1, <2>1, <2>2, <2>3
  <2> QED
    BY <2>4 DEF IsUnion
<1>5. PICK g : IsUnion(g, ms, oc) /\ union_side(ms, oc) = g[Len(ms)]
  BY <1>4, UnionIs
<1>6. g[0] = [ok |-> TRUE, map |-> << >>] /\ g[1] = Unite(g[0], m, oc)
  <2>1. \A i \in 0..1 : g[i] = IF i = 0 THEN [ok |-> TRUE, map |-> << >>]
                               ELSE Unite(g[i - 1], ms[i], oc)
    BY <1>1, <1>5 DEF IsUnion
  <2> QED
    BY <1>1, <2>1
<1> QED
  BY <1>1, <1>3, <1>5, <1>6

LEMMA UnionTwo ==
    ASSUME NEW a, NEW b, NEW oc PROVE union_side(<<a, b>>, oc) = Unite(Whole(a), b, oc)
<1> PICK ms : ms = <<a, b>>
  OBVIOUS
<1> PICK base : base = [ok |-> TRUE, map |-> << >>]
  OBVIOUS
<1> PICK both : both = Unite(Whole(a), b, oc)
  OBVIOUS
<1>1. Len(ms) = 2 /\ ms[1] = a /\ ms[2] = b
  OBVIOUS
<1> PICK f : f = [i \in 0..2 |-> IF i = 0 THEN base ELSE IF i = 1 THEN Whole(a) ELSE both]
  OBVIOUS
<1>2. f[0] = base /\ f[1] = Whole(a) /\ f[2] = both
  OBVIOUS
<1>3. Unite(base, a, oc) = Whole(a)
  BY UniteFirst DEF Whole
<1>4. IsUnion(f, ms, oc)
  <2> PICK g : g = [i \in 0..Len(ms) |-> IF i = 0 THEN [ok |-> TRUE, map |-> << >>]
                                         ELSE Unite(f[i - 1], ms[i], oc)]
    OBVIOUS
  <2>1. \A i \in 0..2 : i = 0 \/ i = 1 \/ i = 2
    OBVIOUS
  <2>2. g[0] = f[0]
    BY <1>1, <1>2
  <2>3. g[1] = f[1]
    <3>1. g[1] = Unite(f[0], a, oc)
      BY <1>1
    <3> QED
      BY <1>2, <1>3, <3>1
  <2>4. g[2] = f[2]
    <3>1. g[2] = Unite(f[1], b, oc)
      BY <1>1
    <3> QED
      BY <1>2, <3>1
  <2>5. f = g
    BY <1>1, <2>1, <2>2, <2>3, <2>4
  <2> QED
    BY <2>5 DEF IsUnion
<1>5. PICK g : IsUnion(g, ms, oc) /\ union_side(ms, oc) = g[Len(ms)]
  BY <1>4, UnionIs
<1>6. g[0] = base /\ g[1] = Unite(g[0], a, oc) /\ g[2] = Unite(g[1], b, oc)
  <2>1. \A i \in 0..2 : g[i] = IF i = 0 THEN base ELSE Unite(g[i - 1], ms[i], oc)
    BY <1>1, <1>5 DEF IsUnion
  <2> QED
    BY <1>1, <2>1
<1> QED
  BY <1>1, <1>3, <1>5, <1>6

\* One store's manifests, pinned or not.
LEMMA ResolveOneStore ==
    ASSUME NEW ms, NEW id
    PROVE  resolve_side(<<ms>>, id) = IF id \in ToSet(ms) THEN <<id>> ELSE ms
<1> PICK one : one = IF id \in ToSet(ms) THEN <<id>> ELSE ms
  OBVIOUS
<1> PICK refs : refs = <<ms>>
  OBVIOUS
<1> PICK seqs : seqs = [i \in DOMAIN refs |-> IF id \in ToSet(refs[i]) THEN <<id>> ELSE refs[i]]
  OBVIOUS
<1>1. DOMAIN refs = 1..1 /\ refs[1] = ms
  OBVIOUS
<1>2. seqs = <<one>>
  BY <1>1
<1>3. Len(seqs) = 1 /\ seqs[1] = one
  BY <1>2
<1> DEFINE G == CHOOSE g : g = [i \in 1..Len(seqs) |-> IF i = 1 THEN seqs[i] ELSE g[i - 1] \o seqs[i]]
<1>4. FlattenSeq(seqs) = G[Len(seqs)]
  BY <1>3 DEF FlattenSeq
<1>5. \E g : g = [i \in 1..Len(seqs) |-> IF i = 1 THEN seqs[i] ELSE g[i - 1] \o seqs[i]]
  <2> PICK f : f = [i \in 1..1 |-> one]
    OBVIOUS
  <2> PICK g : g = [i \in 1..Len(seqs) |-> IF i = 1 THEN seqs[i] ELSE f[i - 1] \o seqs[i]]
    OBVIOUS
  <2>1. \A i \in 1..1 : i = 1
    OBVIOUS
  <2>2. g[1] = f[1]
    BY <1>3
  <2>3. f = g
    BY <1>3, <2>1, <2>2
  <2> QED
    BY <2>3
<1>6. G = [i \in 1..Len(seqs) |-> IF i = 1 THEN seqs[i] ELSE G[i - 1] \o seqs[i]]
  BY <1>5
<1> HIDE DEF G
<1>7. G[1] = one
  BY <1>3, <1>6
<1>8. resolve_side(refs, id) = FlattenSeq(seqs)
  BY DEF resolve_side
<1> QED
  BY <1>3, <1>4, <1>7, <1>8

LEMMA SidesResolved ==
    ASSUME NEW a, NEW b
    PROVE  /\ \A id : resolve_side(<<<<a>>>>, id) = <<a>>
           /\ resolve_side(<<<<a, b>>>>, a) = <<a>>
           /\ \A id : id \notin {a, b} => resolve_side(<<<<a, b>>>>, id) = <<a, b>>
<1>1. ToSet(<<a>>) = {a}
  BY DEF ToSet
<1>2. ToSet(<<a, b>>) = {a, b}
  <2> PICK s : s = <<a, b>>
    OBVIOUS
  <2>1. DOMAIN s = 1..2 /\ s[1] = a /\ s[2] = b
    OBVIOUS
  <2>2. {s[i] : i \in 1..2} = {a, b}
    BY <2>1
  <2> QED
    BY <2>1, <2>2 DEF ToSet
<1>3. ASSUME NEW id PROVE resolve_side(<<<<a>>>>, id) = <<a>>
  <2>1. id \in {a} => <<id>> = <<a>>
    OBVIOUS
  <2> QED
    BY <1>1, <2>1, ResolveOneStore
<1>4. resolve_side(<<<<a, b>>>>, a) = <<a>>
  BY <1>2, ResolveOneStore
<1>5. ASSUME NEW id, id \notin {a, b} PROVE resolve_side(<<<<a, b>>>>, id) = <<a, b>>
  BY <1>2, <1>5, ResolveOneStore
<1> QED
  BY <1>3, <1>4, <1>5

\* The files only one of two manifests has, and those they share.
OnlyIn(a, b) ==
  {k \in DOMAIN MapOf(a) : k \notin DOMAIN MapOf(b) /\ MapOf(a)[k].type = "F"}
Shared(a, b) == {k \in DOMAIN MapOf(a) \cap DOMAIN MapOf(b) : MapOf(a)[k].type = "F"}
Line(s, k) == [status |-> s, path |-> k]

LEMMA KeysTold ==
    ASSUME NEW a, NEW b, IsManifest(a), IsManifest(b),
           NEW k \in DOMAIN MapOf(a) \cap DOMAIN MapOf(b)
    PROVE  LET e == MapOf(a)[k]  g == MapOf(b)[k] IN
           /\ e \in a /\ g \in b /\ e.type = g.type /\ e.path = g.path /\ e.type \in {"D", "F"}
           /\ e.type = "F" => (same_content(e, g) <=> e = g)
           /\ e.type = "D" => (same_content(e, g) <=> e.perm = g.perm)
<1> PICK e : e = MapOf(a)[k]
  OBVIOUS
<1> PICK g : g = MapOf(b)[k]
  OBVIOUS
<1>1. e \in a /\ g \in b /\ PathOf(e) = k /\ PathOf(g) = k
  BY MapOfEntries
<1>2. IsEntry(e) /\ IsEntry(g)
  BY <1>1 DEF IsManifest
<1>3. e.type \in {"D", "F"}
  BY <1>2 DEF IsEntry
<1>4. e.type = g.type /\ e.path = g.path
  BY <1>1, <1>2, PathsApart
<1>5. /\ e.type = "F" => (same_content(e, g) <=> e = g)
      /\ e.type = "D" => (same_content(e, g) <=> e.perm = g.perm)
  BY <1>1, <1>2, ContentTold
<1> QED
  BY <1>1, <1>3, <1>4, <1>5

LEMMA SharedBoth ==
    ASSUME NEW a, NEW b, IsManifest(a), IsManifest(b) PROVE Shared(a, b) = Shared(b, a)
BY KeysTold DEF Shared

DiffLine(a, b, r) ==
  \/ \E k \in OnlyIn(a, b) : r = Line("D", k)
  \/ \E k \in OnlyIn(b, a) : r = Line("A", k)
  \/ \E k \in Shared(a, b) : MapOf(a)[k] # MapOf(b)[k] /\ r = Line("M", k)
SameLine(a, b, r) ==
  \E k \in Shared(a, b) : MapOf(a)[k] = MapOf(b)[k] /\ r = Line("=", k)

\* The rows of two manifests, told by what there is under each path.
LEMMA RowsTold ==
    ASSUME NEW a, NEW b, IsManifest(a), IsManifest(b), NEW all \in BOOLEAN, NEW r
    PROVE  r \in classify(MapOf(a), MapOf(b), all) <=>
             DiffLine(a, b, r) \/ (all /\ SameLine(a, b, r))
<1> PICK A : A = MapOf(a)
  OBVIOUS
<1> PICK B : B = MapOf(b)
  OBVIOUS
<1>0. "D" # "F" /\ "D" # "=" /\ "A" # "=" /\ "M" # "="
  OBVIOUS
<1>1. /\ \A k \in DOMAIN A : A[k].type \in {"D", "F"}
      /\ \A k \in DOMAIN B : B[k].type \in {"D", "F"}
  BY MapOfEntries DEF IsManifest, IsEntry
<1>2. ASSUME NEW k \in DOMAIN A \cap DOMAIN B
      PROVE  A[k].type = B[k].type /\ (A[k].type = "F" => (same_content(A[k], B[k]) <=> A[k] = B[k]))
  BY KeysTold
<1> DEFINE told(k) == \/ k \in DOMAIN A /\ A[k].type # "D"
                      \/ k \in DOMAIN B /\ B[k].type # "D"
<1>3. r \in classify(A, B, all) <=>
        \E k \in DOMAIN A \cup DOMAIN B :
          told(k) /\ (all \/ Status(A, B, k) # "=") /\ r = Line(Status(A, B, k), k)
  BY DEF classify, Row, Line
<1>4. ASSUME NEW k \in DOMAIN A \cup DOMAIN B
      PROVE  told(k) <=> k \in OnlyIn(a, b) \/ k \in OnlyIn(b, a) \/ k \in Shared(a, b)
  BY <1>0, <1>1, <1>2 DEF OnlyIn, Shared
<1>5. /\ OnlyIn(a, b) \subseteq DOMAIN A /\ OnlyIn(b, a) \subseteq DOMAIN B
      /\ Shared(a, b) \subseteq DOMAIN A \cap DOMAIN B
  BY DEF OnlyIn, Shared
<1>6. ASSUME NEW k \in OnlyIn(a, b) PROVE Status(A, B, k) = "D"
  BY DEF OnlyIn, Status
<1>7. ASSUME NEW k \in OnlyIn(b, a) PROVE Status(A, B, k) = "A"
  BY DEF OnlyIn, Status
<1>8. ASSUME NEW k \in Shared(a, b)
      PROVE  Status(A, B, k) = IF A[k] = B[k] THEN "=" ELSE "M"
  <2>1. k \in DOMAIN A \cap DOMAIN B /\ A[k].type = "F"
    BY DEF Shared
  <2> QED
    BY <1>2, <2>1 DEF Status
<1> HIDE DEF told
<1>9. r \in classify(A, B, all) <=>
        \/ \E k \in OnlyIn(a, b) : r = Line("D", k)
        \/ \E k \in OnlyIn(b, a) : r = Line("A", k)
        \/ \E k \in Shared(a, b) : A[k] # B[k] /\ r = Line("M", k)
        \/ all /\ \E k \in Shared(a, b) : A[k] = B[k] /\ r = Line("=", k)
  BY <1>0, <1>3, <1>4, <1>5, <1>6, <1>7, <1>8
<1> QED
  BY <1>9 DEF DiffLine, SameLine

\* What a run compares, one manifest a side.
LEMMA DiffOfIs ==
    ASSUME NEW a, NEW b, NEW all
    PROVE  /\ DiffOf(a, b, all).ok
           /\ DiffOf(a, b, all).rows = classify(MapOf(a), MapOf(b), all)
           /\ DiffOf(a, b, all).differs <=> \E r \in DiffOf(a, b, all).rows : r.status # "="
<1>1. resolve_side(<<<<a>>>>, {}) = <<a>> /\ resolve_side(<<<<b>>>>, {}) = <<b>>
  BY SidesResolved
<1>2. union_side(<<a>>, "error") = Whole(a) /\ union_side(<<b>>, "error") = Whole(b)
  BY UnionOne
<1>3. Whole(a).ok = TRUE /\ Whole(b).ok = TRUE /\ Whole(a).map = MapOf(a) /\ Whole(b).map = MapOf(b)
  BY DEF Whole
<1> PICK rows : rows = classify(MapOf(a), MapOf(b), all)
  OBVIOUS
<1>4. DiffOf(a, b, all) = [ok |-> Whole(a).ok /\ Whole(b).ok,
                           rows |-> IF Whole(a).ok /\ Whole(b).ok THEN rows ELSE {},
                           differs |-> \E r \in IF Whole(a).ok /\ Whole(b).ok THEN rows ELSE {} :
                                         r.status # "="]
  BY <1>1, <1>2, <1>3 DEF DiffOf, run_diff
<1>5. DiffOf(a, b, all).ok = (Whole(a).ok /\ Whole(b).ok)
  BY <1>4
<1>6. DiffOf(a, b, all).rows = rows
  BY <1>3, <1>4
<1>7. DiffOf(a, b, all).differs = \E r \in rows : r.status # "="
  BY <1>3, <1>4
<1> QED
  BY <1>3, <1>5, <1>6, <1>7

LEMMA RowsOfDiff ==
    ASSUME NEW a, NEW b, IsManifest(a), IsManifest(b)
    PROVE  /\ \A r : r \in DiffOf(a, b, FALSE).rows <=> DiffLine(a, b, r)
           /\ \A r : r \in DiffOf(a, b, TRUE).rows <=> DiffLine(a, b, r) \/ SameLine(a, b, r)
<1>1. \A all \in BOOLEAN : DiffOf(a, b, all).rows = classify(MapOf(a), MapOf(b), all)
  BY DiffOfIs
<1>2. \A all \in BOOLEAN : \A r : r \in classify(MapOf(a), MapOf(b), all) <=>
                                    DiffLine(a, b, r) \/ (all /\ SameLine(a, b, r))
  BY RowsTold
<1> QED
  BY <1>1, <1>2

LEMMA FileKeys ==
    ASSUME NEW a, IsManifest(a)
    PROVE  /\ \A e \in FileEntries(a) : /\ e \in a /\ PathOf(e) = e.path
                                        /\ e.path \in DOMAIN MapOf(a) /\ MapOf(a)[e.path] = e
           /\ \A k \in DOMAIN MapOf(a) : MapOf(a)[k].type = "F" =>
                MapOf(a)[k] \in FileEntries(a) /\ MapOf(a)[k].path = k
<1>0. "D" # "F"
  OBVIOUS
<1>1. \A e \in FileEntries(a) : e \in a /\ PathOf(e) = e.path
  BY <1>0 DEF FileEntries, PathOf
<1>2. \A k \in DOMAIN MapOf(a) : MapOf(a)[k].type = "F" =>
        MapOf(a)[k] \in FileEntries(a) /\ PathOf(MapOf(a)[k]) = k
  BY MapOfEntries DEF FileEntries
<1> QED
  BY <1>1, <1>2, MapOfEntries

\* What two snapshots differ in, and what they share.
LEMMA DiffersTold ==
    ASSUME NEW a, NEW b, IsManifest(a), IsManifest(b)
    PROVE  /\ DiffOf(a, b, FALSE).ok
           /\ DiffOf(a, b, FALSE).differs <=> FileEntries(a) # FileEntries(b)
           /\ a = b => DiffOf(a, b, FALSE).rows = {}
<1> PICK A : A = MapOf(a)
  OBVIOUS
<1> PICK B : B = MapOf(b)
  OBVIOUS
<1> PICK rows : rows = DiffOf(a, b, FALSE).rows
  OBVIOUS
<1>0. "A" # "=" /\ "D" # "=" /\ "M" # "="
  OBVIOUS
<1>1. DiffOf(a, b, FALSE).ok /\ (DiffOf(a, b, FALSE).differs <=> \E r \in rows : r.status # "=")
  BY DiffOfIs
<1>2. \A r : r \in rows <=> \/ \E k \in OnlyIn(a, b) : r = Line("D", k)
                            \/ \E k \in OnlyIn(b, a) : r = Line("A", k)
                            \/ \E k \in Shared(a, b) : A[k] # B[k] /\ r = Line("M", k)
  <2>1. \A r : r \in rows <=> DiffLine(a, b, r)
    BY RowsOfDiff
  <2> QED
    BY <2>1 DEF DiffLine
<1>3. \A s, k : Line(s, k).status = s
  BY DEF Line
<1>4. DiffOf(a, b, FALSE).differs <=> rows # {}
  <2>1. ASSUME NEW r \in rows PROVE r.status \in {"A", "D", "M"}
    <3>1. \E s \in {"A", "D", "M"} : \E k : r = Line(s, k)
      BY <1>2
    <3> QED
      BY <1>3, <3>1
  <2>2. DiffOf(a, b, FALSE).differs <=> \E r \in rows : r.status # "="
    BY <1>1
  <2> QED
    BY <1>0, <2>1, <2>2
<1>5. rows # {} <=> \/ OnlyIn(a, b) # {} \/ OnlyIn(b, a) # {}
                    \/ \E k \in Shared(a, b) : A[k] # B[k]
  BY <1>2
<1>6. ASSUME OnlyIn(a, b) = {}, OnlyIn(b, a) = {}, \A k \in Shared(a, b) : A[k] = B[k]
      PROVE  FileEntries(a) = FileEntries(b)
  <2>1. ASSUME NEW e \in FileEntries(a) PROVE e \in FileEntries(b)
    <3>1. e.path \in DOMAIN A /\ A[e.path] = e /\ e.type = "F"
      BY FileKeys DEF FileEntries
    <3>2. e.path \in Shared(a, b)
      BY <1>6, <3>1 DEF OnlyIn, Shared
    <3>3. e.path \in DOMAIN B /\ B[e.path] = e
      BY <1>6, <3>1, <3>2 DEF Shared
    <3> QED
      BY <3>1, <3>3, FileKeys
  <2>2. ASSUME NEW e \in FileEntries(b) PROVE e \in FileEntries(a)
    <3>1. e.path \in DOMAIN B /\ B[e.path] = e /\ e.type = "F"
      BY FileKeys DEF FileEntries
    <3>2. e.path \in Shared(b, a)
      BY <1>6, <3>1 DEF OnlyIn, Shared
    <3>3. e.path \in DOMAIN A /\ A[e.path] = e
      BY <1>6, <3>1, <3>2, SharedBoth DEF Shared
    <3> QED
      BY <3>1, <3>3, FileKeys
  <2> QED
    BY <2>1, <2>2
<1>7. ASSUME FileEntries(a) = FileEntries(b)
      PROVE  OnlyIn(a, b) = {} /\ OnlyIn(b, a) = {} /\ \A k \in Shared(a, b) : A[k] = B[k]
  <2>1. ASSUME NEW k \in DOMAIN A, A[k].type = "F" PROVE k \in DOMAIN B /\ B[k] = A[k]
    <3>1. A[k] \in FileEntries(b) /\ A[k].path = k
      BY <1>7, <2>1, FileKeys
    <3> QED
      BY <3>1, FileKeys
  <2>2. ASSUME NEW k \in DOMAIN B, B[k].type = "F" PROVE k \in DOMAIN A /\ A[k] = B[k]
    <3>1. B[k] \in FileEntries(a) /\ B[k].path = k
      BY <1>7, <2>2, FileKeys
    <3> QED
      BY <3>1, FileKeys
  <2> QED
    BY <2>1, <2>2 DEF OnlyIn, Shared
<1>8. a = b => FileEntries(a) = FileEntries(b)
  OBVIOUS
<1> QED
  BY <1>1, <1>4, <1>5, <1>6, <1>7, <1>8

\* Read backwards; and with what is shared.
LEMMA DiffTurned ==
    ASSUME NEW a, NEW b, IsManifest(a), IsManifest(b)
    PROVE  DiffOf(b, a, FALSE).rows =
             {[r EXCEPT !.status = Flip(r.status)] : r \in DiffOf(a, b, FALSE).rows}
<1> PICK A : A = MapOf(a)
  OBVIOUS
<1> PICK B : B = MapOf(b)
  OBVIOUS
<1> PICK there : there = DiffOf(a, b, FALSE).rows
  OBVIOUS
<1> PICK back : back = DiffOf(b, a, FALSE).rows
  OBVIOUS
<1>1. \A r : r \in there <=> \/ \E k \in OnlyIn(a, b) : r = Line("D", k)
                             \/ \E k \in OnlyIn(b, a) : r = Line("A", k)
                             \/ \E k \in Shared(a, b) : A[k] # B[k] /\ r = Line("M", k)
  <2>1. \A r : r \in there <=> DiffLine(a, b, r)
    BY RowsOfDiff
  <2> QED
    BY <2>1 DEF DiffLine
<1>2. \A r : r \in back <=> \/ \E k \in OnlyIn(b, a) : r = Line("D", k)
                            \/ \E k \in OnlyIn(a, b) : r = Line("A", k)
                            \/ \E k \in Shared(a, b) : A[k] # B[k] /\ r = Line("M", k)
  <2>1. \A r : r \in back <=> DiffLine(b, a, r)
    BY RowsOfDiff
  <2>2. Shared(b, a) = Shared(a, b)
    BY SharedBoth
  <2> QED
    BY <2>1, <2>2 DEF DiffLine
<1> DEFINE turned(r) == [r EXCEPT !.status = Flip(r.status)]
<1>3. \A k : /\ turned(Line("A", k)) = Line("D", k) /\ turned(Line("D", k)) = Line("A", k)
             /\ turned(Line("M", k)) = Line("M", k)
  BY DEF Line, Flip
<1> HIDE DEF turned
<1>4. ASSUME NEW r \in there PROVE turned(r) \in back
  <2>1. CASE \E k \in OnlyIn(a, b) : r = Line("D", k)
    BY <1>2, <1>3, <2>1
  <2>2. CASE \E k \in OnlyIn(b, a) : r = Line("A", k)
    BY <1>2, <1>3, <2>2
  <2>3. CASE \E k \in Shared(a, b) : A[k] # B[k] /\ r = Line("M", k)
    BY <1>2, <1>3, <2>3
  <2> QED
    BY <1>1, <2>1, <2>2, <2>3
<1>5. ASSUME NEW r \in back PROVE \E x \in there : r = turned(x)
  <2>1. CASE \E k \in OnlyIn(b, a) : r = Line("D", k)
    <3> PICK k \in OnlyIn(b, a) : r = Line("D", k)
      BY <2>1
    <3>1. Line("A", k) \in there
      BY <1>1
    <3> QED
      BY <1>3, <3>1
  <2>2. CASE \E k \in OnlyIn(a, b) : r = Line("A", k)
    <3> PICK k \in OnlyIn(a, b) : r = Line("A", k)
      BY <2>2
    <3>1. Line("D", k) \in there
      BY <1>1
    <3> QED
      BY <1>3, <3>1
  <2>3. CASE \E k \in Shared(a, b) : A[k] # B[k] /\ r = Line("M", k)
    <3> PICK k \in Shared(a, b) : A[k] # B[k] /\ r = Line("M", k)
      BY <2>3
    <3>1. Line("M", k) \in there
      BY <1>1
    <3> QED
      BY <1>3, <3>1
  <2> QED
    BY <1>2, <2>1, <2>2, <2>3
<1>6. back = {turned(r) : r \in there}
  BY <1>4, <1>5
<1> QED
  BY <1>6 DEF turned

LEMMA DiffAll ==
    ASSUME NEW a, NEW b, IsManifest(a), IsManifest(b)
    PROVE  DiffOf(a, b, TRUE).rows = DiffOf(a, b, FALSE).rows \cup
             {[status |-> "=", path |-> e.path] : e \in FileEntries(a \cap b)}
<1> PICK A : A = MapOf(a)
  OBVIOUS
<1> PICK B : B = MapOf(b)
  OBVIOUS
<1>1. \A r : r \in DiffOf(a, b, TRUE).rows <=>
        \/ r \in DiffOf(a, b, FALSE).rows
        \/ \E k \in Shared(a, b) : A[k] = B[k] /\ r = Line("=", k)
  BY RowsOfDiff DEF SameLine
<1>2. ASSUME NEW k \in Shared(a, b), A[k] = B[k]
      PROVE  \E e \in FileEntries(a \cap b) : e.path = k
  <2>1. /\ k \in DOMAIN A /\ A[k].type = "F" /\ k \in DOMAIN B /\ B[k].type = "F"
    BY <1>2 DEF Shared
  <2>2. A[k] \in a /\ A[k] \in b /\ A[k].path = k
    BY <1>2, <2>1, FileKeys DEF FileEntries
  <2> QED
    BY <2>1, <2>2 DEF FileEntries
<1>3. ASSUME NEW e \in FileEntries(a \cap b)
      PROVE  e.path \in Shared(a, b) /\ A[e.path] = B[e.path]
  <2>1. e \in FileEntries(a) /\ e \in FileEntries(b) /\ e.type = "F"
    BY DEF FileEntries
  <2> QED
    BY <2>1, FileKeys DEF Shared
<1>4. \A r : (\E k \in Shared(a, b) : A[k] = B[k] /\ r = Line("=", k)) <=>
             (\E e \in FileEntries(a \cap b) : r = Line("=", e.path))
  BY <1>2, <1>3
<1>5. {[status |-> "=", path |-> e.path] : e \in FileEntries(a \cap b)} =
      {Line("=", e.path) : e \in FileEntries(a \cap b)}
  BY DEF Line
<1> QED
  BY <1>1, <1>4, <1>5

\* A side of two where the second has its way.
LastWins(a, b, last) ==
  /\ last.ok = TRUE /\ DOMAIN last.map = DOMAIN MapOf(a) \cup DOMAIN MapOf(b)
  /\ \A k \in DOMAIN MapOf(a) \ DOMAIN MapOf(b) : last.map[k] = MapOf(a)[k]
  /\ \A k \in DOMAIN MapOf(b) : /\ same_content(last.map[k], MapOf(b)[k])
                                /\ last.map[k].type = MapOf(b)[k].type

\* Two manifests on one side: they collide where they differ on a file they
\* share; the last one wins there.
LEMMA UnitedTold ==
    ASSUME NEW a, NEW b, IsManifest(a), IsManifest(b), DirsAgree(a, b)
    PROVE  /\ (\E k \in Shared(a, b) : MapOf(a)[k] # MapOf(b)[k]) =>
                Unite(Whole(a), b, "error") = Collision
           /\ ~(\E k \in Shared(a, b) : MapOf(a)[k] # MapOf(b)[k]) =>
                Unite(Whole(a), b, "error").ok = TRUE
           /\ LastWins(a, b, Unite(Whole(a), b, "last-wins"))
<1> PICK A : A = MapOf(a)
  OBVIOUS
<1> PICK B : B = MapOf(b)
  OBVIOUS
<1> PICK side : side = Whole(a)
  OBVIOUS
<1>1. side.ok = TRUE /\ side.map = A
  BY DEF Whole
<1>2. ASSUME NEW k \in DOMAIN A \cap DOMAIN B
      PROVE  /\ A[k].type = B[k].type
             /\ ~same_content(A[k], B[k]) <=> k \in Shared(a, b) /\ A[k] # B[k]
  <2>1. /\ A[k] \in a /\ B[k] \in b /\ A[k].type = B[k].type /\ A[k].path = B[k].path
        /\ A[k].type \in {"D", "F"}
        /\ A[k].type = "F" => (same_content(A[k], B[k]) <=> A[k] = B[k])
        /\ A[k].type = "D" => (same_content(A[k], B[k]) <=> A[k].perm = B[k].perm)
    BY KeysTold
  <2>2. A[k].type = "D" => same_content(A[k], B[k])
    BY <2>1 DEF DirsAgree
  <2>3. k \in Shared(a, b) <=> A[k].type = "F"
    BY DEF Shared
  <2>4. "D" # "F"
    OBVIOUS
  <2> QED
    BY <2>1, <2>2, <2>3, <2>4
<1> PICK clash : clash = {k \in DOMAIN B \cap DOMAIN A : ~same_content(A[k], B[k])}
  OBVIOUS
<1>3. clash # {} <=> \E k \in Shared(a, b) : A[k] # B[k]
  <2>1. Shared(a, b) \subseteq DOMAIN B \cap DOMAIN A
    BY DEF Shared
  <2> QED
    BY <1>2, <2>1
<1> PICK made : made = [k \in DOMAIN B \cup DOMAIN A |->
                          IF k \in clash \/ k \notin DOMAIN A THEN B[k] ELSE A[k]]
  OBVIOUS
<1>4. ASSUME NEW oc
      PROVE  Unite(side, b, oc) = IF clash # {} /\ oc = "error" THEN Collision
                                  ELSE [ok |-> TRUE, map |-> made]
  <2>1. Unite(side, b, oc) =
          IF ~side.ok THEN side
          ELSE IF clash # {} /\ oc = "error" THEN Collision
          ELSE [ok |-> TRUE,
                map |-> [k \in DOMAIN B \cup DOMAIN A |->
                           IF k \in clash \/ k \notin DOMAIN A THEN B[k] ELSE A[k]]]
    BY <1>1 DEF Unite
  <2> QED
    BY <1>1, <2>1
<1>5. Unite(side, b, "error") = IF clash # {} THEN Collision ELSE [ok |-> TRUE, map |-> made]
  BY <1>4
<1>6. Unite(side, b, "last-wins") = [ok |-> TRUE, map |-> made]
  <2>1. "last-wins" # "error"
    OBVIOUS
  <2> QED
    BY <1>4, <2>1
<1>7. /\ DOMAIN made = DOMAIN A \cup DOMAIN B
      /\ \A k \in DOMAIN A \ DOMAIN B : made[k] = A[k]
  BY <1>3
<1>8. ASSUME NEW k \in DOMAIN B
      PROVE  same_content(made[k], B[k]) /\ made[k].type = B[k].type
  <2>1. CASE k \in clash \/ k \notin DOMAIN A
    BY <2>1 DEF same_content
  <2>2. CASE ~(k \in clash \/ k \notin DOMAIN A)
    BY <1>2, <2>2
  <2> QED
    BY <2>1, <2>2
<1>9. (clash = {} => Unite(side, b, "error").ok = TRUE) /\
      (clash # {} => Unite(side, b, "error") = Collision)
  BY <1>5
<1> PICK last : last = Unite(side, b, "last-wins")
  OBVIOUS
<1>10. last.ok = TRUE /\ last.map = made
  BY <1>6
<1>11. LastWins(a, b, last)
  BY <1>7, <1>8, <1>10 DEF LastWins
<1> QED
  BY <1>3, <1>9, <1>11

\* What a run compares, whatever its sides are.
Compares(d, f, t) ==
  /\ d.ok = (f.ok /\ t.ok)
  /\ (f.ok = TRUE /\ t.ok = TRUE) => d.rows = classify(f.map, t.map, FALSE)

LEMMA RunDiffIs ==
    ASSUME NEW from, NEW to, NEW id, NEW oc
    PROVE  Compares(run_diff(from, to, id, FALSE, oc),
                    union_side(resolve_side(from, id), oc),
                    union_side(resolve_side(to, id), oc))
<1> PICK f : f = union_side(resolve_side(from, id), oc)
  OBVIOUS
<1> PICK t : t = union_side(resolve_side(to, id), oc)
  OBVIOUS
<1> PICK all : all = FALSE
  OBVIOUS
<1> PICK rows : rows = IF f.ok /\ t.ok THEN classify(f.map, t.map, all) ELSE {}
  OBVIOUS
<1> PICK ok : ok = (f.ok /\ t.ok)
  OBVIOUS
<1> PICK differs : differs = \E r \in rows : r.status # "="
  OBVIOUS
<1>1. run_diff(from, to, id, all, oc) = [ok |-> ok, rows |-> rows, differs |-> differs]
  BY DEF run_diff
<1>2. run_diff(from, to, id, all, oc).ok = ok
  BY <1>1
<1>3. run_diff(from, to, id, all, oc).rows = rows
  BY <1>1
<1> QED
  BY <1>2, <1>3 DEF Compares

\* Modified rows are those of the files that collide.
LEMMA ModifiedTold ==
    ASSUME NEW a, NEW b, IsManifest(a), IsManifest(b)
    PROVE  /\ (\E r \in DiffOf(a, b, FALSE).rows : r.status = "M") <=>
                \E k \in Shared(a, b) : MapOf(a)[k] # MapOf(b)[k]
           /\ \A r : r \in DiffOf(a, b, FALSE).rows /\ r.status = "D" <=>
                       \E k \in OnlyIn(a, b) : r = Line("D", k)
<1>1. \A r : r \in DiffOf(a, b, FALSE).rows <=> DiffLine(a, b, r)
  BY RowsOfDiff
<1>2. \A s, k : Line(s, k).status = s
  BY DEF Line
<1>3. "D" # "M" /\ "A" # "M" /\ "D" # "A"
  OBVIOUS
<1>4. ASSUME NEW r, DiffLine(a, b, r), r.status = "M"
      PROVE  \E k \in Shared(a, b) : MapOf(a)[k] # MapOf(b)[k]
  <2>1. ~\E k \in OnlyIn(a, b) : r = Line("D", k)
    BY <1>2, <1>3, <1>4
  <2>2. ~\E k \in OnlyIn(b, a) : r = Line("A", k)
    BY <1>2, <1>3, <1>4
  <2> QED
    BY <1>4, <2>1, <2>2 DEF DiffLine
<1>5. ASSUME NEW k \in Shared(a, b), MapOf(a)[k] # MapOf(b)[k]
      PROVE  \E r \in DiffOf(a, b, FALSE).rows : r.status = "M"
  <2>1. DiffLine(a, b, Line("M", k))
    BY <1>5 DEF DiffLine
  <2>2. Line("M", k) \in DiffOf(a, b, FALSE).rows
    BY <1>1, <2>1
  <2> QED
    BY <1>2, <2>2
<1>6. ASSUME NEW r, DiffLine(a, b, r), r.status = "D"
      PROVE  \E k \in OnlyIn(a, b) : r = Line("D", k)
  <2>1. ~\E k \in Shared(a, b) : r = Line("M", k)
    BY <1>2, <1>3, <1>6
  <2>2. ~\E k \in OnlyIn(b, a) : r = Line("A", k)
    BY <1>2, <1>3, <1>6
  <2> QED
    BY <1>6, <2>1, <2>2 DEF DiffLine
<1>7. ASSUME NEW r, \E k \in OnlyIn(a, b) : r = Line("D", k)
      PROVE  DiffLine(a, b, r) /\ r.status = "D"
  BY <1>2, <1>7 DEF DiffLine
<1> QED
  BY <1>1, <1>4, <1>5, <1>6, <1>7

(* The rows without --all are the changed paths at which a side has a file   *)
(* (classify).                                                               *)
LEMMA ChangesTold ==
  ASSUME NEW from, NEW to
  PROVE  \A r : r \in classify(from, to, FALSE) <=>
           \E k \in DOMAIN from \cup DOMAIN to :
             /\ \/ k \in DOMAIN from /\ from[k].type # "D"
                \/ k \in DOMAIN to /\ to[k].type # "D"
             /\ Status(from, to, k) # "=" /\ r = Line(Status(from, to, k), k)
  BY DEF classify, Row, Line

(* A side of two stores against one of them: any file the two disagree on    *)
(* refuses the union, with last-wins only the other's own files are left,    *)
(* and an id pins the side to the store that holds it (run_diff).            *)
LEMMA PairTold ==
    ASSUME NEW a, NEW b, IsManifest(a), IsManifest(b), DirsAgree(a, b)
    PROVE  LET pair == <<<<a, b>>>>
               plain == DiffOf(a, b, FALSE)
               last == run_diff(pair, <<<<b>>>>, {}, FALSE, "last-wins")
           IN  /\ run_diff(pair, <<<<b>>>>, {}, FALSE, "error").ok =
                    ~\E r \in plain.rows : r.status = "M"
               /\ last.ok /\ last.rows = {r \in plain.rows : r.status = "D"}
               /\ run_diff(pair, <<<<b>>>>, a, FALSE, "error") = plain
<1> DEFINE A == MapOf(a)
<1> DEFINE B == MapOf(b)
<1> DEFINE plain == DiffOf(a, b, FALSE)
<1> DEFINE t == Whole(b)
<1>0. t.ok = TRUE /\ t.map = B
  BY DEF Whole
<1>1. {} \notin {a, b}
  BY DEF IsManifest
<1>2. /\ \A id : resolve_side(<<<<b>>>>, id) = <<b>>
      /\ resolve_side(<<<<a, b>>>>, {}) = <<a, b>>
      /\ resolve_side(<<<<a, b>>>>, a) = <<a>> /\ resolve_side(<<<<a>>>>, {}) = <<a>>
  BY <1>1, SidesResolved
<1>3. \A oc : union_side(<<b>>, oc) = t /\ union_side(<<a, b>>, oc) = Unite(Whole(a), b, oc)
  BY UnionOne, UnionTwo
<1>4. run_diff(<<<<a, b>>>>, <<<<b>>>>, {}, FALSE, "error").ok = ~\E r \in plain.rows : r.status = "M"
  <2> DEFINE g == Unite(Whole(a), b, "error")
  <2>1. run_diff(<<<<a, b>>>>, <<<<b>>>>, {}, FALSE, "error").ok = (g.ok /\ t.ok)
    <3>1. union_side(resolve_side(<<<<a, b>>>>, {}), "error") = g
      BY <1>2, <1>3
    <3>2. union_side(resolve_side(<<<<b>>>>, {}), "error") = t
      BY <1>2, <1>3
    <3>3. Compares(run_diff(<<<<a, b>>>>, <<<<b>>>>, {}, FALSE, "error"),
                   union_side(resolve_side(<<<<a, b>>>>, {}), "error"),
                   union_side(resolve_side(<<<<b>>>>, {}), "error"))
      BY RunDiffIs, Zenon
    <3>4. Compares(run_diff(<<<<a, b>>>>, <<<<b>>>>, {}, FALSE, "error"), g, t)
      BY <3>1, <3>2, <3>3, Zenon
    <3> QED
      BY <3>4 DEF Compares
  <2>2. /\ (\E k \in Shared(a, b) : A[k] # B[k]) => g = Collision
        /\ ~(\E k \in Shared(a, b) : A[k] # B[k]) => g.ok = TRUE
    BY UnitedTold, ZenonT(60)
  <2>3. Collision.ok = FALSE
    BY DEF Collision
  <2>4. (\E r \in plain.rows : r.status = "M") <=> \E k \in Shared(a, b) : A[k] # B[k]
    BY ModifiedTold, ZenonT(60)
  <2> HIDE DEF g
  <2>5. CASE \E k \in Shared(a, b) : A[k] # B[k]
    <3>1. g.ok = FALSE
      BY <2>2, <2>3, <2>5
    <3> QED
      BY <2>1, <2>4, <2>5, <3>1
  <2>6. CASE ~\E k \in Shared(a, b) : A[k] # B[k]
    <3>1. g.ok = TRUE
      BY <2>2, <2>6
    <3> QED
      BY <1>0, <2>1, <2>4, <2>6, <3>1
  <2> QED
    BY <2>5, <2>6
<1> DEFINE f == Unite(Whole(a), b, "last-wins")
<1> DEFINE last == run_diff(<<<<a, b>>>>, <<<<b>>>>, {}, FALSE, "last-wins")
<1> DEFINE u == f.map
<1>5. /\ f.ok = TRUE /\ DOMAIN u = DOMAIN A \cup DOMAIN B
      /\ \A k \in DOMAIN A \ DOMAIN B : u[k] = A[k]
      /\ \A k \in DOMAIN B : same_content(u[k], B[k]) /\ u[k].type = B[k].type
  <2>1. LastWins(a, b, f)
    BY UnitedTold
  <2> HIDE DEF f
  <2> QED
    BY <2>1 DEF LastWins
<1>6. last.ok = (f.ok /\ t.ok) /\ last.rows = classify(u, B, FALSE)
  <2>1. /\ last.ok = (f.ok /\ t.ok)
        /\ f.ok = TRUE /\ t.ok = TRUE => last.rows = classify(f.map, t.map, FALSE)
    <3>1. union_side(resolve_side(<<<<a, b>>>>, {}), "last-wins") = f
      BY <1>2, <1>3
    <3>2. union_side(resolve_side(<<<<b>>>>, {}), "last-wins") = t
      BY <1>2, <1>3
    <3>3. Compares(last, union_side(resolve_side(<<<<a, b>>>>, {}), "last-wins"),
                   union_side(resolve_side(<<<<b>>>>, {}), "last-wins"))
      BY RunDiffIs, Zenon
    <3>4. Compares(last, f, t)
      BY <3>1, <3>2, <3>3, Zenon
    <3> QED
      BY <3>4 DEF Compares
  <2> QED
    BY <1>0, <1>5, <2>1
<1>7. \A r : r \in classify(u, B, FALSE) <=> \E k \in OnlyIn(a, b) : r = Line("D", k)
  <2>0. "D" # "F" /\ "D" # "="
    OBVIOUS
  <2>1. \A k \in DOMAIN A : A[k].type \in {"D", "F"}
    BY MapOfEntries DEF IsManifest, IsEntry
  <2>2. \A k \in DOMAIN B : Status(u, B, k) = "="
    BY <1>5 DEF Status
  <2>3. \A k \in DOMAIN A \ DOMAIN B : Status(u, B, k) = "D"
    BY <1>5 DEF Status
  <2>4. \A k \in DOMAIN A \ DOMAIN B : u[k].type # "D" <=> k \in OnlyIn(a, b)
    BY <1>5, <2>0, <2>1 DEF OnlyIn
  <2>5. OnlyIn(a, b) \subseteq DOMAIN A \ DOMAIN B
    BY DEF OnlyIn
  <2>6. \A r : r \in classify(u, B, FALSE) <=>
          \E k \in DOMAIN u \cup DOMAIN B :
            /\ (k \in DOMAIN u /\ u[k].type # "D") \/ (k \in DOMAIN B /\ B[k].type # "D")
            /\ Status(u, B, k) # "=" /\ r = Line(Status(u, B, k), k)
    BY ChangesTold, Zenon
  <2>7. DOMAIN u \cup DOMAIN B = DOMAIN A \cup DOMAIN B
    BY <1>5
  <2> HIDE DEF u, A, B
  <2>8. ASSUME NEW r, r \in classify(u, B, FALSE)
        PROVE  \E k \in OnlyIn(a, b) : r = Line("D", k)
    <3>1. PICK k \in DOMAIN u \cup DOMAIN B :
            /\ (k \in DOMAIN u /\ u[k].type # "D") \/ (k \in DOMAIN B /\ B[k].type # "D")
            /\ Status(u, B, k) # "=" /\ r = Line(Status(u, B, k), k)
      BY <2>6, <2>8, Zenon
    <3>2. k \in DOMAIN A \ DOMAIN B
      BY <2>2, <2>7, <3>1
    <3>3. u[k].type # "D" /\ Status(u, B, k) = "D"
      BY <2>3, <3>1, <3>2
    <3> QED
      BY <2>4, <3>1, <3>2, <3>3
  <2>9. ASSUME NEW r, NEW k \in OnlyIn(a, b), r = Line("D", k)
        PROVE  r \in classify(u, B, FALSE)
    <3>1. k \in DOMAIN A \ DOMAIN B
      BY <2>5
    <3>2. k \in DOMAIN u /\ u[k].type # "D" /\ Status(u, B, k) = "D"
      BY <1>5, <2>3, <2>4, <3>1
    <3>3. Status(u, B, k) # "="
      BY <3>2
    <3> QED
      BY <2>6, <2>9, <3>2, <3>3
  <2> QED
    BY <2>8, <2>9
<1>8. last.rows = {r \in plain.rows : r.status = "D"}
  <2>1. \A r : r \in plain.rows /\ r.status = "D" <=> \E k \in OnlyIn(a, b) : r = Line("D", k)
    BY ModifiedTold, ZenonT(60)
  <2> QED
    BY <1>6, <1>7, <2>1
<1>9. run_diff(<<<<a, b>>>>, <<<<b>>>>, a, FALSE, "error") = plain
  BY <1>2 DEF DiffOf, run_diff
<1>10. last.ok
  BY <1>0, <1>5, <1>6
<1> QED
  BY <1>4, <1>8, <1>9, <1>10

-----------------------------------------------------------------------------
(* Directories stay: other programs rewrite and remove files alone.        *)

\* A recorded directory is still where it was found, with its permissions.
DirFound(d) ==
  Stat(d).res = "ok" /\ Stat(d).node.kind = "dir" /\ dirs[d].perm = Lstat(d).node.perm
RootInPlace == << >> \in DOMAIN tree /\ tree[<< >>].kind = "dir"
DirsFound == RootInPlace /\ \A d \in DOMAIN dirs : DirFound(d)
RootKept == phase \in {"discover", "hash"} => << >> \in DOMAIN dirs

\* A finished manifest has one entry a path, and the recorded directories'.
ManifestFound ==
  phase = "done" =>
    /\ IsManifest(manifest)
    /\ \A e \in manifest : e.type = "D" => e.path \in DOMAIN dirs /\ e.perm = dirs[e.path].perm

Landmarks == DirsFound /\ RootKept /\ ManifestFound

OnlyFiles(t, u) ==
  /\ DOMAIN u \subseteq DOMAIN t
  /\ \A p \in DOMAIN t : t[p].kind # "file" => p \in DOMAIN u /\ u[p] = t[p]

\* The way to a directory stays open.
LEMMA LookUpStays ==
    ASSUME NEW t, NEW u, OnlyFiles(t, u), NEW q, LookUp(t, q) = "ok", t[q].kind = "dir"
    PROVE  q \in DOMAIN t /\ q \in DOMAIN u /\ u[q] = t[q] /\ LookUp(u, q) = "ok"
<1>0. "Denied" # "ok" /\ "NotDirectory" # "ok" /\ "NotFound" # "ok" /\ "dir" # "file"
  OBVIOUS
<1>1. /\ q \in DOMAIN t
      /\ \A d \in (Prefixes(q) \ {q}) \cap DOMAIN t : ~Shut(t[d]) /\ t[d].kind = "dir"
  BY <1>0, Zenon DEF LookUp
<1>2. q \in DOMAIN u /\ u[q] = t[q]
  BY <1>0, <1>1 DEF OnlyFiles
<1>3. \A d \in (Prefixes(q) \ {q}) \cap DOMAIN u : ~Shut(u[d]) /\ u[d].kind = "dir"
  BY <1>0, <1>1 DEF OnlyFiles
<1> QED
  BY <1>1, <1>2, <1>3 DEF LookUp

\* One name of a lookup that leads to a directory.
LEMMA FollowStays ==
    ASSUME NEW t, NEW u, OnlyFiles(t, u), NEW o, NEW v, NEW st, IsState(st), NEW n,
           st.res = "ok", st.node.kind = "dir",
           Follow(t, o, st, n).res = "ok", Follow(t, o, st, n).node.kind = "dir"
    PROVE  /\ Follow(u, v, st, n) = Follow(t, o, st, n)
           /\ ~Shut(st.node) /\ Append(st.at, n) \in DOMAIN t
           /\ Append(st.at, n) \in DOMAIN u /\ u[Append(st.at, n)] = t[Append(st.at, n)]
<1> PICK p : p = Append(st.at, n)
  OBVIOUS
<1> PICK r : r = Follow(t, o, st, n)
  OBVIOUS
<1>0. /\ "NotFound" # "ok" /\ "Loop" # "ok" /\ "Denied" # "ok"
      /\ "dir" # "file" /\ "link" # "file" /\ "dir" # "link"
  OBVIOUS
<1>4. ~Shut(st.node)
  <2> SUFFICES ASSUME Shut(st.node) PROVE FALSE
    OBVIOUS
  <2>1. r = [st EXCEPT !.res = "Denied"]
    BY DEF Follow
  <2> QED
    BY <1>0, <2>1 DEF IsState
<1>1. p \in DOMAIN t
  <2> SUFFICES ASSUME p \notin DOMAIN t PROVE FALSE
    OBVIOUS
  <2>1. r = [st EXCEPT !.res = "NotFound"]
    BY <1>4 DEF Follow
  <2> QED
    BY <1>0, <2>1 DEF IsState
<1>2. CASE t[p].kind # "link"
  <2>1. r = [st EXCEPT !.at = p, !.node = t[p]]
    BY <1>1, <1>2, <1>4 DEF Follow
  <2>2. t[p].kind = "dir"
    BY <2>1 DEF IsState
  <2>3. p \in DOMAIN u /\ u[p] = t[p]
    BY <1>0, <1>1, <2>2 DEF OnlyFiles
  <2>4. Follow(u, v, st, n) = [st EXCEPT !.at = p, !.node = u[p]]
    BY <1>2, <1>4, <2>3 DEF Follow
  <2> QED
    BY <1>1, <1>4, <2>1, <2>3, <2>4
<1>3. CASE t[p].kind = "link"
  <2>1. p \in DOMAIN u /\ u[p] = t[p]
    BY <1>0, <1>1, <1>3 DEF OnlyFiles
  <2>2. st.links # MaxLinks
    <3> SUFFICES ASSUME st.links = MaxLinks PROVE FALSE
      OBVIOUS
    <3>1. r = [st EXCEPT !.res = "Loop"]
      BY <1>1, <1>3, <1>4 DEF Follow
    <3> QED
      BY <1>0, <3>1 DEF IsState
  <2> PICK to : to = t[p].to
    OBVIOUS
  <2>3. CASE to.at = "tree" /\ LookUp(t, to.path) = "ok"
    <3> PICK x : x = to.path
      OBVIOUS
    <3>1. r = [st EXCEPT !.at = x, !.node = t[x], !.links = @ + 1]
      BY <1>1, <1>3, <1>4, <2>2, <2>3 DEF Follow
    <3>2. t[x].kind = "dir"
      BY <3>1 DEF IsState
    <3>3. x \in DOMAIN u /\ u[x] = t[x] /\ LookUp(u, x) = "ok"
      BY <2>3, <3>2, LookUpStays
    <3>4. Follow(u, v, st, n) = [st EXCEPT !.at = x, !.node = u[x], !.links = @ + 1]
      BY <1>3, <1>4, <2>1, <2>2, <2>3, <3>3 DEF Follow
    <3> QED
      BY <1>1, <1>4, <2>1, <3>1, <3>3, <3>4
  <2>4. CASE \E e : e # "ok" /\ r = [st EXCEPT !.res = e]
    <3> PICK e : e # "ok" /\ r = [st EXCEPT !.res = e]
      BY <2>4, Zenon
    <3>1. r.res = e
      BY DEF IsState
    <3> QED
      BY <3>1
  <2>5. CASE \E a : r = [st EXCEPT !.node = FileNode(o[a]), !.links = @ + 1]
    <3> PICK a : r = [st EXCEPT !.node = FileNode(o[a]), !.links = @ + 1]
      BY <2>5, Zenon
    <3>1. r.node = FileNode(o[a])
      BY DEF IsState
    <3>2. r.node.kind = "file"
      BY <3>1 DEF FileNode
    <3> QED
      BY <1>0, <3>2
  <2>6. \/ to.at = "tree" /\ LookUp(t, to.path) = "ok"
        \/ \E e : e # "ok" /\ r = [st EXCEPT !.res = e]
        \/ \E a : r = [st EXCEPT !.node = FileNode(o[a]), !.links = @ + 1]
    <3>1. r = IF to.at = "tree"
              THEN IF LookUp(t, to.path) = "ok"
                   THEN [st EXCEPT !.at = to.path, !.node = t[to.path], !.links = @ + 1]
                   ELSE [st EXCEPT !.res = LookUp(t, to.path)]
              ELSE IF <<to.root, to.key>> \in DOMAIN o
                   THEN [st EXCEPT !.node = FileNode(o[<<to.root, to.key>>]), !.links = @ + 1]
                   ELSE [st EXCEPT !.res = "NotFound"]
      BY <1>1, <1>3, <1>4, <2>2 DEF Follow
    <3> QED
      BY <1>0, <3>1, Zenon
  <2> QED
    BY <2>3, <2>4, <2>5, <2>6, Zenon
<1> QED
  BY <1>2, <1>3

\* So every recorded directory is found as before, by lstat and by stat.
LEMMA DirsStand ==
    ASSUME RecordsTyped, DirsBelow, DirsFound, NEW u, OnlyFiles(tree, u), NEW v,
           NEW d \in DOMAIN dirs
    PROVE  StatIn(u, v, d) = Stat(d) /\ IsState(Stat(d)) /\ LstatIn(u, v, d) = Lstat(d)
<1>0. "dir" # "file"
  OBVIOUS
<1>1. << >> \in DOMAIN u /\ u[<< >>] = tree[<< >>]
  BY <1>0 DEF DirsFound, RootInPlace, OnlyFiles
<1>2. StatIn(u, v, << >>) = Stat(<< >>) /\ IsState(Stat(<< >>))
  <2>1. Start(u) = Start(tree) /\ IsState(Start(tree))
    BY <1>1 DEF Start, IsState
  <2> QED
    BY <2>1, StatRoot DEF Stat
<1>3. ASSUME NEW e \in DOMAIN dirs, e # << >>,
             StatIn(u, v, Front(e)) = Stat(Front(e)), IsState(Stat(Front(e)))
      PROVE  /\ StatIn(u, v, e) = Stat(e) /\ IsState(Stat(e)) /\ LstatIn(u, v, e) = Lstat(e)
  <2> PICK q : q = Front(e)
    OBVIOUS
  <2> PICK n : n = Last(e)
    OBVIOUS
  <2> PICK st : st = Stat(q)
    OBVIOUS
  <2>1. e \in Seq(Names) /\ q \in Seq(Names) /\ n \in Names /\ Append(q, n) = e
    BY <1>3, PathParts DEF RecordsTyped
  <2>2. q \in DOMAIN dirs
    BY <1>3 DEF DirsBelow
  <2>3. st.res = "ok" /\ st.node.kind = "dir" /\ IsState(st)
    BY <1>3, <2>2 DEF DirsFound, DirFound
  <2>0. /\ StatIn(tree, objects, Append(q, n)) = Follow(tree, objects, StatIn(tree, objects, q), n)
        /\ StatIn(u, v, Append(q, n)) = Follow(u, v, StatIn(u, v, q), n)
    BY <2>1, StatAppend, Zenon
  <2>4. Stat(e) = Follow(tree, objects, st, n)
    BY <2>0, <2>1 DEF Stat
  <2>5. StatIn(u, v, e) = Follow(u, v, st, n)
    BY <1>3, <2>0, <2>1
  <2>6. Stat(e).res = "ok" /\ Stat(e).node.kind = "dir"
    BY DEF DirsFound, DirFound
  <2>7. /\ ~Shut(st.node) /\ Follow(u, v, st, n) = Follow(tree, objects, st, n)
        /\ Append(st.at, n) \in DOMAIN tree
        /\ Append(st.at, n) \in DOMAIN u /\ u[Append(st.at, n)] = tree[Append(st.at, n)]
    BY <2>3, <2>4, <2>6, FollowStays
  <2>8. IsState(Stat(e))
    BY <2>3, <2>4, FollowState
  <2>9. LstatIn(u, v, e) = Lstat(e)
    BY <1>3, <2>3, <2>7 DEF Lstat, LstatIn, Stat
  <2> QED
    BY <2>4, <2>5, <2>7, <2>8, <2>9
<1> DEFINE T == {k \in Nat : \E e \in DOMAIN dirs :
                   Len(e) = k /\ ~(StatIn(u, v, e) = Stat(e) /\ IsState(Stat(e)))}
<1>4. T = {}
  <2> SUFFICES ASSUME T # {} PROVE FALSE
    OBVIOUS
  <2>1. PICK k \in T : \A y \in T : ~(y < k)
    <3> T \subseteq Nat
      OBVIOUS
    <3> HIDE DEF T
    <3> QED
      BY LeastNatural
  <2>2. PICK e \in DOMAIN dirs :
          Len(e) = k /\ ~(StatIn(u, v, e) = Stat(e) /\ IsState(Stat(e)))
    OBVIOUS
  <2>3. e # << >>
    BY <1>2, <2>2
  <2>4. e \in Seq(Names)
    BY DEF RecordsTyped
  <2>5. Front(e) \in Seq(Names) /\ Len(Front(e)) = Len(e) - 1 /\ Len(e) \in Nat \ {0}
    BY <2>3, <2>4, PathParts
  <2>6. Front(e) \in DOMAIN dirs
    BY <2>3 DEF DirsBelow
  <2>7. Len(e) - 1 \in Nat /\ Len(e) - 1 < k
    BY <2>2, <2>5
  <2>8. Len(e) - 1 \notin T
    BY <2>1, <2>7
  <2>9. StatIn(u, v, Front(e)) = Stat(Front(e)) /\ IsState(Stat(Front(e)))
    BY <2>5, <2>6, <2>7, <2>8
  <2> QED
    BY <1>3, <2>2, <2>3, <2>9
<1>5. ASSUME NEW e \in DOMAIN dirs PROVE StatIn(u, v, e) = Stat(e) /\ IsState(Stat(e))
  <2>1. e \in Seq(Names)
    BY DEF RecordsTyped
  <2>2. Len(e) \in Nat
    BY <2>1, LenProperties
  <2> QED
    BY <1>4, <2>2
<1>6. CASE d = << >>
  <2>1. LstatIn(u, v, << >>) = Lstat(<< >>)
    BY <1>1 DEF Lstat, LstatIn
  <2> QED
    BY <1>5, <1>6, <2>1
<1>7. CASE d # << >>
  <2>1. Front(d) \in DOMAIN dirs
    BY <1>7 DEF DirsBelow
  <2> QED
    BY <1>3, <1>5, <1>7, <2>1
<1> QED
  BY <1>6, <1>7

\* Records that keep their permissions, on a tree that keeps its directories.
PermsKept ==
  DOMAIN dirs' = DOMAIN dirs /\ \A e \in DOMAIN dirs : dirs'[e].perm = dirs[e].perm

LEMMA LandmarksStay ==
    ASSUME WalkInv, Places, Landmarks, OnlyFiles(tree, tree'), PermsKept,
           phase' \in {"discover", "hash"} => phase \in {"discover", "hash"},
           phase' = "done" => phase = "done" /\ manifest' = manifest
    PROVE  Landmarks'
<1>1. RecordsTyped /\ DirsBelow /\ DirsFound
  BY DEF WalkInv, Places, Landmarks
<1>2. RootInPlace'
  <2>1. "dir" # "file"
    OBVIOUS
  <2> QED
    BY <1>1, <2>1 DEF DirsFound, RootInPlace, OnlyFiles
<1>3. ASSUME NEW d \in DOMAIN dirs' PROVE DirFound(d)'
  <2>1. d \in DOMAIN dirs /\ dirs'[d].perm = dirs[d].perm
    BY DEF PermsKept
  <2>2. StatIn(tree', objects', d) = Stat(d) /\ LstatIn(tree', objects', d) = Lstat(d)
    BY <1>1, <2>1, DirsStand
  <2>3. Stat(d)' = Stat(d) /\ Lstat(d)' = Lstat(d)
    BY <2>2 DEF Stat, Lstat
  <2>4. DirFound(d)
    BY <1>1, <2>1 DEF DirsFound
  <2> QED
    BY <2>1, <2>3, <2>4 DEF DirFound
<1>4. DirsFound'
  BY <1>2, <1>3 DEF DirsFound
<1>5. RootKept'
  BY DEF Landmarks, RootKept, PermsKept
<1>6. ManifestFound'
  <2> SUFFICES ASSUME phase' = "done"
               PROVE  /\ IsManifest(manifest')
                      /\ \A e \in manifest' : e.type = "D" =>
                           e.path \in DOMAIN dirs' /\ e.perm = dirs'[e.path].perm
    BY DEF ManifestFound
  <2>1. /\ IsManifest(manifest) /\ manifest' = manifest
        /\ \A e \in manifest : e.type = "D" =>
             e.path \in DOMAIN dirs /\ e.perm = dirs[e.path].perm
    BY DEF Landmarks, ManifestFound
  <2> QED
    BY <2>1 DEF PermsKept
<1> QED
  BY <1>4, <1>5, <1>6 DEF Landmarks

LEMMA OnlyFilesSame == ASSUME UNCHANGED tree PROVE OnlyFiles(tree, tree')
BY DEF OnlyFiles

LEMMA PermsSame == ASSUME UNCHANGED dirs PROVE PermsKept
BY DEF PermsKept

LEMMA LandmarksInit == Init => Landmarks
<1> SUFFICES ASSUME Init PROVE Landmarks
  OBVIOUS
<1>1. IsTree(tree) /\ DOMAIN dirs = {} /\ phase = "idle"
  BY WalkAssumptions DEF Init
<1>2. "idle" \notin {"discover", "hash"} /\ "idle" # "done"
  OBVIOUS
<1> QED
  BY <1>1, <1>2 DEF Landmarks, DirsFound, RootInPlace, RootKept, ManifestFound, IsTree

LEMMA LandmarksBegin == ASSUME WalkInv, Places, Landmarks, BeginWalk PROVE Landmarks'
<1>1. phase = "idle" /\ UNCHANGED <<tree, objects>>
  BY DEF BeginWalk, fsVars
<1>2. CASE phase' = "failed" /\ UNCHANGED dirs
  BY <1>1, <1>2, LandmarksStay, OnlyFilesSame, PermsSame
<1>3. CASE /\ phase' = "discover"
           /\ dirs' = [d \in {<< >>} |-> DirRecord(tree[d].perm)]
  <2>1. DOMAIN dirs' = {<< >>} /\ dirs'[<< >>].perm = tree[<< >>].perm
    BY <1>3 DEF DirRecord
  <2>2. RootInPlace'
    BY <1>1 DEF Landmarks, DirsFound, RootInPlace
  <2>3. Stat(<< >>)' = Start(tree)
    <3>1. StatIn(tree', objects', << >>) = Start(tree')
      BY StatRoot
    <3> QED
      BY <1>1, <3>1 DEF Stat, Start
  <2>4. (Lstat(<< >>).node)' = tree[<< >>]
    BY <1>1 DEF Lstat, LstatIn
  <2>5. DirFound(<< >>)'
    BY <1>1, <2>1, <2>2, <2>3, <2>4 DEF DirFound, Start, RootInPlace
  <2>6. DirsFound'
    BY <2>1, <2>2, <2>5 DEF DirsFound
  <2>7. RootKept' /\ ManifestFound'
    BY <1>3, <2>1 DEF RootKept, ManifestFound
  <2> QED
    BY <2>6, <2>7 DEF Landmarks
<1> QED
  BY <1>2, <1>3, Zenon DEF BeginWalk

LEMMA LandmarksDescend ==
    ASSUME WalkInv, Places, Landmarks, phase = "discover", stack # << >>, Top.read,
           NEW n \in Top.left, NEW p, p = Append(Top.dir, n), NEW own, own = Lstat(p).node,
           DescendInto(p, own), UNCHANGED fsVars,
           Stat(p).res = "ok", Stat(p).node.kind = "dir"
    PROVE  Landmarks'
<1> PICK d : d = Top.dir
  OBVIOUS
<1> PICK L : L = Len(stack)
  OBVIOUS
<1>1. n \in Names /\ L \in Nat \ {0} /\ Top = stack[L] /\ Len(stack) = L
  BY TopTyped, TopChanged DEF WalkInv, Levels
<1>2. d \in DOMAIN dirs /\ p \notin DOMAIN dirs
  BY <1>1 DEF Places, DescentOnce
<1>3. Descended(d, p, own)
  <2>1. RecordsTyped
    BY DEF WalkInv
  <2> QED
    BY <1>2, <2>1, DescendIntoRecords, Zenon
<1>4. phase' = phase /\ UNCHANGED <<tree, objects>>
  BY DEF DescendInto, fsVars
<1>5. \A e : Stat(e)' = Stat(e) /\ Lstat(e)' = Lstat(e)
  BY <1>4 DEF Stat, Lstat
<1>6. ASSUME NEW e \in DOMAIN dirs' PROVE DirFound(e)'
  <2>1. CASE e = p
    BY <1>3, <1>5, <2>1 DEF DirFound, Descended
  <2>2. CASE e \in DOMAIN dirs
    BY <1>3, <1>5, <2>2 DEF Landmarks, DirsFound, DirFound, Descended
  <2> QED
    BY <1>3, <2>1, <2>2 DEF Descended
<1>7. RootInPlace'
  BY <1>4 DEF Landmarks, DirsFound, RootInPlace
<1>8. RootKept' /\ ManifestFound'
  BY <1>3, <1>4 DEF Landmarks, RootKept, ManifestFound, Descended
<1> QED
  BY <1>6, <1>7, <1>8 DEF Landmarks, DirsFound

LEMMA LandmarksVisit == ASSUME WalkInv, Places, Landmarks, Visit PROVE Landmarks'
<1>1. phase = "discover" /\ stack # << >> /\ Top.read /\ UNCHANGED fsVars
  BY DEF Visit
<1>2. PICK n \in Top.left :
        LET p == Append(Top.dir, n)  own == Lstat(p)  target == Stat(p)
        IN  \/ Skip(n)
            \/ \E e : Fail(e)
            \/ target.res = "ok" /\ target.node.kind = "dir" /\ DescendInto(p, own.node)
            \/ \E key, bytes : RecordLinked(p, own.node, key, bytes)
            \/ QueueFile(p, own.node)
  BY Zenon DEF Visit
<1> PICK d : d = Top.dir
  OBVIOUS
<1> PICK p : p = Append(d, n)
  OBVIOUS
<1> PICK own : own = Lstat(p).node
  OBVIOUS
<1>3. OnlyFiles(tree, tree')
  BY <1>1, OnlyFilesSame DEF fsVars
<1>4. "failed" \notin {"discover", "hash"} /\ "failed" # "done" /\ "discover" # "done"
  OBVIOUS
<1>5. CASE Skip(n) \/ \E e : Fail(e)
  <2>1. UNCHANGED dirs /\ phase' \in {phase, "failed"}
    BY <1>5 DEF Skip, Fail
  <2> QED
    BY <1>1, <1>3, <1>4, <2>1, LandmarksStay, PermsSame
<1>6. CASE Stat(p).res = "ok" /\ Stat(p).node.kind = "dir" /\ DescendInto(p, own)
  BY <1>1, <1>6, LandmarksDescend
<1>7. ASSUME NEW x, NEW fill, PutFile(x, Last(p), fill), phase' = phase PROVE Landmarks'
  <2>1. DOMAIN dirs' = DOMAIN dirs
    BY <1>7 DEF PutFile
  <2>2. PermsKept
    BY <1>7, <2>1, PutFileAside DEF WalkInv, PermsKept
  <2> QED
    BY <1>1, <1>3, <1>4, <1>7, <2>2, LandmarksStay
<1>8. CASE \E key, bytes : RecordLinked(p, own, key, bytes)
  <2>1. \/ \E e : Fail(e)
        \/ \E x, fill : PutFile(x, Last(p), fill) /\ phase' = phase
    BY <1>8, Zenon DEF RecordLinked
  <2> QED
    BY <1>5, <1>7, <2>1
<1>9. CASE QueueFile(p, own)
  <2>1. \E x, fill : PutFile(x, Last(p), fill) /\ phase' = phase
    BY <1>9, Zenon DEF QueueFile
  <2> QED
    BY <1>7, <2>1
<1> QED
  BY <1>2, <1>5, <1>6, <1>8, <1>9

LEMMA LandmarksFinishHash == ASSUME WalkInv, Places, Landmarks, FinishHash PROVE Landmarks'
<1>1. UNCHANGED fsVars /\ phase = "hash"
  BY DEF FinishHash
<1>2. OnlyFiles(tree, tree')
  BY <1>1, OnlyFilesSame DEF fsVars
<1>3. "failed" \notin {"discover", "hash"} /\ "failed" # "done" /\ "hash" # "done"
  OBVIOUS
<1>4. \/ \E e : Fail(e)
      \/ \E p, sum : /\ dirs' = [dirs EXCEPT ![Front(p)].files[Last(p)].checksum = sum]
                     /\ UNCHANGED phase
  BY Zenon DEF FinishHash, HashDone, WriteBack
<1>5. CASE \E e : Fail(e)
  <2>1. UNCHANGED dirs /\ phase' = "failed"
    BY <1>5 DEF Fail
  <2> QED
    BY <1>2, <1>3, <2>1, LandmarksStay, PermsSame
<1>6. ASSUME NEW p, NEW sum,
             dirs' = [dirs EXCEPT ![Front(p)].files[Last(p)].checksum = sum], UNCHANGED phase
      PROVE  Landmarks'
  <2> PICK d : d = Front(p)
    OBVIOUS
  <2> PICK n : n = Last(p)
    OBVIOUS
  <2>1. DOMAIN dirs' = DOMAIN dirs
    BY <1>6
  <2>2. ASSUME NEW e \in DOMAIN dirs PROVE dirs'[e].perm = dirs[e].perm
    <3> PICK r : r = dirs[e]
      OBVIOUS
    <3> PICK gs : gs = [r.files EXCEPT ![n].checksum = sum]
      OBVIOUS
    <3>1. IsRecord(r)
      BY DEF WalkInv, RecordsTyped
    <3>2. dirs'[e] = r \/ dirs'[e] = [r EXCEPT !.files = gs]
      BY <1>6
    <3>3. [r EXCEPT !.files = gs].perm = r.perm
      BY <3>1 DEF IsRecord
    <3> QED
      BY <3>2, <3>3
  <2>3. PermsKept
    BY <2>1, <2>2 DEF PermsKept
  <2> QED
    BY <1>1, <1>2, <1>3, <1>6, <2>3, LandmarksStay
<1> QED
  BY <1>4, <1>5, <1>6

\* What is written down when every file is hashed: the root's entry at least,
\* and one entry a path.
LEMMA EntriesManifest ==
    ASSUME RecordsTyped, << >> \in DOMAIN dirs
    PROVE  /\ IsManifest(EntriesOf)
           /\ \A e \in EntriesOf : e.type = "D" =>
                e.path \in DOMAIN dirs /\ e.perm = dirs[e.path].perm
<1> DEFINE D(p) == Entry("D", dirs[p].perm, Finalized[p].checksum, Finalized[p].size, p)
           F(p, n) == Entry("F", dirs[p].files[n].perm, dirs[p].files[n].checksum,
                            dirs[p].files[n].size, Append(p, n))
<1>0. "D" # "F"
  OBVIOUS
<1>1. \A e : e \in EntriesOf <=> \/ \E p \in DOMAIN dirs : e = D(p)
                                 \/ \E p \in DOMAIN dirs : \E n \in DOMAIN dirs[p].files : e = F(p, n)
  BY DEF EntriesOf
<1>2. ASSUME NEW p PROVE D(p).type = "D" /\ D(p).path = p /\ D(p).perm = dirs[p].perm
  BY DEF Entry
<1>3. ASSUME NEW p, NEW n PROVE F(p, n).type = "F" /\ F(p, n).path = Append(p, n)
  BY DEF Entry
<1>4. \A p \in DOMAIN dirs : p \in Seq(Names) /\ DOMAIN dirs[p].files \subseteq Names
  BY DEF RecordsTyped
<1>5. ASSUME NEW p \in DOMAIN dirs PROVE IsEntry(D(p))
  <2>1. p \in Seq(Names)
    BY <1>4
  <2> QED
    BY <2>1 DEF IsEntry, Entry
<1>6. ASSUME NEW p \in DOMAIN dirs, NEW n \in DOMAIN dirs[p].files
      PROVE  IsEntry(F(p, n)) /\ Front(Append(p, n)) = p /\ Last(Append(p, n)) = n
  <2>1. p \in Seq(Names) /\ n \in Names
    BY <1>4
  <2>2. Append(p, n) \in Seq(Names) /\ Front(Append(p, n)) = p /\ Last(Append(p, n)) = n
    BY <2>1, AppendParts
  <2> QED
    BY <2>2 DEF IsEntry, Entry
<1>7. D(<< >>) \in EntriesOf
  BY <1>1
<1> HIDE DEF D, F
<1>8. \A e \in EntriesOf : IsEntry(e)
  BY <1>1, <1>5, <1>6
<1>9. ASSUME NEW e \in EntriesOf, NEW g \in EntriesOf, PathOf(e) = PathOf(g) PROVE e = g
  <2>1. e.type = g.type /\ e.path = g.path
    BY <1>8, <1>9, PathsApart
  <2>2. CASE \E p \in DOMAIN dirs : e = D(p)
    <3> PICK p \in DOMAIN dirs : e = D(p)
      BY <2>2
    <3>1. \E q \in DOMAIN dirs : g = D(q)
      BY <1>0, <1>1, <1>2, <1>3, <2>1
    <3> QED
      BY <1>2, <2>1, <3>1
  <2>3. CASE \E p \in DOMAIN dirs : \E n \in DOMAIN dirs[p].files : e = F(p, n)
    <3> PICK p \in DOMAIN dirs : \E n \in DOMAIN dirs[p].files : e = F(p, n)
      BY <2>3
    <3> PICK n \in DOMAIN dirs[p].files : e = F(p, n)
      OBVIOUS
    <3>1. e.type = "F" /\ e.path = Append(p, n)
      BY <1>3
    <3>2. ~\E q \in DOMAIN dirs : g = D(q)
      BY <1>0, <1>2, <2>1, <3>1
    <3>3. \E q \in DOMAIN dirs : \E m \in DOMAIN dirs[q].files : g = F(q, m)
      BY <1>1, <3>2
    <3> PICK q \in DOMAIN dirs : \E m \in DOMAIN dirs[q].files : g = F(q, m)
      BY <3>3
    <3> PICK m \in DOMAIN dirs[q].files : g = F(q, m)
      OBVIOUS
    <3>4. Append(p, n) = Append(q, m)
      BY <1>3, <2>1, <3>1
    <3>5. p = q /\ n = m
      <4>1. /\ Front(Append(p, n)) = p /\ Last(Append(p, n)) = n
            /\ Front(Append(q, m)) = q /\ Last(Append(q, m)) = m
        BY <1>6
      <4> QED
        BY <3>4, <4>1
    <3> QED
      BY <3>5
  <2> QED
    BY <1>1, <2>2, <2>3
<1>10. IsManifest(EntriesOf)
  BY <1>7, <1>8, <1>9 DEF IsManifest
<1>11. ASSUME NEW e \in EntriesOf, e.type = "D"
       PROVE  e.path \in DOMAIN dirs /\ e.perm = dirs[e.path].perm
  <2>1. \E p \in DOMAIN dirs : e = D(p)
    BY <1>0, <1>1, <1>3, <1>11
  <2> QED
    BY <1>2, <2>1
<1> QED
  BY <1>10, <1>11

LEMMA LandmarksFinalize == ASSUME WalkInv, Places, Landmarks, Finalize PROVE Landmarks'
<1>1. /\ phase = "hash" /\ phase' = "done" /\ manifest' = EntriesOf
      /\ UNCHANGED <<dirs, tree, objects>>
  BY DEF Finalize, fsVars
<1>2. << >> \in DOMAIN dirs /\ RecordsTyped
  BY <1>1 DEF WalkInv, Landmarks, RootKept
<1>3. /\ IsManifest(EntriesOf)
      /\ \A e \in EntriesOf : e.type = "D" => e.path \in DOMAIN dirs /\ e.perm = dirs[e.path].perm
  BY <1>2, EntriesManifest
<1>4. ManifestFound'
  <2>1. \A m : m = EntriesOf => IsManifest(m)
    BY <1>3
  <2>2. IsManifest(manifest')
    BY <1>1, <2>1
  <2> QED
    BY <1>1, <1>3, <2>2 DEF ManifestFound
<1>5. RootKept'
  BY <1>1 DEF RootKept
<1>6. DirsFound'
  BY <1>1 DEF Landmarks, DirsFound, RootInPlace, DirFound, Stat, Lstat
<1> QED
  BY <1>4, <1>5, <1>6 DEF Landmarks

LEMMA LandmarksEdits ==
    ASSUME WalkInv, Places, Landmarks, EditFile \/ RemoveFile \/ DamageObject PROVE Landmarks'
<1>1. phase' = phase /\ dirs' = dirs /\ manifest' = manifest
  BY DEF EditFile, RemoveFile, DamageObject, walkVars
<1>2. OnlyFiles(tree, tree')
  <2>1. CASE EditFile
    <3>1. PICK p \in FilesOf(tree) : \E c : tree' = [tree EXCEPT ![p].bytes = c]
      BY <2>1, Zenon DEF EditFile
    <3>2. DOMAIN tree' = DOMAIN tree /\ \A q \in DOMAIN tree : q # p => tree'[q] = tree[q]
      BY <3>1
    <3>3. tree[p].kind = "file"
      BY DEF FilesOf
    <3> QED
      BY <3>2, <3>3 DEF OnlyFiles
  <2>2. CASE RemoveFile
    <3>1. PICK p \in FilesOf(tree) : tree' = [q \in DOMAIN tree \ {p} |-> tree[q]]
      BY <2>2 DEF RemoveFile
    <3>2. tree[p].kind = "file"
      BY DEF FilesOf
    <3> QED
      BY <3>1, <3>2 DEF OnlyFiles
  <2>3. CASE DamageObject
    BY <2>3, OnlyFilesSame DEF DamageObject
  <2> QED
    BY <2>1, <2>2, <2>3
<1> QED
  BY <1>1, <1>2, LandmarksStay, PermsSame

LEMMA LandmarksNext == WalkInv /\ Places /\ Landmarks /\ [Next]_vars => Landmarks'
<1> SUFFICES ASSUME WalkInv, Places, Landmarks, [Next]_vars PROVE Landmarks'
  OBVIOUS
<1>0. /\ "failed" \notin {"discover", "hash"} /\ "failed" # "done"
      /\ "hash" # "done" /\ "discover" # "done"
  OBVIOUS
<1>1. CASE BeginWalk
  BY <1>1, LandmarksBegin
<1>2. CASE ReadDir \/ LeaveDir \/ BeginHash \/ OpenFile \/ ReadBlock
  <2>1. UNCHANGED <<tree, dirs>>
    BY <1>2 DEF ReadDir, LeaveDir, BeginHash, OpenFile, ReadBlock, Got, Fail, fsVars
  <2>2. phase \in {"discover", "hash"} /\ phase' \in {"discover", "hash", "failed"}
    BY <1>2 DEF ReadDir, LeaveDir, BeginHash, OpenFile, ReadBlock, Got, Fail
  <2> QED
    BY <1>0, <2>1, <2>2, LandmarksStay, OnlyFilesSame, PermsSame
<1>3. CASE Visit
  BY <1>3, LandmarksVisit
<1>4. CASE FinishHash
  BY <1>4, LandmarksFinishHash
<1>5. CASE Finalize
  BY <1>5, LandmarksFinalize
<1>6. CASE EditFile \/ RemoveFile \/ DamageObject
  BY <1>6, LandmarksEdits
<1>7. CASE Rest \/ UNCHANGED vars
  <2>1. UNCHANGED <<tree, dirs, phase, manifest>>
    BY <1>7 DEF Rest, vars
  <2> QED
    BY <2>1, LandmarksStay, OnlyFilesSame, PermsSame
<1> QED
  BY <1>1, <1>2, <1>3, <1>4, <1>5, <1>6, <1>7 DEF Next, Walker

-----------------------------------------------------------------------------
(* A finished walk and the tree as it is now. *)

LEMMA RewalkedManifest ==
    ASSUME Landmarks, phase = "done"
    PROVE  IsManifest(Rewalked) /\ DirsAgree(manifest, Rewalked)
<1>1. ASSUME NEW p \in RefListed
      PROVE  /\ IsEntry(RefEntry(p)) /\ RefEntry(p).path = p
             /\ RefEntry(p).perm = Lstat(p).node.perm
  <2>1. p \in Seq(Names)
    BY FoundTyped DEF RefListed
  <2>2. \E type \in {"D", "F"} : \E sum, size :
          RefEntry(p) = Entry(type, Lstat(p).node.perm, sum, size, p)
    BY DEF RefEntry
  <2>3. PICK type \in {"D", "F"} : \E sum, size :
          RefEntry(p) = Entry(type, Lstat(p).node.perm, sum, size, p)
    BY <2>2
  <2>4. PICK sum, size : RefEntry(p) = Entry(type, Lstat(p).node.perm, sum, size, p)
    BY <2>3
  <2> QED
    BY <2>1, <2>4 DEF Entry, IsEntry
<1>2. << >> \in RefListed
  BY RootFound DEF RefDirs, RefListed
<1>3. IsManifest(Rewalked)
  <2>1. Rewalked # {} /\ \A e \in Rewalked : IsEntry(e)
    BY <1>1, <1>2 DEF Rewalked
  <2>2. ASSUME NEW e \in Rewalked, NEW g \in Rewalked, PathOf(e) = PathOf(g) PROVE e = g
    <3>1. e.path = g.path
      BY <2>1, <2>2, PathsApart
    <3>2. e = RefEntry(e.path) /\ g = RefEntry(g.path)
      BY <1>1 DEF Rewalked
    <3> QED
      BY <3>1, <3>2
  <2> QED
    BY <2>1, <2>2 DEF IsManifest
<1>4. DirsAgree(manifest, Rewalked)
  <2> SUFFICES ASSUME NEW e \in manifest, NEW g \in Rewalked, e.type = "D", e.path = g.path
               PROVE  e.perm = g.perm
    BY DEF DirsAgree
  <2>1. e.path \in DOMAIN dirs /\ e.perm = dirs[e.path].perm
    BY DEF Landmarks, ManifestFound
  <2>2. dirs[e.path].perm = Lstat(e.path).node.perm
    BY <2>1 DEF Landmarks, DirsFound, DirFound
  <2>3. g.perm = Lstat(g.path).node.perm
    BY <1>1 DEF Rewalked
  <2> QED
    BY <2>1, <2>2, <2>3
<1> QED
  BY <1>3, <1>4

\* What diff says of the snapshot a walk has written and of the tree as it is
\* now, one a side or both on one, is what really differs (classify, union_side,
\* resolve_side, run_diff).
THEOREM DiffTellsTheDifference == Spec => []DiffExact
<1>1. Init => WalkInv /\ Places /\ Undisturbed /\ Landmarks
  BY WalkInitInv, PlacesInit, UndisturbedInit, LandmarksInit
<1>2. WalkInv /\ Places /\ Undisturbed /\ Landmarks /\ [Next]_vars =>
        WalkInv' /\ Places' /\ Undisturbed' /\ Landmarks'
  BY WalkNextKeeps, PlacesNext, UndisturbedNext, LandmarksNext
<1>3. Undisturbed /\ Landmarks => DiffExact
  <2> SUFFICES ASSUME Undisturbed, Landmarks, phase = "done", NEW now, now = Rewalked
               PROVE  PairExact(now) /\ UnionExact(now)
    BY DEF DiffExact, Compared
  <2>1. IsManifest(manifest) /\ IsManifest(now) /\ DirsAgree(manifest, now)
    BY RewalkedManifest DEF Landmarks, ManifestFound
  <2>2. edits = 0 => manifest = now
    BY DEF Undisturbed, ListedExactly, Rewalked
  <2>3. PairExact(now)
    BY <2>1, <2>2, DiffersTold, DiffTurned, DiffAll DEF PairExact
  <2>4. UnionExact(now)
    BY <2>1, PairTold DEF UnionExact
  <2> QED
    BY <2>3, <2>4
<1> QED
  BY <1>1, <1>2, <1>3, PTL DEF Spec

-----------------------------------------------------------------------------
(* The C ABI.                                                             *)

\* A call is a record with these fields, whatever the steps left to it and the
\* parameters it has read.
IsCall(c) ==
    /\ c = [x \in {"fn", "pc", "todo", "errp", "bad", "given", "dropped", "ret", "check"} |-> c[x]]
    /\ c.pc \in {"idle", "body", "ret"} /\ c.ret \in {"none", "ok", "fail"}
    /\ c.check \in {"err", "ret"} /\ c.errp \in BOOLEAN /\ c.dropped \in Nat

\* An error, or NoError.
IsError(e) == e = [x \in {"code", "from"} |-> e[x]] /\ e.from \in Nat

\* The types of the whole state.
StateType ==
    /\ rt \in {"none", "built"} \cup Thread /\ halted \in BOOLEAN
    /\ call = [t \in Thread |-> call[t]] /\ \A t \in Thread : IsCall(call[t])
    /\ slot = [t \in Thread |-> slot[t]] /\ \A t \in Thread : IsError(slot[t])
    /\ errors \in [Thread -> Nat] /\ strings \in [Thread -> Nat]
    /\ calls \in [Thread -> Nat] /\ ignored \in [Thread -> Nat]

One(b) == IF b THEN 1 ELSE 0
Reported(t) == Returned(t, "fail") /\ call[t].errp

\* A call has a result once it has returned; a host that looks at the variable
\* has passed its address.
CallInv(t) ==
    /\ call[t].pc # "idle" /\ call[t].check = "err" => call[t].errp
    /\ call[t].ret = "none" <=> call[t].pc # "ret"

\* The variable is never ahead of the calls and holds an error that is not
\* freed; during a call that has not failed it holds this call's error when,
\* and only when, the call has dropped a parameter.
SlotInv(t) ==
    /\ slot[t].from <= calls[t]
    /\ slot[t] # NoError => errors[t] > 0
    /\ call[t].pc # "idle" /\ call[t].errp /\ ~Reported(t) =>
          (slot[t].from = calls[t] <=> call[t].dropped > 0)
    /\ Reported(t) => slot[t] # NoError /\ (slot[t].from = calls[t] \/ ignored[t] > 0)

\* The accounts: an allocation is owed to the host, or some dropped parameter
\* has paid for it.  An error left in the variable has cost one that the string
\* of a later call may be lost to.
LedgerInv(t) ==
    /\ errors[t] <= ignored[t] + One(Reported(t))
    /\ HasString(t) => strings[t] > 0
    /\ IF Reported(t)
       THEN strings[t] <= ignored[t]
       ELSE strings[t] + One(slot[t] # NoError) <= ignored[t] + One(HasString(t))

ThreadInv(t) == CallInv(t) /\ SlotInv(t) /\ LedgerInv(t)

\* The inductive invariant.
FfiInv == StateType /\ \A t \in Thread : ThreadInv(t)

-----------------------------------------------------------------------------
(* The operators.                                                          *)

\* What the other threads have is left alone.
Elsewhere(t) ==
    \A u \in Thread \ {t} :
      /\ call'[u] = call[u] /\ slot'[u] = slot[u] /\ errors'[u] = errors[u]
      /\ strings'[u] = strings[u] /\ calls'[u] = calls[u] /\ ignored'[u] = ignored[u]

\* The call goes on, or returns, with what the host gave it.
SameCall(t) ==
    /\ call'[t].fn = call[t].fn /\ call'[t].errp = call[t].errp
    /\ call'[t].check = call[t].check

\* A step of a script takes nothing from the rest of the call.
LEMMA AdvanceCall ==
    ASSUME StateType, NEW t \in Thread, NEW bad, NEW given, Advance(t, bad, given)
    PROVE  /\ call' = [u \in Thread |-> call'[u]] /\ IsCall(call'[t]) /\ SameCall(t)
           /\ call'[t].pc = call[t].pc /\ call'[t].ret = call[t].ret
           /\ call'[t].dropped = call[t].dropped
           /\ \A u \in Thread \ {t} : call'[u] = call[u]
<1>0. IsCall(call[t])
  BY DEF StateType
<1> DEFINE c == [call[t] EXCEPT !.todo = Tail(call[t].todo),
                  !.bad = call[t].bad \cup bad, !.given = call[t].given \cup given]
<1>1. call' = [call EXCEPT ![t] = c]
  BY DEF Advance, StateType
<1>2. /\ IsCall(c) /\ c.pc = call[t].pc /\ c.ret = call[t].ret /\ c.fn = call[t].fn
      /\ c.dropped = call[t].dropped /\ c.errp = call[t].errp /\ c.check = call[t].check
  BY <1>0 DEF IsCall
<1> HIDE DEF c
<1> QED
  BY <1>1, <1>2 DEF StateType, SameCall

\* A return ends the script and keeps what was dropped.
LEMMA ReturnCall ==
    ASSUME StateType, NEW t \in Thread, NEW ret \in {"ok", "fail"}, Return(t, ret)
    PROVE  /\ call' = [u \in Thread |-> call'[u]] /\ IsCall(call'[t]) /\ SameCall(t)
           /\ call'[t].pc = "ret" /\ call'[t].ret = ret
           /\ call'[t].dropped = call[t].dropped
           /\ \A u \in Thread \ {t} : call'[u] = call[u]
<1>0. IsCall(call[t])
  BY DEF StateType
<1> DEFINE c == [call[t] EXCEPT !.pc = "ret", !.ret = ret, !.todo = << >>, !.bad = {}, !.given = {}]
<1>1. call' = [call EXCEPT ![t] = c]
  BY DEF Return, StateType
<1>2. /\ IsCall(c) /\ c.pc = "ret" /\ c.ret = ret /\ c.fn = call[t].fn
      /\ c.dropped = call[t].dropped /\ c.errp = call[t].errp /\ c.check = call[t].check
  BY <1>0 DEF IsCall
<1> HIDE DEF c
<1> QED
  BY <1>1, <1>2 DEF StateType, SameCall

\* An error has a code; "" stands for success.
IsCode(code) == code # ""

\* An error is written for a host that wants one, and is of this call.
LEMMA WriteError ==
    ASSUME StateType, NEW t \in Thread, NEW code, IsCode(code), write_error_out(t, code)
    PROVE  /\ slot' = [u \in Thread |-> slot'[u]] /\ IsError(slot'[t])
           /\ errors' \in [Thread -> Nat]
           /\ call[t].errp => /\ slot'[t] # NoError /\ slot'[t].from = calls[t]
                              /\ errors'[t] = errors[t] + 1
           /\ ~call[t].errp => slot'[t] = slot[t] /\ errors'[t] = errors[t]
           /\ \A u \in Thread \ {t} : slot'[u] = slot[u] /\ errors'[u] = errors[u]
<1> DEFINE e == [code |-> code, from |-> calls[t]]
<1>1. e # NoError /\ IsError(e) /\ e.from = calls[t]
  BY DEF StateType, NoError, IsError, IsCode
<1>2. /\ call[t].errp => slot' = [slot EXCEPT ![t] = e] /\ errors' = [errors EXCEPT ![t] = errors[t] + 1]
      /\ ~call[t].errp => UNCHANGED <<slot, errors>>
  BY DEF StateType, write_error_out
<1> HIDE DEF e
<1>3. CASE call[t].errp
  <2>1. slot' = [slot EXCEPT ![t] = e] /\ errors' = [errors EXCEPT ![t] = errors[t] + 1]
    BY <1>2, <1>3
  <2>2. /\ slot' = [u \in Thread |-> slot'[u]] /\ slot'[t] = e
        /\ \A u \in Thread \ {t} : slot'[u] = slot[u]
    BY <2>1 DEF StateType
  <2>3. errors \in [Thread -> Nat]
    BY DEF StateType
  <2>4. /\ errors' \in [Thread -> Nat] /\ errors'[t] = errors[t] + 1
        /\ \A u \in Thread \ {t} : errors'[u] = errors[u]
    BY <2>1, <2>3
  <2> QED
    BY <1>1, <1>3, <2>2, <2>4
<1>4. CASE ~call[t].errp
  BY <1>2, <1>4 DEF StateType
<1> QED
  BY <1>3, <1>4

-----------------------------------------------------------------------------
(* What a step does to a call: five outcomes.                              *)

SameAccounts(t) ==
    /\ slot'[t] = slot[t] /\ errors'[t] = errors[t] /\ strings'[t] = strings[t]
    /\ ignored'[t] = ignored[t] /\ calls'[t] = calls[t]

\* The error is written where the host wants it.
Written(t) ==
    /\ call[t].errp => /\ slot'[t] # NoError /\ slot'[t].from = calls[t]
                       /\ errors'[t] = errors[t] + 1
    /\ ~call[t].errp => slot'[t] = slot[t] /\ errors'[t] = errors[t]

GoesOn(t) ==
    /\ call[t].pc = "body" /\ call'[t].pc = "body" /\ SameCall(t)
    /\ call'[t].ret = call[t].ret /\ call'[t].dropped = call[t].dropped
    /\ SameAccounts(t)

Drops(t) ==
    /\ call[t].pc = "body" /\ call'[t].pc = "body" /\ SameCall(t)
    /\ call'[t].ret = call[t].ret /\ call'[t].dropped = call[t].dropped + 1
    /\ Written(t) /\ ignored'[t] = ignored[t] + 1
    /\ strings'[t] = strings[t] /\ calls'[t] = calls[t]

Fails(t) ==
    /\ call[t].pc = "body" /\ call'[t].pc = "ret" /\ call'[t].ret = "fail" /\ SameCall(t)
    /\ Written(t)
    /\ strings'[t] = strings[t] /\ ignored'[t] = ignored[t] /\ calls'[t] = calls[t]

\* A required parameter is NULL, and the variable holds an error already.
FailsAgain(t) ==
    /\ call[t].pc = "body" /\ call'[t].pc = "ret" /\ call'[t].ret = "fail" /\ SameCall(t)
    /\ slot[t] # NoError /\ SameAccounts(t)

Succeeds(t) ==
    /\ call[t].pc = "body" /\ call'[t].pc = "ret" /\ call'[t].ret = "ok" /\ SameCall(t)
    /\ call'[t].dropped = call[t].dropped
    /\ strings'[t] = strings[t] + One(call[t].fn \in ReturnsString)
    /\ slot'[t] = slot[t] /\ errors'[t] = errors[t]
    /\ ignored'[t] = ignored[t] /\ calls'[t] = calls[t]

Outcome(t) == GoesOn(t) \/ Drops(t) \/ Fails(t) \/ FailsAgain(t) \/ Succeeds(t)

RuntimeType == rt \in {"none", "built"} \cup Thread /\ halted \in BOOLEAN

\* A call that goes on.
LEMMA Going ==
    ASSUME StateType, NEW t \in Thread, call[t].pc = "body", NEW bad, NEW given,
           Advance(t, bad, given), RuntimeType', UNCHANGED hostVars
    PROVE  StateType' /\ Elsewhere(t) /\ Outcome(t)
<1> USE AdvanceCall DEF hostVars
<1>1. StateType'
  BY DEF StateType, RuntimeType
<1>2. Elsewhere(t)
  BY DEF Elsewhere
<1>3. GoesOn(t)
  BY DEF GoesOn, SameAccounts
<1> QED
  BY <1>1, <1>2, <1>3 DEF Outcome

\* A call that waits for the runtime.
LEMMA Waiting ==
    ASSUME StateType, NEW t \in Thread, call[t].pc = "body", RuntimeType',
           UNCHANGED <<call, hostVars>>
    PROVE  StateType' /\ Elsewhere(t) /\ Outcome(t)
<1>1. StateType'
  BY DEF StateType, RuntimeType, hostVars
<1>2. Elsewhere(t) /\ GoesOn(t)
  BY DEF Elsewhere, hostVars, GoesOn, SameAccounts, SameCall
<1> QED
  BY <1>1, <1>2 DEF Outcome

\* A call that fails with an error of its own.
LEMMA Failing ==
    ASSUME StateType, NEW t \in Thread, call[t].pc = "body", NEW code, IsCode(code),
           FailWith(t, code), RuntimeType', UNCHANGED <<strings, calls, ignored>>
    PROVE  StateType' /\ Elsewhere(t) /\ Outcome(t)
<1>0. write_error_out(t, code) /\ Return(t, "fail")
  BY DEF FailWith
<1>1. /\ call' = [u \in Thread |-> call'[u]] /\ IsCall(call'[t]) /\ SameCall(t)
      /\ call'[t].pc = "ret" /\ call'[t].ret = "fail"
      /\ \A u \in Thread \ {t} : call'[u] = call[u]
  BY <1>0, ReturnCall
<1>2. /\ slot' = [u \in Thread |-> slot'[u]] /\ IsError(slot'[t])
      /\ errors' \in [Thread -> Nat] /\ Written(t)
      /\ \A u \in Thread \ {t} : slot'[u] = slot[u] /\ errors'[u] = errors[u]
  BY <1>0, WriteError DEF Written
<1>3. StateType'
  BY <1>1, <1>2 DEF StateType, RuntimeType
<1>4. Elsewhere(t)
  BY <1>1, <1>2 DEF Elsewhere
<1>5. Fails(t)
  BY <1>1, <1>2 DEF Fails
<1> QED
  BY <1>3, <1>4, <1>5 DEF Outcome

\* The types of the runtime hold in every state.
LEMMA TypedRuntime == StateType => RuntimeType
BY DEF StateType, RuntimeType

-----------------------------------------------------------------------------
(* The steps of a call.                                                    *)

\* A required string: decoded, NULL, or not UTF-8.
LEMMA RequiredOutcome ==
    ASSUME StateType, NEW t \in Thread, Required(t)
    PROVE  StateType' /\ Elsewhere(t) /\ Outcome(t)
<1>0. call[t].pc = "body" /\ RuntimeType' /\ UNCHANGED <<strings, calls, ignored>>
  BY TypedRuntime DEF Required, Doing, In, runtime, RuntimeType
<1>1. ASSUME NEW v \in Values(t, Param(t)), Decoded(t, v), UNCHANGED <<slot, errors>>
      PROVE  StateType' /\ Elsewhere(t) /\ Outcome(t)
  <2>1. PICK bad, given : Advance(t, bad, given)
    BY <1>1 DEF Decoded
  <2>2. UNCHANGED hostVars
    BY <1>0, <1>1 DEF hostVars
  <2> QED
    BY <1>0, <2>1, <2>2, Going
<1>2. CASE FailWith(t, "IO_ERROR")
  BY <1>0, <1>2, Failing DEF IsCode
<1>3. CASE slot[t] # NoError /\ Return(t, "fail") /\ UNCHANGED <<slot, errors>>
  <2>1. StateType'
    BY <1>0, <1>3, ReturnCall DEF StateType, RuntimeType
  <2>2. Elsewhere(t)
    BY <1>0, <1>3, ReturnCall DEF Elsewhere
  <2>3. FailsAgain(t)
    BY <1>0, <1>3, ReturnCall DEF FailsAgain, SameAccounts
  <2> QED
    BY <2>1, <2>2, <2>3 DEF Outcome
<1> QED
  BY <1>1, <1>2, <1>3 DEF Required

\* An optional string: decoded, unset, or dropped.
LEMMA OptionalOutcome ==
    ASSUME StateType, NEW t \in Thread, Optional(t)
    PROVE  StateType' /\ Elsewhere(t) /\ Outcome(t)
<1>0. call[t].pc = "body" /\ RuntimeType' /\ UNCHANGED <<strings, calls>>
  BY TypedRuntime DEF Optional, Doing, In, runtime, RuntimeType
<1>1. ASSUME NEW bad, NEW given, Advance(t, bad, given), UNCHANGED <<slot, errors, ignored>>
      PROVE  StateType' /\ Elsewhere(t) /\ Outcome(t)
  <2>1. UNCHANGED hostVars
    BY <1>0, <1>1 DEF hostVars
  <2> QED
    BY <1>0, <1>1, <2>1, Going
<1>2. CASE Drop(t) /\ write_error_out(t, "IO_ERROR")
  <2>0. IsCall(call[t])
    BY DEF StateType
  <2>10. PICK n \in Nat : n = call[t].dropped + 1
    BY <2>0 DEF IsCall
  <2> DEFINE c == [call[t] EXCEPT !.todo = Tail(call[t].todo), !.dropped = n]
  <2>1. call' = [call EXCEPT ![t] = c]
    BY <1>2, <2>10 DEF Drop, StateType
  <2>2. /\ IsCall(c) /\ c.pc = call[t].pc /\ c.ret = call[t].ret /\ c.fn = call[t].fn
        /\ c.dropped = n /\ c.errp = call[t].errp /\ c.check = call[t].check
    BY <2>0 DEF IsCall
  <2> HIDE DEF c
  <2>3. /\ call' = [u \in Thread |-> call'[u]] /\ call'[t] = c
        /\ \A u \in Thread \ {t} : call'[u] = call[u]
    BY <2>1 DEF StateType
  <2>4. ignored \in [Thread -> Nat] /\ ignored' = [ignored EXCEPT ![t] = ignored[t] + 1]
    BY <1>2 DEF Drop, StateType
  <2>5. /\ ignored' \in [Thread -> Nat] /\ ignored'[t] = ignored[t] + 1
        /\ \A u \in Thread \ {t} : ignored'[u] = ignored[u]
    BY <2>4
  <2>6. /\ slot' = [u \in Thread |-> slot'[u]] /\ IsError(slot'[t])
        /\ errors' \in [Thread -> Nat] /\ Written(t)
        /\ \A u \in Thread \ {t} : slot'[u] = slot[u] /\ errors'[u] = errors[u]
    BY <1>2, WriteError DEF Written, IsCode
  <2>7. StateType'
    BY <1>0, <2>2, <2>3, <2>5, <2>6 DEF StateType, RuntimeType
  <2>8. Elsewhere(t)
    BY <1>0, <2>3, <2>5, <2>6 DEF Elsewhere
  <2>9. Drops(t)
    BY <1>0, <2>2, <2>3, <2>5, <2>6, <2>10 DEF Drops, SameCall
  <2> QED
    BY <2>7, <2>8, <2>9 DEF Outcome
<1> QED
  BY <1>1, <1>2 DEF Optional, Decoded

\* What is parsed is right, or the call fails.
LEMMA ParseOutcome ==
    ASSUME StateType, NEW t \in Thread,
           from_hex(t) \/ parse_uri(t) \/ ParseUris(t) \/ ChooseSource(t)
    PROVE  StateType' /\ Elsewhere(t) /\ Outcome(t)
<1>0. call[t].pc = "body" /\ RuntimeType' /\ UNCHANGED <<strings, calls, ignored>>
  BY TypedRuntime DEF from_hex, parse_uri, ParseUris, ChooseSource, Doing, In, runtime, RuntimeType
<1>1. \/ Advance(t, {}, {}) /\ UNCHANGED <<slot, errors>>
      \/ \E code \in {"INVALID_ID", "INVALID_STORE", "IO_ERROR"} : FailWith(t, code)
  BY DEF from_hex, parse_uri, ParseUris, ChooseSource
<1>2. CASE Advance(t, {}, {}) /\ UNCHANGED <<slot, errors>>
  <2>1. UNCHANGED hostVars
    BY <1>0, <1>2 DEF hostVars
  <2> QED
    BY <1>0, <1>2, <2>1, Going
<1>3. ASSUME NEW code \in {"INVALID_ID", "INVALID_STORE", "IO_ERROR"}, FailWith(t, code)
      PROVE  StateType' /\ Elsewhere(t) /\ Outcome(t)
  <2>1. IsCode(code)
    BY DEF IsCode
  <2> QED
    BY <1>0, <1>3, <2>1, Failing
<1> QED
  BY <1>1, <1>2, <1>3

\* The runtime is there, awaited, built, or its build panics.
LEMMA RuntimeOutcome ==
    ASSUME StateType, NEW t \in Thread, shared_rt(t) \/ Built(t) \/ BuildPanics(t)
    PROVE  StateType' /\ Elsewhere(t) /\ Outcome(t)
<1>0. call[t].pc = "body" /\ RuntimeType'
  BY TypedRuntime DEF shared_rt, Built, BuildPanics, Doing, In, runtime, RuntimeType
<1>1. \/ Advance(t, {}, {}) /\ UNCHANGED hostVars
      \/ UNCHANGED <<call, hostVars>>
      \/ FailWith(t, "INTERNAL") /\ UNCHANGED <<strings, calls, ignored>>
  BY DEF shared_rt, Built, BuildPanics, hostVars
<1>2. IsCode("INTERNAL")
  BY DEF IsCode
<1> QED
  BY <1>0, <1>1, <1>2, Going, Waiting, Failing

\* The API answers, or panics.
LEMMA ResultOutcome ==
    ASSUME StateType, NEW t \in Thread, ApiResult(t) \/ catch_entry(t)
    PROVE  StateType' /\ Elsewhere(t) /\ Outcome(t)
<1>0. call[t].pc = "body" /\ RuntimeType' /\ UNCHANGED <<calls, ignored>>
  BY TypedRuntime DEF ApiResult, catch_entry, In, runtime, RuntimeType
<1>1. \/ \E code : IsCode(code) /\ FailWith(t, code) /\ UNCHANGED strings
      \/ /\ Return(t, "ok") /\ UNCHANGED <<slot, errors>>
         /\ strings' = [strings EXCEPT ![t] = @ + IF call[t].fn \in ReturnsString THEN 1 ELSE 0]
  BY DEF ApiResult, catch_entry, IsCode
<1>2. ASSUME NEW code, IsCode(code), FailWith(t, code), UNCHANGED strings
      PROVE  StateType' /\ Elsewhere(t) /\ Outcome(t)
  BY <1>0, <1>2, Failing
<1>3. CASE /\ Return(t, "ok") /\ UNCHANGED <<slot, errors>>
           /\ strings' = [strings EXCEPT ![t] = @ + IF call[t].fn \in ReturnsString THEN 1 ELSE 0]
  <2> DEFINE n == One(call[t].fn \in ReturnsString)
  <2>1. n \in Nat
    BY DEF One
  <2>2. strings \in [Thread -> Nat] /\ strings' = [strings EXCEPT ![t] = strings[t] + n]
    BY <1>3 DEF StateType, One
  <2> HIDE DEF n
  <2>3. /\ strings' \in [Thread -> Nat] /\ strings'[t] = strings[t] + n
        /\ \A u \in Thread \ {t} : strings'[u] = strings[u]
    BY <2>1, <2>2
  <2>4. StateType'
    BY <1>0, <1>3, <2>3, ReturnCall DEF StateType, RuntimeType
  <2>5. Elsewhere(t)
    BY <1>0, <1>3, <2>3, ReturnCall DEF Elsewhere
  <2>6. Succeeds(t)
    BY <1>0, <1>3, <2>3, ReturnCall DEF Succeeds, n
  <2> QED
    BY <2>4, <2>5, <2>6 DEF Outcome
<1> QED
  BY <1>1, <1>2, <1>3

\* Every step of a call has one of the outcomes and leaves the others alone.
LEMMA BodyOutcome ==
    ASSUME StateType, NEW t \in Thread, Body(t)
    PROVE  StateType' /\ Elsewhere(t) /\ Outcome(t)
BY RequiredOutcome, OptionalOutcome, ParseOutcome, RuntimeOutcome, ResultOutcome DEF Body

-----------------------------------------------------------------------------
(* The invariant.                                                          *)

\* What the types say of one thread.
ThreadType(t) ==
    /\ call[t].pc \in {"idle", "body", "ret"} /\ call[t].ret \in {"none", "ok", "fail"}
    /\ call[t].check \in {"err", "ret"} /\ call[t].errp \in BOOLEAN /\ call[t].dropped \in Nat
    /\ slot[t].from \in Nat /\ errors[t] \in Nat /\ strings[t] \in Nat
    /\ calls[t] \in Nat /\ ignored[t] \in Nat

\* Before a step, and after it.
LEMMA TypedThread == ASSUME StateType, NEW t \in Thread PROVE ThreadType(t)
<1>1. IsCall(call[t]) /\ IsError(slot[t])
  BY DEF StateType
<1>2. errors[t] \in Nat /\ strings[t] \in Nat /\ calls[t] \in Nat /\ ignored[t] \in Nat
  BY DEF StateType
<1> QED
  BY <1>1, <1>2 DEF ThreadType, IsCall, IsError

LEMMA TypedThreadNext == ASSUME StateType', NEW t \in Thread PROVE ThreadType(t)'
<1>1. IsCall(call[t])' /\ IsError(slot[t])'
  BY DEF StateType
<1>2. errors'[t] \in Nat /\ strings'[t] \in Nat /\ calls'[t] \in Nat /\ ignored'[t] \in Nat
  BY DEF StateType
<1> QED
  BY <1>1, <1>2 DEF ThreadType, IsCall, IsError

\* The outcomes keep the accounts.
LEMMA OutcomeInv ==
    ASSUME NEW t \in Thread, ThreadType(t), ThreadType(t)', ThreadInv(t), Outcome(t)
    PROVE  ThreadInv(t)'
<1> USE DEF ThreadInv, CallInv, SlotInv, LedgerInv, Reported, Returned, HasString, One, ThreadType,
            SameCall
<1>1. CASE GoesOn(t)
  BY <1>1 DEF GoesOn, SameAccounts
<1>2. CASE Drops(t)
  BY <1>2 DEF Drops, Written
<1>3. CASE Fails(t)
  BY <1>3 DEF Fails, Written
<1>4. CASE FailsAgain(t)
  BY <1>4 DEF FailsAgain, SameAccounts
<1>5. CASE Succeeds(t)
  BY <1>5 DEF Succeeds
<1> QED
  BY <1>1, <1>2, <1>3, <1>4, <1>5 DEF Outcome


\* A call begins: the variable cannot hold an error of this call yet.
LEMMA CallStep ==
    ASSUME StateType, NEW t \in Thread, ThreadInv(t), Call(t)
    PROVE  StateType' /\ Elsewhere(t) /\ ThreadInv(t)'
<1>1. PICK fn \in host[t].entries, errp \in BOOLEAN, check \in {"err", "ret"} :
         /\ check = "err" => errp
         /\ call' = [call EXCEPT ![t] = [Idle EXCEPT !.fn = fn, !.pc = "body",
                       !.todo = Script(fn), !.errp = errp, !.check = check]]
  BY DEF Call
<1> DEFINE c == [Idle EXCEPT !.fn = fn, !.pc = "body", !.todo = Script(fn), !.errp = errp,
                             !.check = check]
<1>2. /\ IsCall(c) /\ c.pc = "body" /\ c.errp = errp /\ c.check = check
      /\ c.dropped = 0 /\ c.ret = "none"
  BY DEF IsCall, Idle
<1>3. call' = [call EXCEPT ![t] = c]
  BY <1>1
<1> HIDE DEF c
<1>4. /\ call' = [u \in Thread |-> call'[u]] /\ call'[t] = c
      /\ \A u \in Thread \ {t} : call'[u] = call[u]
  BY <1>3 DEF StateType
<1>5. calls \in [Thread -> Nat] /\ calls' = [calls EXCEPT ![t] = calls[t] + 1]
  BY DEF Call, StateType
<1>6. /\ calls' \in [Thread -> Nat] /\ calls'[t] = calls[t] + 1
      /\ \A u \in Thread \ {t} : calls'[u] = calls[u]
  BY <1>5
<1>7. /\ UNCHANGED <<slot, errors, strings, ignored>> /\ RuntimeType'
      /\ call[t].pc = "idle" /\ call[t].ret = "none"
  BY TypedRuntime DEF Call, runtime, RuntimeType, Idle
<1>8. StateType'
  BY <1>2, <1>4, <1>6, <1>7 DEF StateType, RuntimeType
<1>9. Elsewhere(t)
  BY <1>4, <1>6, <1>7 DEF Elsewhere
<1>10. ThreadType(t)
  BY TypedThread
<1>11. CallInv(t)'
  BY <1>1, <1>2, <1>4 DEF CallInv
<1>12. ~Reported(t) /\ ~Reported(t)' /\ ~HasString(t) /\ ~HasString(t)'
  BY <1>2, <1>4, <1>7 DEF Reported, Returned, HasString
<1>13. SlotInv(t)'
  BY <1>2, <1>4, <1>6, <1>7, <1>10, <1>12 DEF SlotInv, ThreadInv, ThreadType
<1>14. LedgerInv(t)'
  BY <1>7, <1>10, <1>12 DEF LedgerInv, ThreadInv, One, ThreadType
<1> QED
  BY <1>8, <1>9, <1>11, <1>13, <1>14 DEF ThreadInv

\* The host settles the accounts of a call.
LEMMA HostReadsStep ==
    ASSUME StateType, NEW t \in Thread, ThreadInv(t), HostReads(t)
    PROVE  StateType' /\ Elsewhere(t) /\ ThreadInv(t)'
<1> DEFINE failed == IF call[t].check = "err" THEN slot[t] # NoError ELSE call[t].ret = "fail"
           freesError == failed /\ call[t].errp /\ slot[t] # NoError
           freesString == ~failed /\ HasString(t)
<1>0. ThreadType(t) /\ CallInv(t) /\ SlotInv(t) /\ LedgerInv(t) /\ call[t].pc = "ret"
  BY TypedThread DEF ThreadInv, HostReads, In
<1>1. /\ call' = [u \in Thread |-> call'[u]] /\ call'[t] = Idle
      /\ \A u \in Thread \ {t} : call'[u] = call[u]
  BY DEF HostReads, StateType
<1>2. IsCall(Idle) /\ Idle.pc = "idle" /\ Idle.ret = "none" /\ IsError(NoError) /\ NoError.from = 0
  BY DEF IsCall, Idle, IsError, NoError
<1>3. /\ freesError => snapdir_error_free(t)
      /\ ~freesError => UNCHANGED <<slot, errors>>
      /\ freesString => snapdir_string_free(t)
      /\ ~freesString => UNCHANGED strings
  BY DEF HostReads
<1>4. UNCHANGED <<calls, ignored>> /\ RuntimeType'
  BY TypedRuntime DEF HostReads, runtime, RuntimeType
<1>5. /\ freesError => errors[t] > 0
      /\ freesString => strings[t] > 0
  BY <1>0 DEF SlotInv, LedgerInv
<1> HIDE DEF freesError, freesString, failed
<1>6. /\ errors' \in [Thread -> Nat] /\ errors'[t] = errors[t] - One(freesError)
      /\ \A u \in Thread \ {t} : errors'[u] = errors[u]
  <2>1. errors \in [Thread -> Nat] /\ One(freesError) \in Nat /\ errors[t] - One(freesError) \in Nat
    BY <1>0, <1>5 DEF StateType, One, ThreadType
  <2>2. errors' = [errors EXCEPT ![t] = errors[t] - One(freesError)]
    BY <1>0, <1>3, <2>1 DEF snapdir_error_free, One, ThreadType
  <2> QED
    BY <2>1, <2>2
<1>7. /\ strings' \in [Thread -> Nat] /\ strings'[t] = strings[t] - One(freesString)
      /\ \A u \in Thread \ {t} : strings'[u] = strings[u]
  <2>1. strings \in [Thread -> Nat] /\ One(freesString) \in Nat
        /\ strings[t] - One(freesString) \in Nat
    BY <1>0, <1>5 DEF StateType, One, ThreadType
  <2>2. strings' = [strings EXCEPT ![t] = strings[t] - One(freesString)]
    BY <1>0, <1>3, <2>1 DEF snapdir_string_free, One, ThreadType
  <2> QED
    BY <2>1, <2>2
<1>8. /\ slot' = [u \in Thread |-> slot'[u]]
      /\ slot'[t] = IF freesError THEN NoError ELSE slot[t]
      /\ \A u \in Thread \ {t} : slot'[u] = slot[u]
  BY <1>3 DEF StateType, snapdir_error_free
<1>9. StateType'
  BY <1>1, <1>2, <1>4, <1>6, <1>7, <1>8 DEF StateType, RuntimeType
<1>10. Elsewhere(t)
  BY <1>1, <1>4, <1>6, <1>7, <1>8 DEF Elsewhere
<1>11. ThreadType(t)'
  BY <1>9, TypedThreadNext
<1>12. CallInv(t)' /\ ~Reported(t)' /\ ~HasString(t)' /\ call'[t].pc = "idle"
  BY <1>1, <1>2 DEF CallInv, Reported, Returned, HasString
<1>13. SlotInv(t)'
  BY <1>0, <1>2, <1>4, <1>6, <1>8, <1>11, <1>12 DEF SlotInv, One, ThreadType
<1>14. LedgerInv(t)'
  <2>1. /\ freesError => slot'[t] = NoError /\ errors'[t] = errors[t] - 1
        /\ ~freesError => slot'[t] = slot[t] /\ errors'[t] = errors[t]
        /\ freesString => strings'[t] = strings[t] - 1
        /\ ~freesString => strings'[t] = strings[t]
    BY <1>0, <1>6, <1>7, <1>8 DEF One, ThreadType
  <2>2. CASE Reported(t)
    BY <1>0, <1>4, <1>12, <2>1, <2>2
       DEF LedgerInv, SlotInv, Reported, Returned, HasString, One, ThreadType, freesError,
           freesString, failed
  <2>3. CASE ~Reported(t)
    BY <1>0, <1>4, <1>12, <2>1, <2>3
       DEF LedgerInv, CallInv, Reported, Returned, HasString, One, ThreadType, freesError,
           freesString, failed
  <2> QED
    BY <2>2, <2>3
<1> QED
  BY <1>9, <1>10, <1>12, <1>13, <1>14 DEF ThreadInv

\* Every thread starts outside any call, with nothing allocated.
LEMMA FfiInitInvariant == FfiInit => FfiInv
<1> SUFFICES ASSUME FfiInit PROVE FfiInv
  OBVIOUS
<1>1. /\ IsCall(Idle) /\ Idle.pc = "idle" /\ Idle.ret = "none"
      /\ IsError(NoError) /\ NoError.from = 0
  BY DEF IsCall, Idle, IsError, NoError
<1>2. StateType
  BY <1>1 DEF FfiInit, StateType
<1>3. ASSUME NEW t \in Thread PROVE ThreadInv(t)
  <2>1. /\ call[t] = Idle /\ slot[t] = NoError /\ errors[t] = 0 /\ strings[t] = 0
        /\ calls[t] = 0 /\ ignored[t] = 0
    BY <1>3 DEF FfiInit
  <2> QED
    BY <1>1, <2>1 DEF ThreadInv, CallInv, SlotInv, LedgerInv, Reported, Returned, HasString, One
<1> QED
  BY <1>2, <1>3 DEF FfiInv

\* Every step keeps the invariant.
LEMMA FfiInvNext ==
    ASSUME FfiInv, [FfiNext]_ffiVars PROVE FfiInv'
<1>1. CASE FfiNext
  <2>1. PICK t \in Thread : Call(t) \/ Body(t) \/ HostReads(t)
    BY <1>1 DEF FfiNext
  <2>2. StateType /\ ThreadInv(t)
    BY DEF FfiInv
  <2>3. StateType' /\ Elsewhere(t) /\ ThreadInv(t)'
    <3>1. ASSUME Body(t) PROVE StateType' /\ Elsewhere(t) /\ ThreadInv(t)'
      BY <2>2, <3>1, BodyOutcome, TypedThread, TypedThreadNext, OutcomeInv
    <3> QED
      BY <2>1, <2>2, <3>1, CallStep, HostReadsStep
  <2>4. ASSUME NEW u \in Thread \ {t} PROVE ThreadInv(u)'
    <3>1. ThreadInv(u)
      BY DEF FfiInv
    <3> QED
      BY <2>3, <3>1 DEF Elsewhere, ThreadInv, CallInv, SlotInv, LedgerInv, Reported, Returned,
                        HasString
  <2> QED
    BY <2>3, <2>4 DEF FfiInv
<1>2. CASE UNCHANGED ffiVars
  BY <1>2 DEF FfiInv, StateType, ThreadInv, CallInv, SlotInv, LedgerInv, Reported, Returned,
              HasString, ffiVars, runtime, hostVars
<1> QED
  BY <1>1, <1>2

\* The invariant holds in every reachable state.
LEMMA InvariantHolds == FfiSpec => []FfiInv
BY FfiInitInvariant, FfiInvNext, PTL DEF FfiSpec

\* A failure always comes with an error, and with the error of this very call
\* unless the thread has once passed an optional string that is not UTF-8, and
\* a success tells by the error variable whether it dropped a parameter: for
\* any number of host threads and calls, whatever the API answers, and though
\* the build of the runtime may panic under the threads that wait for it.
THEOREM FailuresExplained == FfiSpec => []ErrorsExplained
<1>1. FfiInv => ErrorsExplained
  <2> SUFFICES ASSUME FfiInv PROVE ErrorsExplained
    OBVIOUS
  <2>1. FfiTypeOK
    BY DEF FfiInv, StateType, FfiTypeOK, ThreadInv, SlotInv
  <2>2. ASSUME NEW t \in Thread, call[t].errp, Returned(t, "fail")
        PROVE  slot[t] # NoError /\ (slot[t].from = calls[t] \/ ignored[t] > 0)
    BY <2>2 DEF FfiInv, ThreadInv, SlotInv, Reported
  <2>3. ASSUME NEW t \in Thread, call[t].errp, Returned(t, "ok")
        PROVE  (slot[t].from = calls[t]) = (call[t].dropped > 0)
    BY <2>3 DEF FfiInv, ThreadInv, SlotInv, Reported, Returned
  <2> QED
    BY <2>1, <2>2, <2>3 DEF ErrorsExplained
<1> QED
  BY <1>1, InvariantHolds, PTL

\* Nothing leaks through a host that follows the contract, except what the
\* dropped parameters cost: each loses at most one error and, through the
\* contract's reading of a success with an error, one string.
THEOREM NothingElseLeaks == FfiSpec => []LeaksBounded
<1>1. FfiInv => LeaksBounded
  <2> SUFFICES ASSUME FfiInv, NEW t \in Thread, call[t] = Idle
               PROVE  errors[t] <= ignored[t] /\ strings[t] <= ignored[t]
    BY DEF LeaksBounded
  <2>1. ~Reported(t) /\ ~HasString(t)
    BY DEF Reported, Returned, HasString, Idle
  <2>2. ThreadType(t) /\ LedgerInv(t)
    BY TypedThread DEF FfiInv, ThreadInv
  <2> QED
    BY <2>1, <2>2 DEF LedgerInv, One, ThreadType
<1> QED
  BY <1>1, InvariantHolds, PTL


=============================================================================
