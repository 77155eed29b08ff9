-------------------------------- MODULE Diff --------------------------------
(***************************************************************************)
(* `snapdir diff` (snapdir-cli/src/diff.rs and run_diff of cli.rs): the    *)
(* manifests of each side are united into one map, and the paths of the    *)
(* two maps are classified.  It is stated over the entries of Walk, whose  *)
(* finished manifest is compared with the tree as it is now.               *)
(***************************************************************************)
EXTENDS Walk

(* The separator of a path is in no name. *)
ASSUME DiffAssumption == "/" \notin Names

(* An entry's path as it is written: a directory's ends in a slash, so a   *)
(* file and a directory never have the same one.                           *)
PathOf(e) == IF e.type = "D" THEN Append(e.path, "/") ELSE e.path

(* What a change of an entry is: of a file anything, of a directory only   *)
(* its permissions, for its checksum and size are those of its children.   *)
fingerprint(e) ==
  IF e.type = "F" THEN <<e.type, e.perm, e.checksum, e.size>> ELSE <<e.type, e.perm>>

same_content(a, b) == fingerprint(a) = fingerprint(b)

Collision == [ok |-> FALSE, map |-> << >>]

EntryAt(m, k) == CHOOSE e \in m : PathOf(e) = k
MapOf(m) == [k \in {PathOf(e) : e \in m} |-> EntryAt(m, k)]

(* One manifest of a side: a path that is there with other content is a    *)
(* collision, or is replaced.                                              *)
Unite(side, m, on_conflict) ==
  LET at == MapOf(m)
      clash == {k \in DOMAIN at \cap DOMAIN side.map : ~same_content(side.map[k], at[k])}
  IN IF ~side.ok THEN side
     ELSE IF clash # {} /\ on_conflict = "error" THEN Collision
     ELSE [ok |-> TRUE,
           map |-> [k \in DOMAIN at \cup DOMAIN side.map |->
                      IF k \in clash \/ k \notin DOMAIN side.map THEN at[k] ELSE side.map[k]]]

union_side(manifests, on_conflict) ==
  LET united[i \in 0..Len(manifests)] ==
        IF i = 0 THEN [ok |-> TRUE, map |-> << >>]
        ELSE Unite(united[i - 1], manifests[i], on_conflict)
  IN united[Len(manifests)]

Status(from, to, k) ==
  CASE k \notin DOMAIN from -> "A"
    [] k \notin DOMAIN to -> "D"
    [] OTHER -> IF same_content(from[k], to[k]) THEN "=" ELSE "M"
Row(from, to, k) == [status |-> Status(from, to, k), path |-> k]

(* Mutant: directories have rows of their own. *)
classify_directories(from, to, all) ==
  {Row(from, to, k) :
     k \in {p \in DOMAIN from \cup DOMAIN to : all \/ Status(from, to, p) # "="}}

(* The rows: a path whose entries are all directories has none, its files  *)
(* have theirs.                                                            *)
classify(from, to, all) ==
  LET paths == {k \in DOMAIN from \cup DOMAIN to :
                  \/ k \in DOMAIN from /\ from[k].type # "D"
                  \/ k \in DOMAIN to /\ to[k].type # "D"}
  IN {Row(from, to, k) : k \in {p \in paths : all \/ Status(from, to, p) # "="}}

(* The manifests of a side's stores, in order; an id that a store holds    *)
(* pins that store to it.  The id of a manifest is the manifest here.      *)
resolve_side(refs, id) ==
  FlattenSeq([i \in DOMAIN refs |->
    IF id \in ToSet(refs[i]) THEN <<id>> ELSE refs[i]])

run_diff(from, to, id, all, on_conflict) ==
  LET f == union_side(resolve_side(from, id), on_conflict)
      t == union_side(resolve_side(to, id), on_conflict)
      rows == IF f.ok /\ t.ok THEN classify(f.map, t.map, all) ELSE {}
  IN [ok |-> f.ok /\ t.ok, rows |-> rows,
      differs |-> \E r \in rows : r.status # "="]

-----------------------------------------------------------------------------
(* Properties of a finished walk, compared with the tree as it is now.     *)

Rewalked == {RefEntry(p) : p \in RefListed}
Compared == phase = "done" /\ ~RefRefuses
FileEntries(m) == {e \in m : e.type = "F"}
DiffOf(a, b, all) == run_diff(<<<<a>>>>, <<<<b>>>>, {}, all, "error")
Flip(s) == CASE s = "A" -> "D" [] s = "D" -> "A" [] OTHER -> s

(* diff is silent exactly when the two snapshots have the same files, and  *)
(* has rows of files alone, however the links reach them; after a walk     *)
(* that nobody disturbed it is silent.  Read backwards it adds what it     *)
(* removed and changes what it changed, and --all adds just the files the  *)
(* two share.  A directory has no row, so one whose permissions alone      *)
(* changed goes unnoticed (classify).                                      *)
PairExact(now) ==
  LET there == DiffOf(manifest, now, FALSE)
  IN /\ there.ok
     /\ there.differs <=> FileEntries(manifest) # FileEntries(now)
     /\ edits = 0 => there.rows = {}
     /\ DiffOf(now, manifest, FALSE).rows =
          {[r EXCEPT !.status = Flip(r.status)] : r \in there.rows}
     /\ DiffOf(manifest, now, TRUE).rows = there.rows \cup
          {[status |-> "=", path |-> e.path] : e \in FileEntries(manifest \cap now)}

(* A side of two snapshots collides exactly when they disagree on a file   *)
(* they share; with last-wins it compares as its last snapshot does, plus  *)
(* the files that only the first one has; and an --id that a store holds   *)
(* pins that store, whatever else is in it (union_side, resolve_side).     *)
UnionExact(now) ==
  LET pair == <<<<manifest, now>>>>
      plain == DiffOf(manifest, now, FALSE)
      last == run_diff(pair, <<<<now>>>>, {}, FALSE, "last-wins")
  IN /\ run_diff(pair, <<<<now>>>>, {}, FALSE, "error").ok =
          ~\E r \in plain.rows : r.status = "M"
     /\ last.ok /\ last.rows = {r \in plain.rows : r.status = "D"}
     /\ run_diff(pair, <<<<now>>>>, manifest, FALSE, "error") = plain

(* What diff tells of a finished walk and the tree as it is now, one       *)
(* snapshot a side or a union of two, is what really differs (run_diff).   *)
DiffExact ==
  Compared => \A now \in {Rewalked} : PairExact(now) /\ UnionExact(now)

=============================================================================
