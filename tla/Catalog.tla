------------------------------ MODULE Catalog -------------------------------
(***************************************************************************)
(* The snapshot catalog (snapdir-catalog/src/lib.rs): a redb file with an  *)
(* event log, a history of records and the head of every location.  The    *)
(* file is opened exclusively by one process at a time; every transaction  *)
(* is one step here and is durable at its end.  by_location, by_id and     *)
(* records are written in one transaction and hold the same rows: they are *)
(* one history here, of every location in the order of seq.  A scan of the *)
(* tables goes by created_at first, the wall clock, which may stand still  *)
(* or be set back.                                                         *)
(***************************************************************************)
EXTENDS Integers, Sequences, SequencesExt, FiniteSetsExt

CONSTANTS Proc, Location, Snap, None

ASSUME CatalogAssumption == None \notin Snap

VARIABLES events,   \* the event log: [event, id, location, created_at]
          history,  \* location -> its records: [id, previous_id, created_at]
          loc_head, \* location -> id of its head, or None
          handle,   \* process -> "closed", "open", or "orphan" when the file
                    \* it has open was unlinked under it
          set_back  \* history: the clock was set back

catalog == <<events, history, loc_head, handle, set_back>>

Fresh ==
  /\ events = <<>>
  /\ history = [l \in Location |-> <<>>]
  /\ loc_head = [l \in Location |-> None]
  /\ handle = [p \in Proc |-> "closed"]
  /\ set_back = FALSE

Stamps == {events[k].created_at : k \in DOMAIN events}
            \union UNION {{history[l][k].created_at : k \in DOMAIN history[l]} : l \in Location}
Latest == Max(Stamps \union {0})

\* Clock::now: the latest time there is a row of, a later one, or, the clock
\* set back, one before them all.  It is set back once at most, and from then
\* on stands still no more.
Now(t) ==
  /\ t \in IF Stamps = {} \/ set_back THEN {Latest + 1} ELSE {0, Latest, Latest + 1}
  /\ set_back' = (set_back \/ t = 0)

\* Mutant: the file is opened without its lock.
open_shared(p) ==
  /\ handle' = [handle EXCEPT ![p] = "open"]
  /\ UNCHANGED <<events, history, loc_head, set_back>>

\* Database::create takes the file's lock and fails while another holds it;
\* the tables are created if they are not there.  A crash or the end of the
\* process closes the file.
open(p) ==
  /\ \A q \in Proc : handle[q] # "open"
  /\ handle' = [handle EXCEPT ![p] = "open"]
  /\ UNCHANGED <<events, history, loc_head, set_back>>

Locked == \E q \in Proc : handle[q] = "open"

close(p) ==
  /\ handle' = [handle EXCEPT ![p] = "closed"]
  /\ UNCHANGED <<events, history, loc_head, set_back>>

\* The cache directory is emptied with the catalog in it: whoever has the file
\* open goes on with an unlinked one, the next to open it finds a new one.
unlink ==
  /\ events' = <<>>
  /\ history' = [l \in Location |-> <<>>]
  /\ loc_head' = [l \in Location |-> None]
  /\ handle' = [q \in Proc |-> IF handle[q] = "open" THEN "orphan" ELSE handle[q]]
  /\ UNCHANGED set_back

\* The first half of log: the event, in a transaction of its own.
log(p, event, id, location) ==
  /\ IF handle[p] = "open"
       THEN \E t \in {0, Latest, Latest + 1} :
              /\ Now(t)
              /\ events' = Append(events, [event |-> event, id |-> id,
                                          location |-> location, created_at |-> t])
       ELSE UNCHANGED <<events, set_back>>
  /\ UNCHANGED <<history, loc_head, handle>>

\* insert_history: the record and the head, in one transaction.
insert_history(p, location, id, previous, created_at) ==
  /\ IF handle[p] = "open"
       THEN /\ history' = [history EXCEPT ![location] =
                 Append(@, [id |-> id, previous_id |-> previous, created_at |-> created_at])]
            /\ loc_head' = [loc_head EXCEPT ![location] = id]
       ELSE UNCHANGED <<history, loc_head>>
  /\ UNCHANGED <<events, handle, set_back>>

\* The record of an event has the event's time.
Stamp(p) == IF handle[p] = "open" THEN Last(events).created_at ELSE 0

\* The time of the last record of a location.
LastStamp(location) ==
  IF history[location] = <<>> THEN 0 ELSE Last(history[location]).created_at

\* The head as the process that has the file open reads it; of an orphaned
\* file the model only knows that nobody else will see it.
head_id(p, location) == loc_head[location]

\* rebuild's first transaction: every row of the location goes, head included.
clear_location(p, location) ==
  /\ IF handle[p] = "open"
       THEN /\ history' = [history EXCEPT ![location] = <<>>]
            /\ loc_head' = [loc_head EXCEPT ![location] = None]
       ELSE UNCHANGED <<history, loc_head>>
  /\ UNCHANGED <<events, handle, set_back>>

-----------------------------------------------------------------------------
(* The queries.                                                            *)

\* Of two rows, the one a reverse scan comes to first: by created_at, and by
\* seq where that is equal.
Before(r, i, j) ==
  \/ r[i].created_at > r[j].created_at
  \/ r[i].created_at = r[j].created_at /\ i > j

\* The reverse scan of the rows K of r.
ReverseScan(r, K) ==
  [n \in 1..Cardinality(K) |->
     r[CHOOSE k \in K : Cardinality({j \in K : Before(r, j, k)}) = n - 1]]

locations == {l \in Location : loc_head[l] # None}

Rows(location) == history[location]

revisions(location) == ReverseScan(Rows(location), DOMAIN Rows(location))

\* The rows of an id that name a predecessor, at one location.
ancestors(id, location) ==
  LET r == Rows(location)
  IN  ReverseScan(r, {k \in DOMAIN r : r[k].id = id /\ r[k].previous_id # None})

-----------------------------------------------------------------------------

\* Every location's records are one chain up to its head: each names the one
\* before it, no record repeats its predecessor, and loc_head is the last of
\* them, however processes race to log, are killed between the transactions,
\* or rebuild the location (Catalog::log, insert_history, rebuild).  The three
\* queries tell that one story too, unless the clock was set back: revisions,
\* latest first, begin with the id that locations reports and each follows the
\* one it names, and ancestors of an id begin with the predecessor of its
\* latest revision (entries of equal time are kept in the order they were
\* logged).
HistoryIsAChain ==
  \A l \in Location :
    LET r == Rows(l)
        v == revisions(l)
    IN  /\ loc_head[l] = IF r = <<>> THEN None ELSE Last(r).id
        /\ \A k \in 1..Len(r) :
             /\ r[k].previous_id = IF k = 1 THEN None ELSE r[k - 1].id
             /\ r[k].previous_id # r[k].id
        /\ l \in locations <=> v # <<>>
        /\ set_back \/ \A k \in 1..Len(v) :
             /\ v[k].previous_id = IF k = Len(v) THEN None ELSE v[k + 1].id
             /\ k = 1 => v[k].id = loc_head[l]
             /\ (k < Len(v) /\ \A j \in 1..(k - 1) : v[j].id # v[k].id) =>
                  ancestors(v[k].id, l)[1].previous_id = v[k + 1].id

=============================================================================
