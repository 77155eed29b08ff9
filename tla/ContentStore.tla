---------------------------- MODULE ContentStore ----------------------------
(***************************************************************************)
(* What a snapdir store promises, whatever medium it lives on.             *)
(*                                                                         *)
(* A store is a content-addressed pool of objects plus a set of manifests. *)
(* A manifest names one object per file entry.  The `Store` trait          *)
(* (snapdir-core/src/store.rs) and every adapter keep one discipline: an   *)
(* object enters the pool whole or not at all, and a manifest is committed *)
(* last, once every object it names is in the pool.  Objects are never     *)
(* removed by a store; a manifest may be (`delete_manifest`, the mirror).  *)
(*                                                                         *)
(* Checksums are collision free here, so an object is its own address and  *)
(* a manifest is its own snapshot id.                                      *)
(***************************************************************************)
CONSTANTS File,    \* the file entries of a manifest (their paths)
          Data     \* the byte contents a file may have

VARIABLES objects,     \* the contents readable at their own address
          manifests    \* the snapshots whose manifest is readable

vars == <<objects, manifests>>

\* A manifest, reduced to its file entries: path |-> checksum.
Snapshot == [File -> Data]

\* The object addresses a manifest names.
ObjectsOf(m) == {m[f] : f \in File}

TypeOK == /\ objects \subseteq Data
          /\ manifests \subseteq Snapshot

Init == /\ objects = {}
        /\ manifests = {}

\* put_object / the per-object leg of push.
AddObject(d) == /\ d \notin objects
                /\ objects' = objects \cup {d}
                /\ UNCHANGED manifests

\* put_manifest / the last leg of push.
CommitManifest(m) == /\ m \notin manifests
                     /\ ObjectsOf(m) \subseteq objects
                     /\ manifests' = manifests \cup {m}
                     /\ UNCHANGED objects

\* delete_manifest: the manifest file only, never an object.
DeleteManifest(m) == /\ m \in manifests
                     /\ manifests' = manifests \ {m}
                     /\ UNCHANGED objects

Next == \/ \E d \in Data : AddObject(d)
        \/ \E m \in Snapshot : CommitManifest(m) \/ DeleteManifest(m)

Spec == Init /\ [][Next]_vars

=============================================================================
