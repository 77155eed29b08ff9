------------------------------- MODULE Scripts -------------------------------
(***************************************************************************)
(* What the ssh and the sftp push scripts have in common: the snapshots    *)
(* they push and the one remote store that several runs share.             *)
(***************************************************************************)
EXTENDS Naturals

CONSTANTS
    Pusher,  \* runs of the push script
    File,    \* the file entries of a manifest
    Data     \* object contents (an object is its own address)

Snapshot == [File -> Data]
ObjectsOf(m) == {m[f] : f \in File}

VARIABLES
    objects,    \* the remote .objects
    manifests,  \* the remote .manifests
    pc,         \* where each script is
    want        \* the snapshot each script pushes

remote == <<objects, manifests>>

Ended == {"done", "failed"}

Goto(p, stage) == pc' = [pc EXCEPT ![p] = stage]

=============================================================================
