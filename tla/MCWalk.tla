------------------------------- MODULE MCWalk -------------------------------
(* Small trees for the walk: nested directories, links to directories and  *)
(* to files, a cycle of links, links into local object pools, links to     *)
(* nowhere, through a file and past a directory that may not be searched,  *)
(* excluded names, a special file and files that may not be read.          *)
EXTENDS Diff, TLC

X == <<"x">>
XX == <<"x", "x">>
YY == <<"y", "y">>
MCContents == {X, XX, YY}
Root == (<<>> :> DirNode("755"))

Nested == Root @@ (<<"a">> :> DirNode("700")) @@ (<<"a", "f">> :> FileNode(X))
               @@ (<<"f">> :> FileNode(XX))
Linked == Root @@ (<<"a">> :> DirNode("755")) @@ (<<"a", "f">> :> FileNode(X))
               @@ (<<"l">> :> LinkTo(InTree(<<"a">>)))
Cyclic == Root @@ (<<"l">> :> LinkTo(InTree(<<>>))) @@ (<<"f">> :> FileNode(X))
Pooled == Root @@ (<<"f">> :> LinkTo(InPool("cache", X, TRUE)))
               @@ (<<"l">> :> LinkTo(InPool("other", X, TRUE)))
               @@ (<<"a">> :> LinkTo(InPool("cache", XX, FALSE)))
Hidden == Root @@ (<<"git">> :> DirNode("755")) @@ (<<"git", "f">> :> FileNode(X))
               @@ (<<"proc">> :> FileNode(X)) @@ (<<"a">> :> Special)
               @@ (<<"l">> :> LinkTo(InTree(<<"proc">>)))
(* A link to nowhere, and one on through a file. *)
Astray == Root @@ (<<"f">> :> FileNode(X)) @@ (<<"a">> :> LinkTo(InTree(<<"git">>)))
               @@ (<<"l">> :> LinkTo(InTree(<<"f", "a">>)))
(* What may not be read lies in an excluded directory, and links lead there.*)
Private(p) == Root @@ (<<"git">> :> DirNode("000")) @@ (<<"git", "f">> :> FileNode(X))
                   @@ (<<"proc">> :> LockedFile(X)) @@ (<<"l">> :> LinkTo(InTree(p)))

Full == [a \in {"cache", "other"} \X {X, XX} |-> a[2]]
Corrupt == [Full EXCEPT ![<<"cache", X>>] = YY]
Pruned == [a \in DOMAIN Full \ {<<"cache", X>>, <<"other", X>>} |-> Full[a]]
MCScenes ==
  [tree : {Nested, Linked, Cyclic, Hidden, Astray, Private(<<"git">>),
           Private(<<"git", "f">>), Private(<<"proc">>)}, pool : {<< >>}] \cup
  [tree : {Pooled}, pool : {Full, Corrupt, Pruned}]

Ask == [root |-> "dir", alg |-> "blake3", no_follow |-> FALSE, exclude |-> {},
        stores |-> {"cache"}, verify_copies |-> FALSE, walk_jobs |-> 0]
MCRequests ==
  {Ask, [Ask EXCEPT !.verify_copies = TRUE],
   [Ask EXCEPT !.alg = "md5", !.walk_jobs = 1],
   [Ask EXCEPT !.exclude = {"%system%", "f"}],
   [Ask EXCEPT !.exclude = {"%common%", "proc"}],
   [Ask EXCEPT !.root = "relative"], [Ask EXCEPT !.root = "file"],
   [Ask EXCEPT !.root = "missing"]}
=============================================================================
