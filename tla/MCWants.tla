------------------------------- MODULE MCWants -------------------------------
(* The instances of Wants that TLC checks: a directory (1) with a directory   *)
(* (2) in it, a file (3) in that, and a file beside them (4).                 *)
EXTENDS Wants, TLC

TwoPeers  == {1, 2}
FourPaths == 1..4
Tree      == <<{}, {1}, {1, 2}, {}>>
Names     == <<1, 3, 5, 1>>
TwoDirs   == {1, 2}
TheBig    == {4}

Both      == {TwoPeers}

\* Empty, or with everything but the last file.
Starts == {{}, {1, 2, 3}}

\* Two files to fetch, one of them in a new directory; a directory to make and
\* one to record above a file; a tree to remove; a file to touch.
Files   == 1 :> "dir" @@ 3 :> "file" @@ 4 :> "file"
Nested  == 1 :> "dir" @@ 2 :> "adopt" @@ 3 :> "file"
Removed == 1 :> "delete" @@ 2 :> "delete" @@ 3 :> "delete"
Touched == 3 :> "meta"
News    == {Files, Nested, Removed, Touched}

\* What was added is moved away, what was removed is asked for.
Undone == {1 :> "trash" @@ 2 :> "trash" @@ 3 :> "trash", 1 :> "dir" @@ 3 :> "file"}
=============================================================================
