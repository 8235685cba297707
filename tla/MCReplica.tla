----------------------------- MODULE MCReplica ------------------------------
(* The instances of Replica that TLC checks: who the members are, which of    *)
(* them have which powers, and what an observation can report.                *)
EXTENDS Replica

Two   == {1, 2}
Three == {1, 2, 3}

Nobody        == {}
OnlyFirst     == {1}
OnlySecond    == {2}
FirstTwo      == {1, 2}
SecondAndLast == {2, 3}

\* One content tells a touch from an edit of a new file only; two also tell
\* apart two edits, and a file that is changed back.
OneContent  == {1}
TwoContents == {1, 2}

\* A clock that stands still: stamps still grow, by one with each change.
OneTime == {5}

\* The exec bit takes the same path through the code as the hash.
NoExec == {FALSE}

=============================================================================
