----------------------------- MODULE MCAnnounce -----------------------------
(* Small instances of Announce.                                               *)
EXTENDS Announce, TLC

CONSTANTS p1, p2, q1

Paths == {p1, p2}
OnePeer == {q1}

=============================================================================
