------------------------------- MODULE MCScan -------------------------------
(* An instance of Scan: two files and a symlink.                              *)
EXTENDS Scan

TheContents == {"f", "g", "l"}
TheLinks    == {"l"}
NoLinks     == {}
TheFile     == {"f"}
TwoFiles    == {"f", "g"}

=============================================================================
