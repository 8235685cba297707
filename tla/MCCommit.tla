------------------------------ MODULE MCCommit ------------------------------
(* The instances of Commit that TLC checks.                                   *)
EXTENDS Commit

OnePlace  == {"t1"}
TwoPlaces == {"t1", "t2"}
OneTemp   == {"x"}

=============================================================================
