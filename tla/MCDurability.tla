---------------------------- MODULE MCDurability ----------------------------
(* The instances of Durability that TLC checks.                               *)
EXTENDS Durability

\* The two that wait for the most and the least: a commit asked for by an event
\* that changed the records, and a message of one that changed nothing.
TwoKinds == {[writes |-> TRUE, effect |-> "commit"],
             [writes |-> FALSE, effect |-> "message"]}

=============================================================================
