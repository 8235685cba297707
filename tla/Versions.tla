------------------------------ MODULE Versions ------------------------------
(* Version vectors (crates/engine/src/version.rs).  A vector maps every       *)
(* node to a counter; a key the code does not store reads as 0, so the model  *)
(* keeps a total function.  Comparing two vectors is partial: neither of two  *)
(* concurrent vectors dominates the other.                                    *)
EXTENDS Integers

CONSTANTS
    Node,         \* the members of the folder; their ids are ordered bytes
    MaxCounter    \* where a counter saturates: u64::MAX in the code

ASSUME NodeAssumption == Node \subseteq Nat
ASSUME MaxCounterAssumption == MaxCounter \in Nat

Version == [Node -> 0..MaxCounter]

\* The version of an entry nobody has touched.
Empty == [n \in Node |-> 0]

\* One pass over the keys of either vector sets these two flags.
Greater(v, w) == \E n \in Node : v[n] > w[n]

Compare(v, w) ==
    CASE  Greater(v, w) /\ ~Greater(w, v) -> "dominates"
      []  Greater(w, v) /\ ~Greater(v, w) -> "dominated"
      []  Greater(v, w) /\  Greater(w, v) -> "concurrent"
      [] OTHER                            -> "equal"

Dominates(v, w)         == Compare(v, w) = "dominates"
DominatesOrEquals(v, w) == Compare(v, w) \in {"dominates", "equal"}
Concurrent(v, w)        == Compare(v, w) = "concurrent"

\* Component-wise maximum, no increment.
Merge(v, w) == [n \in Node |-> IF v[n] >= w[n] THEN v[n] ELSE w[n]]

\* Mutant: a change that does not move its author's counter.
NotIncremented(v, n) == v

\* The local-change rule: one step on, except at the very top of the range.
Incremented(v, n) == [v EXCEPT ![n] = IF @ < MaxCounter THEN @ + 1 ELSE @]

=============================================================================
