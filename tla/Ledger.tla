------------------------------- MODULE Ledger -------------------------------
(* What the writer, the releaser and the executor promise together            *)
(* (crates/delocal/src/store/writer.rs, "Effects wait for Durable"): what is  *)
(* durable is always a prefix of what was submitted, and an effect is         *)
(* performed only after everything submitted up to its own group is durable,  *)
(* and in the order of the groups.  A crash takes what is not durable.        *)
EXTENDS Naturals

CONSTANT Group      \* the numbers groups are given, in the order submitted

VARIABLES
    log,        \* the groups with writes that were submitted
    durable,    \* those a crash cannot take away
    intents,    \* the groups with an effect that may still be performed
    performed   \* the groups whose effect was performed

vars == <<log, durable, intents, performed>>

Init ==
    /\ log       = {}
    /\ durable   = {}
    /\ intents   = {}
    /\ performed = {}

\* What was submitted up to the group t.
UpTo(t) == {s \in log : s <= t}

\* A new group, with or without writes, with or without an effect.
Submit(t, writes, effect) ==
    /\ \A s \in log \cup intents \cup performed : s < t
    /\ log'     = log \cup (IF writes THEN {t} ELSE {})
    /\ intents' = intents \cup (IF effect THEN {t} ELSE {})
    /\ UNCHANGED <<durable, performed>>

\* More of the log becomes durable, no group before those in front of it.
Persist(more) ==
    /\ durable \subseteq more
    /\ \A t \in more : UpTo(t) \subseteq more
    /\ durable' = more
    /\ UNCHANGED <<log, intents, performed>>

Perform(t) ==
    /\ UpTo(t) \subseteq durable
    /\ \A s \in performed : s < t
    /\ performed' = performed \cup {t}
    /\ intents'   = intents \ {t}
    /\ UNCHANGED <<log, durable>>

\* Effects that will not be performed: theirs or the process's end came first.
Drop(gone) ==
    /\ intents' = intents \ gone
    /\ UNCHANGED <<log, durable, performed>>

Crash ==
    /\ log'     = durable
    /\ intents' = {}
    /\ UNCHANGED <<durable, performed>>

Next ==
    \/ \E t \in Group, writes, effect \in BOOLEAN : Submit(t, writes, effect)
    \/ \E more \in SUBSET log : Persist(more)
    \/ \E t \in intents : Perform(t)
    \/ \E gone \in SUBSET intents : Drop(gone)
    \/ Crash

Spec == Init /\ [][Next]_vars

=============================================================================
