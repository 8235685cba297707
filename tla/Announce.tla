------------------------------ MODULE Announce ------------------------------
(* One sender and the members it announces its records to: sequence numbers,  *)
(* the batch window, pause and revert, batches that chain, acknowledgements   *)
(* and catch-up (crates/engine/src/index.rs, batch.rs, folder.rs, engine.rs). *)
(*                                                                            *)
(* A record is its sequence number: every write takes a new one, and what it  *)
(* says is Replica's concern.  A write is a local change or the adoption of a *)
(* peer's record; why one happens is not modelled here.                       *)
EXTENDS Integers, FiniteSets

CONSTANTS
    Path,         \* paths of the folder
    Peer,         \* the other members
    MaxSeq,       \* bound: writes of the sender
    MaxFaults     \* bound: connections lost and restarts

ASSUME BoundsAssumption == MaxSeq \in Nat /\ MaxFaults \in Nat

VARIABLES
    seq,          \* the last sequence number given to a record
    record,       \* each path's record, 0 if there is none
    pending,      \* paths with an unannounced local change ...
    kept,         \* ... and the record peers last saw there, 0 if none
    announced,    \* seq when the last batch was formed
    window,       \* the batch window is open
    paused,       \* the pre-check paused the folder
    acked,        \* what each peer last said it holds
    catchup,      \* peers to be caught up at the next tick
    peers,        \* peers the sender is connected to
    linked,       \* peers that know of the connection themselves
    toPeer,       \* batches in flight, in any order
    toSender,     \* watermarks in flight, in any order
    contiguous,   \* each peer's watermark of the sender's records
    ranges,       \* and the ranges above a gap, by their low end (0: none)
    got,          \* history: the records each peer received
    discarded,    \* history: the records reverts threw away
    faults        \* bound: faults so far

index   == <<seq, record, pending, kept, announced>>
folder  == <<window, paused>>
sending == <<acked, catchup, peers, linked, toPeer, toSender>>
peer    == <<contiguous, ranges, got>>
vars    == <<index, folder, sending, peer, discarded, faults>>

Seq == 0..MaxSeq

Batch == [low : Seq, high : Seq, entries : SUBSET Seq]

Answer == [kind : {"decision", "haveUpTo"}, seq : Seq]

TypeOK ==
    /\ seq        \in Seq
    /\ record     \in [Path -> Seq]
    /\ pending    \in SUBSET Path
    /\ kept       \in [Path -> Seq]
    /\ announced  \in Seq
    /\ window     \in BOOLEAN
    /\ paused     \in BOOLEAN
    /\ acked      \in [Peer -> Seq]
    /\ catchup    \in SUBSET Peer
    /\ peers      \in SUBSET Peer
    /\ linked     \in SUBSET Peer
    /\ toPeer     \in [Peer -> SUBSET Batch]
    /\ toSender   \in [Peer -> SUBSET Answer]
    /\ contiguous \in [Peer -> Seq]
    /\ ranges     \in [Peer -> [Seq -> Seq]]
    /\ got        \in [Peer -> SUBSET Seq]
    /\ discarded  \in SUBSET Seq
    /\ faults     \in 0..MaxFaults

Init ==
    /\ seq        = 0
    /\ record     = [p \in Path |-> 0]
    /\ pending    = {}
    /\ kept       = [p \in Path |-> 0]
    /\ announced  = 0
    /\ window     = FALSE
    /\ paused     = FALSE
    /\ acked      = [q \in Peer |-> 0]
    /\ catchup    = {}
    /\ peers      = {}
    /\ linked     = {}
    /\ toPeer     = [q \in Peer |-> {}]
    /\ toSender   = [q \in Peer |-> {}]
    /\ contiguous = [q \in Peer |-> 0]
    /\ ranges     = [q \in Peer |-> [low \in Seq |-> 0]]
    /\ got        = [q \in Peer |-> {}]
    /\ discarded  = {}
    /\ faults     = 0

-----------------------------------------------------------------------------
(* The index                                                                  *)

\* Every write takes the next number and opens or extends the window.
Written(p) ==
    /\ seq < MaxSeq
    /\ seq'    = seq + 1
    /\ record' = [record EXCEPT ![p] = seq + 1]
    /\ window' = TRUE

\* A local change; the first since the last batch keeps the record before it.
Write(p) ==
    /\ Written(p)
    /\ pending'   = pending \cup {p}
    /\ kept'      = [kept EXCEPT ![p] = IF p \in pending THEN @ ELSE record[p]]
    /\ discarded' = discarded
    /\ UNCHANGED <<announced, paused, sending, peer, faults>>

\* A peer's record is adopted, over the pending change if there is one.
Adopt(p) ==
    /\ Written(p)
    /\ pending' = pending \ {p}
    /\ kept'    = [kept EXCEPT ![p] = 0]
    /\ UNCHANGED <<announced, paused, sending, peer, discarded, faults>>

\* Mutant: catch-up sends the record as it stands.
CurrentRecord(p) == record[p]

\* The record of p that peers may have heard of: under a pending change the
\* one it keeps, and only if it was announced.  0 if there is none.
AnnouncedRecord(p) ==
    LET r == IF p \in pending THEN kept[p] ELSE record[p]
    IN  IF r <= announced THEN r ELSE 0

\* Mutant: catch-up passes over the paths with a pending change.
PendingSkipped(after) == {record[p] : p \in Path \ pending} \cap (after + 1)..announced

\* What a peer that holds everything up to `after` is caught up with.
AnnouncedSince(after) == {AnnouncedRecord(p) : p \in Path} \cap (after + 1)..MaxSeq

Unannounced == {record[p] : p \in Path} \cap (announced + 1)..MaxSeq

-----------------------------------------------------------------------------
(* Batches                                                                    *)

\* The batches that carry the records and chain from low, cut after those of
\* `cuts`: a batch is full at some number of entries or bytes, and the last
\* one ends with the last record.
Chained(records, cuts, low) ==
    {[low     |-> CHOOSE l \in {low} \cup {c \in cuts : c < high} :
                     \A c \in cuts : c < high => c <= l,
      high    |-> high,
      entries |-> {r \in records : r <= high /\ \A c \in cuts : c < high => c < r}] :
        high \in cuts}

\* form: every way of cutting the records.
Forms(records, low) ==
    {Chained(records, cuts, low) :
        cuts \in {c \in SUBSET records : \A r \in records : \E h \in c : r <= h}}

\* Everything written is announced: what was pending can no longer be
\* reverted, and the window closes.
MarkAnnounced ==
    /\ pending'   = {}
    /\ kept'      = [p \in Path |-> 0]
    /\ announced' = seq
    /\ window'    = FALSE
    /\ UNCHANGED <<seq, record, discarded>>

\* What a tick sends q: catch-up, then the live batches of `live`.  Batches
\* for a peer that is not connected go nowhere.
Sent(q, caught, live) ==
    IF q \notin peers THEN {}
    ELSE (IF q \in catchup THEN caught[q] ELSE {}) \cup live

\* tick: catch-up for the peers marked, then, if the window is due, the
\* pre-check: it passes and the batches go out, or the folder pauses.  On a
\* paused folder the due window only closes.
Tick(due, hold) ==
    /\ due \/ catchup # {}
    /\ due  => window
    /\ hold => due /\ ~paused /\ pending # {}
    /\ catchup' = {}
    /\ \E caught \in {f \in [Peer -> UNION {Forms(AnnouncedSince(acked[q]), acked[q]) : q \in Peer}] :
                         \A q \in Peer : f[q] \in Forms(AnnouncedSince(acked[q]), acked[q])},
          live \in IF due /\ ~hold /\ ~paused THEN Forms(Unannounced, announced) ELSE {{}} :
          toPeer' = [q \in Peer |-> toPeer[q] \cup Sent(q, caught, live)]
    /\ \/ /\ due /\ ~hold /\ ~paused
          /\ MarkAnnounced
          /\ UNCHANGED paused
       \/ /\ due /\ (hold \/ paused)
          /\ window' = FALSE
          /\ paused' = TRUE
          /\ UNCHANGED <<index, discarded>>
       \/ /\ ~due
          /\ UNCHANGED <<index, folder, discarded>>
    /\ UNCHANGED <<acked, peers, linked, toSender, peer, faults>>

\* approve of the paused batch.
Approve ==
    /\ paused
    /\ \E live \in Forms(Unannounced, announced) :
          toPeer' = [q \in Peer |-> toPeer[q] \cup (IF q \in peers THEN live ELSE {})]
    /\ MarkAnnounced
    /\ paused' = FALSE
    /\ UNCHANGED <<acked, catchup, peers, linked, toSender, peer, faults>>

\* revert: every pending path gets its kept record back under its old number,
\* and the window closes.
Revert ==
    /\ paused
    /\ record'    = [p \in Path |-> IF p \in pending THEN kept[p] ELSE record[p]]
    /\ discarded' = discarded \cup {record[p] : p \in pending}
    /\ pending'   = {}
    /\ kept'      = [p \in Path |-> 0]
    /\ paused'    = FALSE
    /\ window'    = FALSE
    /\ UNCHANGED <<seq, announced, sending, peer, faults>>

-----------------------------------------------------------------------------
(* Receiving                                                                  *)

\* The range (low, high] arrived: it moves the watermark if it starts at or
\* below it, and is remembered above the gap otherwise.
WithRange(q, b) ==
    IF b.low <= contiguous[q] THEN ranges[q]
    ELSE [ranges[q] EXCEPT ![b.low] = IF @ >= b.high THEN @ ELSE b.high]

\* Mutant: a batch above a gap moves the watermark.
OverGap(q, b) ==
    IF b.high > contiguous[q] THEN b.high ELSE contiguous[q]

Reached(q, b) ==
    IF b.low <= contiguous[q] /\ b.high > contiguous[q] THEN b.high ELSE contiguous[q]

\* From c the watermark absorbs every range that has become contiguous.
Absorbed(c, rs) ==
    CHOOSE d \in Seq :
        /\ c <= d
        /\ \A low \in Seq : rs[low] # 0 /\ low <= d => rs[low] <= d
        /\ \A e \in Seq :
              c <= e /\ (\A low \in Seq : rs[low] # 0 /\ low <= e => rs[low] <= e)
                  => d <= e

ReceivedRange(q, b) ==
    IF b.high <= contiguous[q] THEN UNCHANGED <<contiguous, ranges>>
    ELSE LET rs == WithRange(q, b)
             c  == Absorbed(Reached(q, b), rs)
         IN  /\ contiguous' = [contiguous EXCEPT ![q] = c]
             /\ ranges' = [ranges EXCEPT ![q] =
                              [low \in Seq |-> IF low <= c THEN 0 ELSE rs[low]]]

\* Mutant: the number the peer expects next is acknowledged.
NextExpected(q, b) == contiguous'[q] + 1

\* Mutant: a batch is acknowledged up to its own end.
AckedToItsEnd(q, b) == b.high

\* The acknowledgement: the contiguous watermark, after the batch.
Acknowledges(q, b) == contiguous'[q]

\* A batch arrives and is answered, accepted or held alike.
Receive(q, b) ==
    /\ q \in linked
    /\ b \in toPeer[q]
    /\ ReceivedRange(q, b)
    /\ got'      = [got EXCEPT ![q] = @ \cup b.entries]
    /\ toPeer'   = [toPeer EXCEPT ![q] = @ \ {b}]
    /\ toSender' = [toSender EXCEPT ![q] =
                       @ \cup {[kind |-> "decision", seq |-> Acknowledges(q, b)]}]
    /\ UNCHANGED <<index, folder, acked, catchup, peers, linked, discarded, faults>>

\* Mutant: a peer is caught up only if its answer to a batch is behind.
GreetingIgnored(q, a) == a.kind = "decision" /\ a.seq < announced

\* A peer below what was announced missed a batch, or will ask again.
Behind(q, a) == a.kind = "haveUpTo" \/ a.seq < announced

\* What a peer says it holds replaces what the sender knew.
Answered(q, a) ==
    /\ q \in peers
    /\ a \in toSender[q]
    /\ toSender' = [toSender EXCEPT ![q] = @ \ {a}]
    /\ acked'    = [acked EXCEPT ![q] = a.seq]
    /\ catchup'  = IF Behind(q, a) THEN catchup \cup {q} ELSE catchup
    /\ UNCHANGED <<index, folder, peers, linked, toPeer, peer, discarded, faults>>

-----------------------------------------------------------------------------
(* Connections and restarts                                                   *)

\* The sender learns of the connection.
Connected(q) ==
    /\ q \notin peers
    /\ peers' = peers \cup {q}
    /\ UNCHANGED <<index, folder, acked, catchup, linked, toPeer, toSender, peer,
                   discarded, faults>>

\* The peer learns of it and says how far the sender's records reach there.
PeerConnected(q) ==
    /\ q \in peers \ linked
    /\ linked'   = linked \cup {q}
    /\ toSender' = [toSender EXCEPT ![q] =
                       @ \cup {[kind |-> "haveUpTo", seq |-> contiguous[q]]}]
    /\ UNCHANGED <<index, folder, acked, catchup, peers, toPeer, peer, discarded, faults>>

\* The connection is lost with everything in flight.
Disconnected(q) ==
    /\ q \in peers
    /\ faults < MaxFaults
    /\ faults'   = faults + 1
    /\ peers'    = peers \ {q}
    /\ linked'   = linked \ {q}
    /\ toPeer'   = [toPeer EXCEPT ![q] = {}]
    /\ toSender' = [toSender EXCEPT ![q] = {}]
    /\ UNCHANGED <<index, folder, acked, catchup, peer, discarded>>

\* The sender restarts: its state is durable, but connections and the peers
\* to catch up are gone, and the window reopens over unannounced records.
Restarted ==
    /\ faults < MaxFaults
    /\ faults'   = faults + 1
    /\ window'   = (Unannounced # {})
    /\ catchup'  = {}
    /\ peers'    = {}
    /\ linked'   = {}
    /\ toPeer'   = [q \in Peer |-> {}]
    /\ toSender' = [q \in Peer |-> {}]
    /\ UNCHANGED <<index, paused, acked, peer, discarded>>

Next ==
    \/ \E p \in Path : Write(p) \/ Adopt(p)
    \/ \E due, hold \in BOOLEAN : Tick(due, hold)
    \/ Approve
    \/ Revert
    \/ \E q \in Peer : \E b \in toPeer[q] : Receive(q, b)
    \/ \E q \in Peer : \E a \in toSender[q] : Answered(q, a)
    \/ \E q \in Peer : Connected(q) \/ PeerConnected(q) \/ Disconnected(q)
    \/ Restarted

Spec == Init /\ [][Next]_vars

-----------------------------------------------------------------------------
(* Safety                                                                     *)

\* Of every record in (low, high] that still exists and is announced a batch
\* has the entry (batch.rs, `seq_low`), however long it was in flight.
BatchesComplete ==
    \A q \in Peer : \A b \in toPeer[q] : \A p \in Path :
        b.low < AnnouncedRecord(p) /\ AnnouncedRecord(p) <= b.high
            => AnnouncedRecord(p) \in b.entries

\* A watermark never passes a record the peer lacks: the sender, which will
\* not send what is below it again, would never learn (§7.4).
WatermarkTruthful ==
    \A q \in Peer : \A p \in Path :
        AnnouncedRecord(p) # 0 /\ AnnouncedRecord(p) <= contiguous[q]
            => AnnouncedRecord(p) \in got[q]

\* What the sender believes a peer holds the peer holds.
AckedIsHeld == \A q \in Peer : acked[q] <= contiguous[q]

\* A record that a revert discarded was in no batch, live or catch-up: the
\* pending set never leaks.
DiscardedNeverSent ==
    \A q \in Peer :
        /\ got[q] \cap discarded = {}
        /\ \A b \in toPeer[q] : b.entries \cap discarded = {}

\* Records written and not announced wait for a window, or for the user if
\* the folder is paused: none wait for some later write (folder.rs, the
\* comment on `restarted`).
NeverStranded == Unannounced # {} => window \/ paused

-----------------------------------------------------------------------------
(* Liveness                                                                   *)

\* The engine asks to be woken for a due window and for a peer to catch up;
\* lost connections are made again, and each delivers every message sent over
\* it while it lasts.
Fairness ==
    /\ WF_vars(\E due, hold \in BOOLEAN : Tick(due, hold))
    /\ \A q \in Peer :
          /\ WF_vars(Connected(q))
          /\ WF_vars(PeerConnected(q))
          /\ \A low, high \in Seq :
                WF_vars(\E b \in toPeer[q] :
                            b.low = low /\ b.high = high /\ Receive(q, b))
          /\ \A a \in Answer : WF_vars(Answered(q, a))

FairSpec == Spec /\ Fairness

\* Every announced record that is not superseded reaches every member.
AnnouncedArrives ==
    \A q \in Peer :
        <>[](\A p \in Path : AnnouncedRecord(p) \in got[q] \cup {0})

=============================================================================
