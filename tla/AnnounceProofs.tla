--------------------------- MODULE AnnounceProofs ---------------------------
(* Proofs about Announce, for any paths, peers, writes and faults: what a     *)
(* sender believes of a peer the peer holds, nothing below a watermark is     *)
(* missing, and nothing that a revert discarded was ever sent.                *)
EXTENDS Announce, WellFoundedInduction, TLAPS

-----------------------------------------------------------------------------
(* The inductive invariant.                                                   *)

\* What peers hold, are sent and answer ends at what was announced.
Bounded ==
    /\ announced <= seq
    /\ \A q \in Peer :
        /\ acked[q] <= contiguous[q] /\ contiguous[q] <= announced
        /\ \A low \in Seq : ranges[q][low] <= announced
        /\ \A b \in toPeer[q] : b.high <= announced /\ b.entries \subseteq 1..announced
        /\ got[q] \subseteq 1..announced
        /\ \A a \in toSender[q] : a.seq <= contiguous[q]

\* A pending change is above everything announced, and above what it keeps.
PendingAbove ==
    \A p \in Path :
        /\ record[p] <= seq
        /\ p \in pending => announced < record[p] /\ kept[p] < record[p]
        /\ p \notin pending => kept[p] = 0

\* No number is used twice.
RecordsApart ==
    \A p, r \in Path : p # r =>
        /\ record[p] = record[r] => record[p] = 0
        /\ kept[p] = record[r] => kept[p] = 0
        /\ kept[p] = kept[r] => kept[p] = 0

\* What a revert discarded is neither a record nor kept under one.
DiscardedGone ==
    /\ discarded \subseteq 1..seq
    /\ \A p \in Path : record[p] \notin discarded /\ kept[p] \notin discarded

\* Every record in a range above a gap was received.
RangesReceived ==
    \A q \in Peer, low \in Seq, p \in Path :
        low < AnnouncedRecord(p) /\ AnnouncedRecord(p) <= ranges[q][low]
            => AnnouncedRecord(p) \in got[q]

Numbers == TypeOK /\ Bounded /\ PendingAbove /\ RecordsApart /\ DiscardedGone

IInv == Numbers /\ BatchesComplete /\ WatermarkTruthful /\ RangesReceived /\ DiscardedNeverSent

-----------------------------------------------------------------------------
(* Numbers, batches and ranges.                                               *)

LEMMA SeqNumbers ==
    ASSUME NEW n \in Seq
    PROVE  n \in Nat /\ n \in Int /\ 0 <= n /\ n <= MaxSeq
  BY BoundsAssumption DEF Seq

LEMMA LeastExists ==
  ASSUME NEW S \in SUBSET Nat, S # {}
  PROVE  \E x \in S : \A y \in S : x <= y
<1>1. PICK x \in S : \A y \in S : ~(<<y, x>> \in OpToRel(<, Nat))
  BY NatLessThanWellFounded, WFMin
<1>2. ASSUME NEW y \in S PROVE x <= y
  <2>1. y < x => <<y, x>> \in OpToRel(<, Nat)
    BY DEF OpToRel
  <2>2. x \in Nat /\ y \in Nat /\ ~(y < x)
    BY <1>1, <2>1
  <2> QED
    BY <2>2
<1> QED
  BY <1>2

LEMMA GreatestExists ==
  ASSUME NEW S \in SUBSET Seq, S # {}
  PROVE  \E x \in S : \A y \in S : y <= x
<1> DEFINE T == {MaxSeq - x : x \in S}
<1>1. T \in SUBSET Nat /\ T # {}
  <2>1. ASSUME NEW x \in S PROVE MaxSeq - x \in Nat
    BY BoundsAssumption DEF Seq
  <2> QED
    BY <2>1
<1>2. PICK t \in T : \A u \in T : t <= u
  BY <1>1, LeastExists
<1>3. PICK x \in S : t = MaxSeq - x
  BY <1>2
<1>4. ASSUME NEW y \in S PROVE y <= x
  <2>1. MaxSeq - x <= MaxSeq - y
    BY <1>2, <1>3
  <2> QED
    BY <2>1, BoundsAssumption DEF Seq
<1> QED
  BY <1>4

\* A batch of a chain says where the one before it ended, and has every record
\* between there and its own end.
LEMMA ChainWhole ==
  ASSUME NEW records \in SUBSET Seq, NEW low \in Seq, \A r \in records : low < r,
         NEW form \in Forms(records, low), NEW b \in form
  PROVE  /\ b \in Batch /\ low <= b.low /\ b.high \in records /\ b.entries \subseteq records
         /\ \A r \in records : b.low < r /\ r <= b.high => r \in b.entries
<1>1. PICK cuts \in SUBSET records : form = Chained(records, cuts, low)
  BY DEF Forms
<1>2. PICK high \in cuts :
        b = [low     |-> CHOOSE l \in {low} \cup {c \in cuts : c < high} :
                            \A c \in cuts : c < high => c <= l,
             high    |-> high,
             entries |-> {r \in records : r <= high /\ \A c \in cuts : c < high => c < r}]
  BY <1>1 DEF Chained
<1> DEFINE below == {c \in cuts : c < high}
           l0 == CHOOSE l \in {low} \cup {c \in cuts : c < high} :
                            \A c \in cuts : c < high => c <= l
<1>3. \E l \in {low} \cup {c \in cuts : c < high} : \A c \in cuts : c < high => c <= l
  <2>1. CASE below = {}
    BY <2>1
  <2>2. CASE below # {}
    <3>1. below \in SUBSET Seq
      OBVIOUS
    <3>2. PICK l \in below : \A c \in below : c <= l
      BY <2>2, <3>1, GreatestExists
    <3> QED
      BY <3>2
  <2> QED
    BY <2>1, <2>2
<1>4. l0 \in {low} \cup below /\ \A c \in cuts : c < high => c <= l0
  BY <1>3
<1>5. l0 \in Seq /\ low <= l0
  BY <1>4, SeqNumbers
<1>6. b.low = l0 /\ b.high = high /\ high \in records
      /\ b.entries = {r \in records : r <= high /\ \A c \in cuts : c < high => c < r}
  BY <1>2
<1> HIDE DEF l0
<1>7. b \in Batch
  BY <1>2, <1>5, <1>6 DEF Batch, l0
<1>8. ASSUME NEW r \in records, b.low < r, r <= b.high
      PROVE  r \in b.entries
  <2>1. \A c \in cuts : c < high => c < r
    BY <1>4, <1>5, <1>6, <1>8, SeqNumbers
  <2> QED
    BY <1>6, <1>8, <2>1
<1> QED
  BY <1>5, <1>6, <1>7, <1>8

\* The watermark moves over received ranges only, and over all it can.
LEMMA AbsorbedReaches ==
  ASSUME NEW c \in Seq, NEW rs \in [Seq -> Seq]
  PROVE  /\ Absorbed(c, rs) \in Seq /\ c <= Absorbed(c, rs)
         /\ \A n \in Seq : c <= n /\ (\A low \in Seq : rs[low] <= n) => Absorbed(c, rs) <= n
         /\ \A r \in Seq : c < r /\ r <= Absorbed(c, rs)
                => \E low \in Seq : low < r /\ r <= rs[low]
<1> DEFINE Closed(e) == c <= e /\ \A low \in Seq : rs[low] # 0 /\ low <= e => rs[low] <= e
           ends == {e \in Seq : Closed(e)}
           d == Absorbed(c, rs)
<1>1. MaxSeq \in ends
  BY BoundsAssumption DEF Seq
<1>2. \E x \in ends : \A y \in ends : x <= y
  <2>1. ends \in SUBSET Nat
    BY SeqNumbers
  <2> HIDE DEF ends
  <2> QED
    BY <1>1, <2>1, LeastExists
<1>3. d \in Seq /\ Closed(d) /\ \A e \in Seq : Closed(e) => d <= e
  <2>1. \E x \in Seq : Closed(x) /\ \A e \in Seq : Closed(e) => x <= e
    BY <1>2
  <2> QED
    BY <2>1 DEF Absorbed
<1> HIDE DEF d
<1>4. ASSUME NEW n \in Seq, c <= n, \A low \in Seq : rs[low] <= n
      PROVE  d <= n
  BY <1>3, <1>4
<1>5. ASSUME NEW r \in Seq, c < r, r <= d
      PROVE  \E low \in Seq : low < r /\ r <= rs[low]
  <2> SUFFICES ASSUME \A low \in Seq : ~(low < r /\ r <= rs[low])
               PROVE  FALSE
    OBVIOUS
  <2>1. r - 1 \in Seq /\ c <= r - 1
    BY <1>5, BoundsAssumption DEF Seq
  <2>2. ASSUME NEW low \in Seq, low <= r - 1
        PROVE  rs[low] <= r - 1
    <3>1. rs[low] \in Seq /\ ~(r <= rs[low])
      BY <2>2, SeqNumbers
    <3> QED
      BY <3>1, SeqNumbers
  <2>3. d <= r - 1
    BY <1>3, <2>1, <2>2
  <2> QED
    BY <1>3, <1>5, <2>3, SeqNumbers
<1> QED
  BY <1>3, <1>4, <1>5 DEF d

-----------------------------------------------------------------------------
(* What is sent.                                                              *)

LEMMA AnnouncedTyped ==
  ASSUME TypeOK, NEW p \in Path
  PROVE  /\ AnnouncedRecord(p) \in Seq /\ AnnouncedRecord(p) <= announced
         /\ record[p] \in Seq /\ kept[p] \in Seq /\ announced \in Seq
         /\ AnnouncedRecord(p) \in {0, record[p], kept[p]}
  BY BoundsAssumption DEF TypeOK, AnnouncedRecord, Seq

\* Catch-up ends at what was announced and leaves nothing of that out.
LEMMA CatchUpWhole ==
  ASSUME Numbers, NEW q \in Peer, NEW form \in Forms(AnnouncedSince(acked[q]), acked[q]),
         NEW b \in form
  PROVE  /\ b \in Batch /\ b.high <= announced /\ b.entries \subseteq 1..announced
         /\ b.entries \cap discarded = {}
         /\ \A p \in Path : b.low < AnnouncedRecord(p) /\ AnnouncedRecord(p) <= b.high
                => AnnouncedRecord(p) \in b.entries
<1> DEFINE records == AnnouncedSince(acked[q])
<1>1. acked[q] \in Seq /\ announced \in Seq
  BY DEF Numbers, TypeOK
<1>2. ASSUME NEW r \in records
      PROVE  /\ r \in Seq /\ acked[q] < r /\ r <= announced /\ r \in 1..announced
             /\ r \notin discarded
  <2>1. PICK p \in Path : r = AnnouncedRecord(p) /\ r \in (acked[q] + 1)..MaxSeq
    BY DEF AnnouncedSince
  <2>2. r \in Seq /\ r <= announced /\ r \in {0, record[p], kept[p]}
    BY <2>1, AnnouncedTyped DEF Numbers
  <2>3. acked[q] < r /\ r # 0
    BY <1>1, <2>1, <2>2, SeqNumbers
  <2>4. r \in 1..announced
    BY <1>1, <2>2, <2>3, SeqNumbers
  <2> QED
    BY <2>2, <2>3, <2>4 DEF Numbers, DiscardedGone
<1>3. /\ b \in Batch /\ acked[q] <= b.low /\ b.high \in records /\ b.entries \subseteq records
      /\ \A r \in records : b.low < r /\ r <= b.high => r \in b.entries
  <2>1. records \in SUBSET Seq /\ \A r \in records : acked[q] < r
    BY <1>2
  <2> QED
    BY <1>1, <2>1, ChainWhole
<1>4. ASSUME NEW p \in Path, b.low < AnnouncedRecord(p), AnnouncedRecord(p) <= b.high
      PROVE  AnnouncedRecord(p) \in b.entries
  <2>1. AnnouncedRecord(p) \in Seq /\ b.low \in Seq
    BY <1>3, AnnouncedTyped DEF Numbers, Batch
  <2>2. AnnouncedRecord(p) \in records
    BY <1>1, <1>3, <1>4, <2>1, SeqNumbers DEF AnnouncedSince
  <2> QED
    BY <1>3, <1>4, <2>2
<1> QED
  BY <1>2, <1>3, <1>4

\* A live batch begins where the last announcement ended, and leaves out
\* nothing that was written since.
LEMMA LiveWhole ==
  ASSUME Numbers, NEW form \in Forms(Unannounced, announced), NEW b \in form
  PROVE  /\ b \in Batch /\ announced <= b.low /\ b.high <= seq /\ b.entries \subseteq 1..seq
         /\ b.entries \cap discarded = {}
         /\ \A p \in Path : b.low < record[p] /\ record[p] <= b.high => record[p] \in b.entries
<1> DEFINE records == Unannounced
<1>1. announced \in Seq /\ seq \in Seq
  BY DEF Numbers, TypeOK
<1>2. ASSUME NEW r \in records
      PROVE  r \in Seq /\ announced < r /\ r <= seq /\ r \in 1..seq /\ r \notin discarded
  <2>1. PICK p \in Path : r = record[p] /\ r \in (announced + 1)..MaxSeq
    BY DEF Unannounced
  <2>2. r \in Seq /\ r <= seq /\ r \notin discarded
    BY <2>1 DEF Numbers, TypeOK, PendingAbove, DiscardedGone
  <2> QED
    BY <1>1, <2>1, <2>2, SeqNumbers
<1>3. /\ b \in Batch /\ announced <= b.low /\ b.high \in records /\ b.entries \subseteq records
      /\ \A r \in records : b.low < r /\ r <= b.high => r \in b.entries
  <2>1. records \in SUBSET Seq /\ \A r \in records : announced < r
    BY <1>2
  <2> QED
    BY <1>1, <2>1, ChainWhole
<1>4. ASSUME NEW p \in Path, b.low < record[p], record[p] <= b.high
      PROVE  record[p] \in b.entries
  <2>1. record[p] \in Seq /\ b.low \in Seq
    BY <1>3 DEF Numbers, TypeOK, Batch
  <2>2. record[p] \in records
    BY <1>1, <1>3, <1>4, <2>1, SeqNumbers DEF Unannounced
  <2> QED
    BY <1>3, <1>4, <2>2
<1> QED
  BY <1>2, <1>3, <1>4

\* A tick sends each peer whole catch-up batches and, if it announces, whole
\* live ones; nothing else comes into flight.
LEMMA TickSends ==
  ASSUME Numbers, NEW due \in BOOLEAN, NEW hold \in BOOLEAN, Tick(due, hold),
         NEW q \in Peer, NEW b \in toPeer'[q], b \notin toPeer[q]
  PROVE  \/ \E form \in Forms(AnnouncedSince(acked[q]), acked[q]) : b \in form
         \/ MarkAnnounced /\ \E form \in Forms(Unannounced, announced) : b \in form
<1>1. PICK caught \in {f \in [Peer -> UNION {Forms(AnnouncedSince(acked[x]), acked[x]) : x \in Peer}] :
                         \A x \in Peer : f[x] \in Forms(AnnouncedSince(acked[x]), acked[x])},
           live \in IF due /\ ~hold /\ ~paused THEN Forms(Unannounced, announced) ELSE {{}} :
             toPeer' = [x \in Peer |-> toPeer[x] \cup Sent(x, caught, live)]
  BY DEF Tick
<1>2. b \in caught[q] \/ b \in live
  BY <1>1 DEF Sent
<1>3. caught[q] \in Forms(AnnouncedSince(acked[q]), acked[q])
  BY <1>1
<1>4. b \in live => MarkAnnounced /\ live \in Forms(Unannounced, announced)
  BY <1>1 DEF Tick
<1> QED
  BY <1>2, <1>3, <1>4

\* So does the approval of a paused batch.
LEMMA ApproveSends ==
  ASSUME Numbers, Approve, NEW q \in Peer, NEW b \in toPeer'[q], b \notin toPeer[q]
  PROVE  MarkAnnounced /\ \E form \in Forms(Unannounced, announced) : b \in form
  BY DEF Approve

\* Nothing that was sent before is taken back by what is sent.
LEMMA SendingKeeps ==
  ASSUME TypeOK, NEW due \in BOOLEAN, NEW hold \in BOOLEAN, Tick(due, hold) \/ Approve
  PROVE  /\ \A q \in Peer : toPeer[q] \subseteq toPeer'[q]
         /\ DOMAIN toPeer' = Peer /\ toPeer' = [q \in Peer |-> toPeer'[q]]
         /\ MarkAnnounced \/ UNCHANGED <<index, discarded>>
         /\ UNCHANGED <<acked, peers, linked, toSender, peer, faults>>
  BY DEF Tick, Approve, Sent, MarkAnnounced

-----------------------------------------------------------------------------
(* Types and numbers.                                                         *)

LEMMA InitOK == Init => IInv
<1> SUFFICES ASSUME Init PROVE IInv
  OBVIOUS
<1>1. 0 \in Seq /\ 0 \in 0..MaxFaults
  BY BoundsAssumption DEF Seq
<1>2. TypeOK
  BY <1>1 DEF Init, TypeOK
<1>3. \A p \in Path : AnnouncedRecord(p) = 0
  BY DEF Init, AnnouncedRecord
<1>4. Bounded /\ PendingAbove /\ RecordsApart /\ DiscardedGone
  BY <1>1 DEF Init, Bounded, PendingAbove, RecordsApart, DiscardedGone
<1>5. BatchesComplete /\ DiscardedNeverSent
  BY DEF Init, BatchesComplete, DiscardedNeverSent
<1>6. WatermarkTruthful /\ RangesReceived
  BY <1>1, <1>3, SeqNumbers DEF Init, WatermarkTruthful, RangesReceived
<1> QED
  BY <1>2, <1>4, <1>5, <1>6 DEF IInv, Numbers

\* A batch moves the watermark to a number that is a batch's end or a range's.
LEMMA ReceivedTyped ==
  ASSUME Numbers, NEW q \in Peer, NEW b \in toPeer[q], ReceivedRange(q, b)
  PROVE  /\ contiguous' \in [Peer -> Seq] /\ ranges' \in [Peer -> [Seq -> Seq]]
         /\ \A x \in Peer : x # q =>
                contiguous'[x] = contiguous[x] /\ ranges'[x] = ranges[x]
         /\ contiguous[q] <= contiguous'[q] /\ contiguous'[q] <= announced
         /\ \A low \in Seq : ranges'[q][low] <= announced
         /\ \A low \in Seq : ranges'[q][low] \in {0, ranges[q][low]} \cup
                                {IF low = b.low THEN b.high ELSE 0}
         /\ \A r \in Seq : contiguous[q] < r /\ r <= contiguous'[q] =>
                \/ b.low < r /\ r <= b.high
                \/ \E low \in Seq : low < r /\ r <= ranges[q][low]
<1> DEFINE rs == WithRange(q, b)
           reached == Reached(q, b)
           c == Absorbed(reached, rs)
<1>1. /\ contiguous \in [Peer -> Seq] /\ ranges \in [Peer -> [Seq -> Seq]]
      /\ b \in Batch /\ b.low \in Seq /\ b.high \in Seq /\ announced \in Seq
      /\ contiguous[q] \in Seq /\ ranges[q] \in [Seq -> Seq]
      /\ contiguous[q] <= announced /\ b.high <= announced
      /\ \A low \in Seq : ranges[q][low] <= announced
  BY DEF Numbers, TypeOK, Bounded, Batch
<1>2. CASE b.high <= contiguous[q]
  BY <1>1, <1>2, SeqNumbers DEF ReceivedRange
<1>3. CASE ~(b.high <= contiguous[q])
  <2>1. /\ contiguous' = [contiguous EXCEPT ![q] = c]
        /\ ranges' = [ranges EXCEPT ![q] = [low \in Seq |-> IF low <= c THEN 0 ELSE rs[low]]]
    BY <1>3 DEF ReceivedRange
  <2>2. /\ rs \in [Seq -> Seq] /\ \A low \in Seq : rs[low] <= announced
        /\ \A low \in Seq : rs[low] = ranges[q][low] \/ (low = b.low /\ rs[low] = b.high)
    BY <1>1, SeqNumbers DEF WithRange
  <2>3. /\ reached \in Seq /\ contiguous[q] <= reached /\ reached <= announced
        /\ \A r \in Seq : contiguous[q] < r /\ r <= reached => b.low < r /\ r <= b.high
    BY <1>1, SeqNumbers DEF Reached
  <2> HIDE DEF rs, reached
  <2>4. /\ c \in Seq /\ reached <= c /\ c <= announced
        /\ \A r \in Seq : reached < r /\ r <= c => \E low \in Seq : low < r /\ r <= rs[low]
    BY <1>1, <2>2, <2>3, AbsorbedReaches
  <2> HIDE DEF c
  <2>5. contiguous' \in [Peer -> Seq] /\ contiguous'[q] = c
    BY <1>1, <2>1, <2>4
  <2>6. contiguous[q] <= c
    BY <1>1, <2>3, <2>4, SeqNumbers
  <2>7. /\ ranges' \in [Peer -> [Seq -> Seq]]
        /\ \A low \in Seq : ranges'[q][low] = IF low <= c THEN 0 ELSE rs[low]
    <3>1. [low \in Seq |-> IF low <= c THEN 0 ELSE rs[low]] \in [Seq -> Seq]
      BY <2>2, BoundsAssumption DEF Seq
    <3> QED
      BY <1>1, <2>1, <3>1
  <2>8. ASSUME NEW r \in Seq, contiguous[q] < r, r <= c
        PROVE  \/ b.low < r /\ r <= b.high
               \/ \E low \in Seq : low < r /\ r <= ranges[q][low]
    <3>1. CASE r <= reached
      BY <2>3, <2>8, <3>1
    <3>2. CASE reached < r
      BY <2>2, <2>4, <2>8, <3>2
    <3> QED
      BY <2>3, <3>1, <3>2, SeqNumbers
  <2>9. \A low \in Seq : /\ ranges'[q][low] <= announced
                         /\ ranges'[q][low] \in {0, ranges[q][low]} \cup
                                {IF low = b.low THEN b.high ELSE 0}
    BY <1>1, <2>2, <2>7, SeqNumbers
  <2>10. \A x \in Peer : x # q => contiguous'[x] = contiguous[x] /\ ranges'[x] = ranges[x]
    BY <1>1, <2>1
  <2> QED
    BY <2>4, <2>5, <2>6, <2>7, <2>8, <2>9, <2>10
<1> QED
  BY <1>2, <1>3

LEMMA WritingTyped ==
  ASSUME Numbers, NEW p \in Path, Write(p) \/ Adopt(p)
  PROVE  Numbers'
<1>1. /\ seq \in Seq /\ seq' = seq + 1 /\ seq' \in Seq /\ announced \in Seq /\ announced' = announced
      /\ announced <= seq /\ announced < seq' /\ announced <= seq' /\ seq' <= seq'
      /\ \A n \in Seq : n <= seq => n < seq' /\ n <= seq'
  BY BoundsAssumption DEF Numbers, TypeOK, Bounded, Write, Adopt, Written, Seq
<1>2. /\ record' = [record EXCEPT ![p] = seq'] /\ record' \in [Path -> Seq]
      /\ kept' \in [Path -> Seq] /\ pending' \in SUBSET Path
      /\ discarded' = discarded
      /\ \A r \in Path : r # p => kept'[r] = kept[r] /\ (r \in pending' <=> r \in pending)
  <2>1. CASE Write(p)
    BY <1>1, <2>1 DEF Numbers, TypeOK, Write, Written
  <2>2. CASE Adopt(p)
    <3>1. 0 \in Seq
      BY BoundsAssumption DEF Seq
    <3> QED
      BY <1>1, <2>2, <3>1 DEF Numbers, TypeOK, Adopt, Written
  <2> QED
    BY <2>1, <2>2
<1>3. kept'[p] \in {0, kept[p], record[p]} /\ (p \notin pending' => kept'[p] = 0)
  BY DEF Numbers, TypeOK, Write, Adopt
<1>4. TypeOK'
  BY <1>1, <1>2 DEF Numbers, TypeOK, Write, Adopt, Written, sending, peer
<1>5. Bounded'
  BY <1>1 DEF Numbers, Bounded, Write, Adopt, sending, peer
<1>6. \A r \in Path : record[r] \in Seq /\ record[r] <= seq /\ kept[r] \in Seq /\ kept[r] <= seq
  <2>1. ASSUME NEW r \in Path
        PROVE  record[r] \in Seq /\ record[r] <= seq /\ kept[r] \in Seq /\ kept[r] <= seq
    <3>1. record[r] \in Seq /\ record[r] <= seq /\ kept[r] \in Seq
      BY DEF Numbers, TypeOK, PendingAbove
    <3>2. kept[r] = 0 \/ kept[r] < record[r]
      BY DEF Numbers, PendingAbove
    <3>3. seq \in Seq
      BY <1>1
    <3>4. kept[r] <= seq
      BY <3>1, <3>2, <3>3, SeqNumbers
    <3> QED
      BY <3>1, <3>4
  <2> QED
    BY <2>1
<1>7. PendingAbove'
  <2> SUFFICES ASSUME NEW r \in Path
               PROVE  /\ record'[r] <= seq'
                      /\ r \in pending' => announced' < record'[r] /\ kept'[r] < record'[r]
                      /\ r \notin pending' => kept'[r] = 0
    BY DEF PendingAbove
  <2>1. CASE r = p
    <3>1. record'[r] = seq' /\ kept'[r] \in {0, kept[p], record[p]}
      BY <1>2, <1>3, <2>1 DEF Numbers, TypeOK
    <3>2. kept'[r] <= seq
      BY <1>1, <1>6, <3>1, SeqNumbers
    <3>3. kept'[r] \in Seq /\ (r \notin pending' => kept'[r] = 0)
      BY <1>2, <1>3, <2>1
    <3> QED
      BY <1>1, <3>1, <3>2, <3>3
  <2>2. CASE r # p
    <3>1. record'[r] = record[r] /\ kept'[r] = kept[r] /\ (r \in pending' <=> r \in pending)
      BY <1>2, <2>2 DEF Numbers, TypeOK
    <3>2. record[r] <= seq'
      BY <1>1, <1>6
    <3> QED
      BY <1>1, <3>1, <3>2 DEF Numbers, PendingAbove
  <2> QED
    BY <2>1, <2>2
<1>8. RecordsApart'
  <2> SUFFICES ASSUME NEW x \in Path, NEW y \in Path, x # y
               PROVE  /\ record'[x] = record'[y] => record'[x] = 0
                      /\ kept'[x] = record'[y] => kept'[x] = 0
                      /\ kept'[x] = kept'[y] => kept'[x] = 0
    BY DEF RecordsApart
  <2>1. /\ record[x] = record[y] => record[x] = 0
        /\ kept[x] = record[y] => kept[x] = 0
        /\ kept[y] = record[x] => kept[y] = 0
        /\ kept[x] = kept[y] => kept[x] = 0
    BY DEF Numbers, RecordsApart
  <2>2. record'[x] = IF x = p THEN seq' ELSE record[x]
    BY <1>2 DEF Numbers, TypeOK
  <2>3. record'[y] = IF y = p THEN seq' ELSE record[y]
    BY <1>2 DEF Numbers, TypeOK
  <2>4. CASE x = p
    BY <1>1, <1>2, <1>3, <1>6, <2>1, <2>2, <2>3, <2>4, SeqNumbers
  <2>5. CASE y = p
    BY <1>1, <1>2, <1>3, <1>6, <2>1, <2>2, <2>3, <2>5, SeqNumbers
  <2>6. CASE x # p /\ y # p
    BY <1>2, <2>1, <2>2, <2>3, <2>6
  <2> QED
    BY <2>4, <2>5, <2>6
<1>9. DiscardedGone'
  <2>1. discarded \subseteq 1..seq' /\ seq' \notin discarded /\ 0 \notin discarded
    BY <1>1, SeqNumbers DEF Numbers, DiscardedGone
  <2>2. ASSUME NEW r \in Path
        PROVE  record'[r] \notin discarded /\ kept'[r] \notin discarded
    BY <1>2, <1>3, <2>1 DEF Numbers, TypeOK, DiscardedGone
  <2> QED
    BY <1>2, <2>1, <2>2 DEF DiscardedGone
<1> QED
  BY <1>4, <1>5, <1>7, <1>8, <1>9 DEF Numbers

LEMMA SendingTyped ==
  ASSUME Numbers, NEW due \in BOOLEAN, NEW hold \in BOOLEAN, Tick(due, hold) \/ Approve
  PROVE  Numbers'
<1>1. /\ MarkAnnounced \/ UNCHANGED <<index, discarded>>
      /\ toPeer' = [q \in Peer |-> toPeer'[q]]
      /\ UNCHANGED <<acked, peers, linked, toSender, peer, faults>>
  BY SendingKeeps DEF Numbers
<1>2. /\ seq \in Seq /\ announced \in Seq /\ announced <= seq /\ 0 \in Seq
      /\ seq' = seq /\ announced' \in {announced, seq} /\ record' = record /\ discarded' = discarded
      /\ announced <= announced'
  BY <1>1, BoundsAssumption DEF Numbers, TypeOK, Bounded, MarkAnnounced, index, Seq
<1>3. ASSUME NEW q \in Peer, NEW b \in toPeer'[q]
      PROVE  b \in Batch /\ b.high <= announced' /\ b.entries \subseteq 1..announced'
  <2>1. CASE b \in toPeer[q]
    <3>1. b \in Batch /\ b.high \in Seq /\ b.high <= announced /\ b.entries \subseteq 1..announced
      BY <2>1 DEF Numbers, TypeOK, Bounded, Batch
    <3> QED
      BY <1>2, <3>1, SeqNumbers
  <2>2. CASE \E form \in Forms(AnnouncedSince(acked[q]), acked[q]) : b \in form
    <3>1. b \in Batch /\ b.high \in Seq /\ b.high <= announced /\ b.entries \subseteq 1..announced
      BY <2>2, CatchUpWhole DEF Batch
    <3> QED
      BY <1>2, <3>1, SeqNumbers
  <2>3. CASE MarkAnnounced /\ \E form \in Forms(Unannounced, announced) : b \in form
    BY <2>3, LiveWhole DEF MarkAnnounced
  <2> QED
    BY <2>1, <2>2, <2>3, TickSends, ApproveSends
<1>4. toPeer' \in [Peer -> SUBSET Batch]
  BY <1>1, <1>3
<1>5. pending' \in SUBSET Path /\ kept' \in [Path -> Seq]
  BY <1>1, <1>2 DEF Numbers, TypeOK, MarkAnnounced, index
<1>6. window' \in BOOLEAN /\ paused' \in BOOLEAN /\ catchup' \in SUBSET Peer
  BY DEF Numbers, TypeOK, Tick, Approve, MarkAnnounced, folder
<1>7. TypeOK'
  BY <1>1, <1>2, <1>4, <1>5, <1>6 DEF Numbers, TypeOK, peer
<1>8. Bounded'
  <2>1. announced' <= seq'
    BY <1>2, SeqNumbers
  <2>2. ASSUME NEW q \in Peer
        PROVE  /\ acked[q] <= contiguous[q] /\ contiguous[q] <= announced'
               /\ \A low \in Seq : ranges[q][low] <= announced'
               /\ got[q] \subseteq 1..announced'
               /\ \A a \in toSender[q] : a.seq <= contiguous[q]
    <3>1. contiguous[q] \in Seq /\ ranges[q] \in [Seq -> Seq]
      BY DEF Numbers, TypeOK
    <3> QED
      BY <1>2, <3>1, SeqNumbers DEF Numbers, Bounded
  <2> QED
    BY <1>1, <1>3, <2>1, <2>2 DEF Bounded, peer
<1>9. PendingAbove' /\ RecordsApart' /\ DiscardedGone'
  <2>1. CASE MarkAnnounced
    <3>1. 0 \notin discarded
      BY <1>2, SeqNumbers DEF Numbers, DiscardedGone
    <3> QED
      BY <1>2, <2>1, <3>1
      DEF Numbers, PendingAbove, RecordsApart, DiscardedGone, MarkAnnounced
  <2>2. CASE UNCHANGED <<index, discarded>>
    BY <2>2 DEF Numbers, PendingAbove, RecordsApart, DiscardedGone, index
  <2> QED
    BY <1>1, <2>1, <2>2
<1> QED
  BY <1>7, <1>8, <1>9 DEF Numbers

LEMMA RevertTyped ==
  ASSUME Numbers, Revert
  PROVE  Numbers'
<1>1. /\ seq \in Seq /\ announced \in Seq /\ 0 \in Seq
      /\ \A p \in Path : record[p] \in Seq /\ kept[p] \in Seq
      /\ \A p \in Path : record[p] <= seq /\ (p \in pending => record[p] # 0 /\ kept[p] < record[p])
  BY BoundsAssumption DEF Numbers, TypeOK, PendingAbove, Seq
<1>2. /\ record' = [p \in Path |-> IF p \in pending THEN kept[p] ELSE record[p]]
      /\ discarded' = discarded \cup {record[p] : p \in pending}
      /\ pending' = {} /\ kept' = [p \in Path |-> 0] /\ seq' = seq /\ announced' = announced
  BY DEF Revert
<1>3. discarded' \subseteq 1..seq
  <2>1. ASSUME NEW p \in pending PROVE record[p] \in 1..seq
    <3>1. p \in Path
      BY DEF Numbers, TypeOK
    <3> QED
      BY <1>1, <3>1, SeqNumbers
  <2> QED
    BY <1>2, <2>1 DEF Numbers, DiscardedGone
<1>4. TypeOK'
  <2>1. discarded' \in SUBSET Seq
    BY <1>1, <1>2 DEF Numbers, TypeOK
  <2> QED
    BY <1>1, <1>2, <2>1, ZenonT(60) DEF Numbers, TypeOK, Revert, sending, peer
<1>5. Bounded'
  BY DEF Numbers, Bounded, Revert, sending, peer
<1>6. PendingAbove'
  BY <1>1, <1>2, SeqNumbers DEF PendingAbove
<1>7. RecordsApart'
  BY <1>2 DEF Numbers, RecordsApart
<1>8. ASSUME NEW p \in Path
      PROVE  record'[p] \notin discarded' /\ kept'[p] \notin discarded'
  <2>1. kept'[p] \notin discarded'
    BY <1>2, <1>3
  <2>2. ASSUME NEW r \in pending PROVE record'[p] # record[r]
    <3>1. r \in Path /\ record[r] # 0
      BY <1>1 DEF Numbers, TypeOK
    <3>2. CASE p = r
      BY <1>1, <1>2, <3>1, <3>2, SeqNumbers
    <3>3. CASE p # r
      BY <1>2, <3>1, <3>3 DEF Numbers, RecordsApart
    <3> QED
      BY <3>2, <3>3
  <2> QED
    BY <1>2, <2>1, <2>2 DEF Numbers, DiscardedGone
<1> QED
  BY <1>2, <1>3, <1>4, <1>5, <1>6, <1>7, <1>8 DEF Numbers, DiscardedGone

LEMMA ReceiveTyped ==
  ASSUME Numbers, NEW q \in Peer, NEW b \in toPeer[q], Receive(q, b)
  PROVE  Numbers'
<1>1. /\ contiguous' \in [Peer -> Seq] /\ ranges' \in [Peer -> [Seq -> Seq]]
      /\ \A x \in Peer : x # q => contiguous'[x] = contiguous[x] /\ ranges'[x] = ranges[x]
      /\ contiguous[q] <= contiguous'[q] /\ contiguous'[q] <= announced
      /\ \A low \in Seq : ranges'[q][low] <= announced
  BY ReceivedTyped DEF Receive
<1>2. b \in Batch /\ b.entries \subseteq 1..announced /\ b.entries \subseteq Seq
  BY DEF Numbers, TypeOK, Bounded, Batch
<1>3. /\ got' = [got EXCEPT ![q] = @ \cup b.entries]
      /\ toPeer' = [toPeer EXCEPT ![q] = @ \ {b}]
      /\ toSender' = [toSender EXCEPT ![q] =
                         @ \cup {[kind |-> "decision", seq |-> contiguous'[q]]}]
  BY DEF Receive, Acknowledges
<1>4. TypeOK'
  <2>1. [kind |-> "decision", seq |-> contiguous'[q]] \in Answer
    BY <1>1 DEF Answer
  <2>2. /\ got' \in [Peer -> SUBSET Seq] /\ toPeer' \in [Peer -> SUBSET Batch]
        /\ toSender' \in [Peer -> SUBSET Answer]
    BY <1>2, <1>3, <2>1 DEF Numbers, TypeOK
  <2> QED
    BY <1>1, <2>2 DEF Numbers, TypeOK, Receive, index, folder
<1>5. Bounded'
  <2> SUFFICES ASSUME NEW x \in Peer
               PROVE  /\ acked[x] <= contiguous'[x] /\ contiguous'[x] <= announced
                      /\ \A low \in Seq : ranges'[x][low] <= announced
                      /\ \A d \in toPeer'[x] : d.high <= announced /\ d.entries \subseteq 1..announced
                      /\ got'[x] \subseteq 1..announced
                      /\ \A a \in toSender'[x] : a.seq <= contiguous'[x]
    BY DEF Bounded, Numbers, Receive, index
  <2>1. /\ acked[x] \in Seq /\ contiguous[x] \in Seq /\ contiguous'[x] \in Seq
        /\ \A a \in toSender[x] : a.seq \in Seq
    BY <1>1 DEF Numbers, TypeOK, Answer
  <2>2. contiguous[x] <= contiguous'[x] /\ contiguous'[x] <= announced
    BY <1>1, <2>1, SeqNumbers DEF Numbers, Bounded
  <2>3. \A low \in Seq : ranges'[x][low] <= announced
    BY <1>1 DEF Numbers, Bounded
  <2>4. toPeer'[x] \subseteq toPeer[x] /\ got'[x] \subseteq got[x] \cup b.entries
    BY <1>3 DEF Numbers, TypeOK
  <2>5. \A a \in toSender'[x] : a \in toSender[x] \/ a.seq = contiguous'[x]
    BY <1>3 DEF Numbers, TypeOK
  <2> QED
    BY <1>2, <2>1, <2>2, <2>3, <2>4, <2>5, SeqNumbers DEF Numbers, Bounded
<1>6. PendingAbove' /\ RecordsApart' /\ DiscardedGone'
  BY DEF Numbers, PendingAbove, RecordsApart, DiscardedGone, Receive, index
<1> QED
  BY <1>4, <1>5, <1>6 DEF Numbers

\* Answers and connections change what is in flight and believed.
Linking ==
    \/ \E q \in Peer : \E a \in toSender[q] : Answered(q, a)
    \/ \E q \in Peer : Connected(q) \/ PeerConnected(q) \/ Disconnected(q)
    \/ Restarted

LEMMA LinkingKeeps ==
  ASSUME TypeOK, Linking \/ UNCHANGED vars
  PROVE  /\ UNCHANGED <<index, peer, discarded>>
         /\ \A q \in Peer : toPeer'[q] \subseteq toPeer[q]
         /\ \A q \in Peer : acked'[q] = acked[q] \/ \E a \in toSender[q] : acked'[q] = a.seq
         /\ \A q \in Peer : \A a \in toSender'[q] : a \in toSender[q] \/ a.seq = contiguous[q]
  BY DEF TypeOK, Linking, Answered, Connected, PeerConnected, Disconnected, Restarted,
         vars, sending

LEMMA LinkingTyped ==
  ASSUME Numbers, Linking \/ UNCHANGED vars
  PROVE  Numbers'
<1>1. /\ UNCHANGED <<index, peer, discarded>>
      /\ \A q \in Peer : toPeer'[q] \subseteq toPeer[q]
      /\ \A q \in Peer : acked'[q] = acked[q] \/ \E a \in toSender[q] : acked'[q] = a.seq
      /\ \A q \in Peer : \A a \in toSender'[q] : a \in toSender[q] \/ a.seq = contiguous[q]
  BY LinkingKeeps DEF Numbers
<1>2. TypeOK'
  <2>1. CASE \E q \in Peer : \E a \in toSender[q] : Answered(q, a)
    <3>0. PICK q \in Peer : \E a \in toSender[q] : Answered(q, a)
      BY <2>1
    <3>1. PICK a \in toSender[q] : Answered(q, a)
      BY <3>0
    <3>2. a.seq \in Seq
      BY DEF Numbers, TypeOK, Answer
    <3> QED
      BY <3>1, <3>2 DEF Numbers, TypeOK, Answered, index, folder, peer
  <2>2. CASE \E q \in Peer : Connected(q) \/ Disconnected(q)
    BY <2>2, BoundsAssumption
    DEF Numbers, TypeOK, Connected, Disconnected, index, folder, peer
  <2>3. CASE \E q \in Peer : PeerConnected(q)
    <3>1. PICK q \in Peer : PeerConnected(q)
      BY <2>3
    <3>2. [kind |-> "haveUpTo", seq |-> contiguous[q]] \in Answer
      BY DEF Numbers, TypeOK, Answer
    <3> QED
      BY <3>1, <3>2 DEF Numbers, TypeOK, PeerConnected, index, folder, peer
  <2>4. CASE Restarted
    BY <2>4, BoundsAssumption DEF Numbers, TypeOK, Restarted, index, peer
  <2>5. CASE UNCHANGED vars
    BY <2>5 DEF Numbers, TypeOK, vars, index, folder, sending, peer
  <2> QED
    BY <2>1, <2>2, <2>3, <2>4, <2>5 DEF Linking
<1>3. Bounded'
  <2> SUFFICES ASSUME NEW x \in Peer
               PROVE  /\ acked'[x] <= contiguous[x]
                      /\ \A b \in toPeer'[x] : b.high <= announced /\ b.entries \subseteq 1..announced
                      /\ \A a \in toSender'[x] : a.seq <= contiguous[x]
    BY <1>1 DEF Numbers, Bounded, index, peer
  <2>1. contiguous[x] <= contiguous[x]
    BY SeqNumbers DEF Numbers, TypeOK
  <2> QED
    BY <1>1, <2>1 DEF Numbers, Bounded
<1>4. PendingAbove' /\ RecordsApart' /\ DiscardedGone'
  BY <1>1 DEF Numbers, PendingAbove, RecordsApart, DiscardedGone, index
<1> QED
  BY <1>2, <1>3, <1>4 DEF Numbers

\* One case per action.
LEMMA NumbersStep ==
  ASSUME Numbers, [Next]_vars
  PROVE  Numbers'
<1>1. CASE \E p \in Path : Write(p) \/ Adopt(p)
  BY <1>1, WritingTyped
<1>2. CASE \E due, hold \in BOOLEAN : Tick(due, hold)
  BY <1>2, SendingTyped
<1>3. CASE Approve
  BY <1>3, SendingTyped
<1>4. CASE Revert
  BY <1>4, RevertTyped
<1>5. CASE \E q \in Peer : \E b \in toPeer[q] : Receive(q, b)
  BY <1>5, ReceiveTyped
<1>6. CASE Linking \/ UNCHANGED vars
  BY <1>6, LinkingTyped
<1> QED
  BY <1>1, <1>2, <1>3, <1>4, <1>5, <1>6 DEF Next, Linking

-----------------------------------------------------------------------------
(* What is announced stays, or is superseded by something newer.              *)

LEMMA RecordsStay ==
  ASSUME Numbers, [Next]_vars, NEW p \in Path
  PROVE  /\ \/ AnnouncedRecord(p)' = AnnouncedRecord(p)
            \/ AnnouncedRecord(p)' = 0
            \/ AnnouncedRecord(p)' = record[p] /\ announced < record[p] /\ MarkAnnounced
         /\ announced <= announced'
         /\ announced' \in Seq /\ AnnouncedRecord(p)' \in Seq
<1>1. /\ announced \in Seq /\ seq \in Seq /\ announced <= seq
      /\ record[p] \in Seq /\ kept[p] \in Seq /\ record[p] <= seq
      /\ AnnouncedRecord(p) = IF p \in pending THEN IF kept[p] <= announced THEN kept[p] ELSE 0
                              ELSE IF record[p] <= announced THEN record[p] ELSE 0
      /\ p \in pending => announced < record[p]
  BY DEF Numbers, TypeOK, Bounded, PendingAbove, AnnouncedRecord
<1>2. AnnouncedRecord(p)' = IF p \in pending' THEN IF kept'[p] <= announced' THEN kept'[p] ELSE 0
                            ELSE IF record'[p] <= announced' THEN record'[p] ELSE 0
  BY DEF AnnouncedRecord
<1>3. announced' \in Seq /\ AnnouncedRecord(p)' \in Seq
  <2>1. TypeOK'
    BY NumbersStep DEF Numbers
  <2>2. announced' \in Seq /\ kept'[p] \in Seq /\ record'[p] \in Seq
    BY <2>1 DEF TypeOK
  <2> QED
    BY <1>2, <2>2, BoundsAssumption DEF Seq
<1>4. CASE MarkAnnounced
  <2>1. /\ pending' = {} /\ record' = record /\ announced' = seq
    BY <1>4 DEF MarkAnnounced
  <2>2. AnnouncedRecord(p)' = record[p]
    BY <1>1, <1>2, <2>1
  <2>3. announced < record[p] \/ AnnouncedRecord(p) = record[p]
    BY <1>1, SeqNumbers
  <2> QED
    BY <1>1, <1>3, <1>4, <2>1, <2>2, <2>3
<1>5. CASE UNCHANGED index
  BY <1>1, <1>2, <1>3, <1>5, SeqNumbers DEF index
<1>6. CASE Revert
  BY <1>1, <1>2, <1>3, <1>6, SeqNumbers DEF Revert
<1>7. CASE \E r \in Path : Write(r) \/ Adopt(r)
  <2>1. PICK r \in Path : Write(r) \/ Adopt(r)
    BY <1>7
  <2>2. announced' = announced /\ announced <= announced
    BY <1>1, <2>1, SeqNumbers DEF Write, Adopt
  <2>3. CASE r # p
    <3>1. record'[p] = record[p] /\ kept'[p] = kept[p] /\ (p \in pending' <=> p \in pending)
      BY <2>1, <2>3 DEF Numbers, TypeOK, Write, Adopt, Written
    <3> QED
      BY <1>1, <1>2, <1>3, <2>2, <3>1
  <2>4. CASE r = p /\ Write(r)
    <3>1. p \in pending' /\ kept'[p] = IF p \in pending THEN kept[p] ELSE record[p]
      BY <2>4 DEF Numbers, TypeOK, Write
    <3> QED
      BY <1>1, <1>2, <1>3, <2>2, <3>1
  <2>5. CASE r = p /\ Adopt(r)
    <3>1. p \notin pending' /\ record'[p] = seq + 1
      BY <2>5 DEF Numbers, TypeOK, Adopt, Written
    <3>2. ~(seq + 1 <= announced)
      BY <1>1, SeqNumbers
    <3> QED
      BY <1>2, <1>3, <2>2, <3>1, <3>2
  <2> QED
    BY <2>1, <2>3, <2>4, <2>5
<1>8. MarkAnnounced \/ UNCHANGED index \/ Revert \/ \E r \in Path : Write(r) \/ Adopt(r)
  BY SendingKeeps, LinkingKeeps DEF Numbers, Next, Linking, Receive
<1> QED
  BY <1>4, <1>5, <1>6, <1>7, <1>8

-----------------------------------------------------------------------------
(* The parts of the invariant.                                                *)

LEMMA BatchesStep ==
  ASSUME IInv, [Next]_vars
  PROVE  BatchesComplete'
<1> SUFFICES ASSUME NEW q \in Peer, NEW b \in toPeer'[q], NEW p \in Path,
                    b.low < AnnouncedRecord(p)', AnnouncedRecord(p)' <= b.high
             PROVE  AnnouncedRecord(p)' \in b.entries
  BY DEF BatchesComplete
<1> DEFINE new == AnnouncedRecord(p)'
<1>1. Numbers /\ Numbers'
  BY NumbersStep DEF IInv
<1>2. /\ new = AnnouncedRecord(p) \/ new = 0 \/ (new = record[p] /\ announced < new)
      /\ announced \in Seq /\ new \in Seq
  BY <1>1, RecordsStay DEF Numbers, TypeOK
<1>3. b \in Batch /\ b.low \in Seq /\ b.high \in Seq /\ new # 0
  <2>1. b \in Batch
    BY <1>1 DEF Numbers, TypeOK
  <2> QED
    BY <1>2, <2>1, SeqNumbers DEF Batch
<1>4. CASE b \in toPeer[q]
  <2>1. b.high <= announced
    BY <1>1, <1>4 DEF Numbers, Bounded
  <2>2. new = AnnouncedRecord(p)
    BY <1>2, <1>3, <2>1, SeqNumbers
  <2> QED
    BY <1>4, <2>2 DEF IInv, BatchesComplete
<1>5. CASE \E form \in Forms(AnnouncedSince(acked[q]), acked[q]) : b \in form
  <2>1. b.high <= announced
    BY <1>1, <1>5, CatchUpWhole
  <2>2. new = AnnouncedRecord(p)
    BY <1>2, <1>3, <2>1, SeqNumbers
  <2> QED
    BY <1>1, <1>5, <2>2, CatchUpWhole
<1>6. CASE MarkAnnounced /\ \E form \in Forms(Unannounced, announced) : b \in form
  <2>1. new = record[p]
    <3>1. /\ pending' = {} /\ record' = record
      BY <1>6 DEF MarkAnnounced
    <3> QED
      BY <1>3, <3>1 DEF AnnouncedRecord
  <2> QED
    BY <1>1, <1>6, <2>1, LiveWhole
<1>7. b \in toPeer[q] \/ (\E due, hold \in BOOLEAN : Tick(due, hold)) \/ Approve
  <2>1. CASE \E x \in Peer : \E d \in toPeer[x] : Receive(x, d)
    BY <1>1, <2>1 DEF Numbers, TypeOK, Receive
  <2>2. CASE Linking \/ UNCHANGED vars
    BY <1>1, <2>2, LinkingKeeps DEF Numbers
  <2>3. CASE Revert \/ \E r \in Path : Write(r) \/ Adopt(r)
    BY <2>3 DEF Revert, Write, Adopt, sending
  <2> QED
    BY <2>1, <2>2, <2>3 DEF Next, Linking
<1> QED
  BY <1>1, <1>4, <1>5, <1>6, <1>7, TickSends, ApproveSends

\* A record below the watermark or in a range was there before, and received,
\* or came with the batch, which has all that is between its ends.
LEMMA WatermarkStep ==
  ASSUME IInv, [Next]_vars
  PROVE  WatermarkTruthful' /\ RangesReceived'
<1> DEFINE new(p) == AnnouncedRecord(p)'
<1>1. Numbers /\ Numbers' /\ 0 \in Seq
  BY NumbersStep, BoundsAssumption DEF IInv, Seq
<1>2. ASSUME NEW p \in Path
      PROVE  /\ new(p) = AnnouncedRecord(p) \/ new(p) = 0 \/ announced < new(p)
             /\ announced \in Seq /\ new(p) \in Seq
  BY <1>1, RecordsStay DEF Numbers, TypeOK
<1>3. \A q \in Peer : contiguous[q] \in Seq /\ ranges[q] \in [Seq -> Seq]
                      /\ contiguous[q] <= announced /\ \A low \in Seq : ranges[q][low] <= announced
  BY <1>1 DEF Numbers, TypeOK, Bounded
<1>4. CASE \E q \in Peer : \E b \in toPeer[q] : Receive(q, b)
  <2>0. PICK q \in Peer : \E b \in toPeer[q] : Receive(q, b)
    BY <1>4
  <2>1. PICK b \in toPeer[q] : Receive(q, b)
    BY <2>0
  <2>2. \A p \in Path : new(p) = AnnouncedRecord(p)
    BY <2>1 DEF Receive, index, AnnouncedRecord
  <2>3. /\ got'[q] = got[q] \cup b.entries
        /\ \A x \in Peer : x # q => got'[x] = got[x]
        /\ \A p \in Path : b.low < AnnouncedRecord(p) /\ AnnouncedRecord(p) <= b.high
               => AnnouncedRecord(p) \in got'[q]
    BY <1>1, <2>1 DEF Receive, IInv, BatchesComplete, Numbers, TypeOK
  <2>4. /\ \A x \in Peer : x # q => contiguous'[x] = contiguous[x] /\ ranges'[x] = ranges[x]
        /\ contiguous' \in [Peer -> Seq]
        /\ \A low \in Seq : ranges'[q][low] \in {0, ranges[q][low]} \cup
                                {IF low = b.low THEN b.high ELSE 0}
        /\ \A r \in Seq : contiguous[q] < r /\ r <= contiguous'[q] =>
               \/ b.low < r /\ r <= b.high
               \/ \E low \in Seq : low < r /\ r <= ranges[q][low]
    BY <1>1, <2>1, ReceivedTyped DEF Receive
  <2>5. ASSUME NEW x \in Peer, NEW p \in Path, AnnouncedRecord(p) # 0,
               AnnouncedRecord(p) <= contiguous'[x]
        PROVE  AnnouncedRecord(p) \in got'[x]
    <3>1. AnnouncedRecord(p) \in Seq
      BY <1>2, <2>2
    <3>2. CASE x # q \/ AnnouncedRecord(p) <= contiguous[q]
      BY <2>3, <2>4, <2>5, <3>2 DEF IInv, WatermarkTruthful
    <3>3. CASE x = q /\ contiguous[q] < AnnouncedRecord(p)
      <4>1. CASE b.low < AnnouncedRecord(p) /\ AnnouncedRecord(p) <= b.high
        BY <2>3, <3>3, <4>1
      <4>2. CASE \E low \in Seq : low < AnnouncedRecord(p) /\ AnnouncedRecord(p) <= ranges[q][low]
        BY <2>3, <3>3, <4>2 DEF IInv, RangesReceived
      <4> QED
        BY <2>4, <2>5, <3>1, <3>3, <4>1, <4>2
    <3> QED
      BY <1>3, <3>1, <3>2, <3>3, SeqNumbers
  <2>6. ASSUME NEW x \in Peer, NEW low \in Seq, NEW p \in Path,
               low < AnnouncedRecord(p), AnnouncedRecord(p) <= ranges'[x][low]
        PROVE  AnnouncedRecord(p) \in got'[x]
    <3>1. AnnouncedRecord(p) \in Seq
      BY <1>2, <2>2
    <3>2. CASE x # q \/ ranges'[q][low] = ranges[q][low]
      BY <2>3, <2>4, <2>6, <3>2 DEF IInv, RangesReceived
    <3>3. CASE x = q /\ ranges'[q][low] = 0
      BY <2>6, <3>1, <3>3, SeqNumbers
    <3>4. CASE x = q /\ low = b.low /\ ranges'[q][low] = b.high
      BY <2>3, <2>6, <3>4
    <3> QED
      BY <2>4, <3>2, <3>3, <3>4
  <2> QED
    BY <2>2, <2>5, <2>6 DEF WatermarkTruthful, RangesReceived
<1>5. CASE UNCHANGED peer
  <2>1. contiguous' = contiguous /\ ranges' = ranges /\ got' = got
    BY <1>5 DEF peer
  <2>2. ASSUME NEW q \in Peer, NEW p \in Path, new(p) # 0, new(p) <= contiguous[q]
        PROVE  new(p) \in got[q]
    <3>1. new(p) = AnnouncedRecord(p)
      BY <1>2, <1>3, <2>2, SeqNumbers
    <3> QED
      BY <2>2, <3>1 DEF IInv, WatermarkTruthful
  <2>3. ASSUME NEW q \in Peer, NEW low \in Seq, NEW p \in Path,
               low < new(p), new(p) <= ranges[q][low]
        PROVE  new(p) \in got[q]
    <3>1. ranges[q][low] \in Seq /\ ranges[q][low] <= announced
      BY <1>3
    <3>2. new(p) # 0
      BY <1>2, <2>3, SeqNumbers
    <3>3. new(p) = AnnouncedRecord(p)
      BY <1>2, <2>3, <3>1, <3>2, SeqNumbers
    <3> QED
      BY <2>3, <3>3 DEF IInv, RangesReceived
  <2> QED
    BY <2>1, <2>2, <2>3 DEF WatermarkTruthful, RangesReceived
<1>6. UNCHANGED peer \/ \E q \in Peer : \E b \in toPeer[q] : Receive(q, b)
  BY <1>1, SendingKeeps, LinkingKeeps DEF Numbers, Next, Linking, Revert, Write, Adopt
<1> QED
  BY <1>4, <1>5, <1>6

LEMMA DiscardedStep ==
  ASSUME IInv, [Next]_vars
  PROVE  DiscardedNeverSent'
<1>1. Numbers
  BY DEF IInv
<1>2. \A q \in Peer : /\ got[q] \subseteq 1..announced
                      /\ \A b \in toPeer[q] : b.entries \subseteq 1..announced
  BY <1>1 DEF Numbers, Bounded
<1>3. CASE Revert
  <2>1. ASSUME NEW p \in pending PROVE record[p] \notin 1..announced
    <3>1. p \in Path /\ record[p] \in Seq /\ announced \in Seq /\ announced < record[p]
      BY <1>1 DEF Numbers, TypeOK, PendingAbove
    <3> QED
      BY <3>1, SeqNumbers
  <2>2. discarded' = discarded \cup {record[p] : p \in pending} /\ got' = got /\ toPeer' = toPeer
    BY <1>3 DEF Revert, peer, sending
  <2> QED
    BY <1>2, <2>1, <2>2 DEF IInv, DiscardedNeverSent
<1>4. CASE \E q \in Peer : \E b \in toPeer[q] : Receive(q, b)
  <2>0. PICK q \in Peer : \E b \in toPeer[q] : Receive(q, b)
    BY <1>4
  <2>1. PICK b \in toPeer[q] : Receive(q, b)
    BY <2>0
  <2>2. discarded' = discarded
    BY <2>1 DEF Receive
  <2>3. \A x \in Peer : got'[x] \subseteq got[x] \cup (IF x = q THEN b.entries ELSE {})
                        /\ toPeer'[x] \subseteq toPeer[x]
    BY <1>1, <2>1 DEF Numbers, TypeOK, Receive
  <2> QED
    BY <2>2, <2>3 DEF IInv, DiscardedNeverSent
<1>5. CASE (\E due, hold \in BOOLEAN : Tick(due, hold)) \/ Approve
  <2>1. discarded' = discarded /\ got' = got
    BY <1>1, <1>5, SendingKeeps DEF Numbers, MarkAnnounced, peer
  <2>2. ASSUME NEW q \in Peer, NEW b \in toPeer'[q]
        PROVE  b.entries \cap discarded = {}
    <3>1. CASE b \in toPeer[q]
      BY <3>1 DEF IInv, DiscardedNeverSent
    <3>2. CASE \E form \in Forms(AnnouncedSince(acked[q]), acked[q]) : b \in form
      BY <1>1, <3>2, CatchUpWhole
    <3>3. CASE MarkAnnounced /\ \E form \in Forms(Unannounced, announced) : b \in form
      BY <1>1, <3>3, LiveWhole
    <3> QED
      BY <1>1, <1>5, <3>1, <3>2, <3>3, TickSends, ApproveSends
  <2> QED
    BY <2>1, <2>2 DEF IInv, DiscardedNeverSent
<1>6. CASE Linking \/ UNCHANGED vars
  BY <1>1, <1>6, LinkingKeeps DEF Numbers, IInv, DiscardedNeverSent, peer
<1>7. CASE \E p \in Path : Write(p) \/ Adopt(p)
  BY <1>7 DEF IInv, DiscardedNeverSent, Write, Adopt, sending, peer
<1> QED
  BY <1>3, <1>4, <1>5, <1>6, <1>7 DEF Next, Linking

-----------------------------------------------------------------------------
(* The theorems.                                                              *)

\* What the proof carries from step to step.
THEOREM Invariance == Spec => []IInv
<1>1. IInv /\ [Next]_vars => IInv'
  BY NumbersStep, BatchesStep, WatermarkStep, DiscardedStep DEF IInv
<1> QED
  BY InitOK, <1>1, PTL DEF Spec

\* Every variable keeps its type, whatever the paths, peers, writes and faults.
THEOREM TypeCorrect == Spec => []TypeOK
<1>1. IInv => TypeOK
  BY DEF IInv, Numbers
<1> QED
  BY <1>1, Invariance, PTL

\* However a batch was cut and however long it was in flight, it has the entry
\* of every announced record in its range.
THEOREM BatchesWhole == Spec => []BatchesComplete
<1>1. IInv => BatchesComplete
  BY DEF IInv
<1> QED
  BY <1>1, Invariance, PTL

\* No watermark passes a record that the peer lacks, in whatever order batches
\* arrive and whichever are lost: what is below it need never be sent again.
THEOREM NothingSkipped == Spec => []WatermarkTruthful
<1>1. IInv => WatermarkTruthful
  BY DEF IInv
<1> QED
  BY <1>1, Invariance, PTL

\* The sender never believes that a peer holds more than it does.
THEOREM AckedNotAhead == Spec => []AckedIsHeld
<1>1. IInv => AckedIsHeld
  BY DEF IInv, Numbers, Bounded, AckedIsHeld
<1> QED
  BY <1>1, Invariance, PTL

\* No batch, live or catch-up, ever carried a record that a revert discarded,
\* before or after.
THEOREM RevertLeavesNoTrace == Spec => []DiscardedNeverSent
<1>1. IInv => DiscardedNeverSent
  BY DEF IInv
<1> QED
  BY <1>1, Invariance, PTL

=============================================================================
