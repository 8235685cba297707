--------------------------- MODULE EntriesProofs ----------------------------
(* Facts about version vectors and the winner rule, for any set of members    *)
(* and any two entries: vectors form a lattice under Merge, and the rule is   *)
(* a total order on bodies, so that what a merge picks depends neither on     *)
(* which machine merges nor on the order it merges in.                        *)
EXTENDS Entries, TLAPS

-----------------------------------------------------------------------------
(* Vectors                                                                    *)

\* Counters are integers.
LEMMA Counters ==
    ASSUME NEW v \in Version, NEW n \in Node
    PROVE  v[n] \in 0..MaxCounter /\ v[n] \in Int /\ 0 <= v[n]
  BY MaxCounterAssumption DEF Version

\* Compare's three answers in terms of the counters.
LEMMA VersionOrder ==
    ASSUME NEW v \in Version, NEW w \in Version
    PROVE  /\ DominatesOrEquals(v, w) <=> \A n \in Node : w[n] <= v[n]
           /\ Dominates(v, w) <=> v # w /\ \A n \in Node : w[n] <= v[n]
           /\ Concurrent(v, w) <=>
                 ~DominatesOrEquals(v, w) /\ ~DominatesOrEquals(w, v)
<1>2. \A n \in Node : v[n] \in Int /\ w[n] \in Int
  BY Counters
<1>3. ~Greater(w, v) <=> \A n \in Node : w[n] <= v[n]
  BY <1>2 DEF Greater
<1>4. ~Greater(v, w) <=> \A n \in Node : v[n] <= w[n]
  BY <1>2 DEF Greater
<1>5. v = w <=> ~Greater(v, w) /\ ~Greater(w, v)
  <2>1. v = w => ~Greater(v, w) /\ ~Greater(w, v)
    BY <1>2 DEF Greater
  <2>2. ASSUME ~Greater(v, w), ~Greater(w, v)
        PROVE  v = w
    <3>1. ASSUME NEW n \in Node PROVE v[n] = w[n]
      <4>1. v[n] \in Int /\ w[n] \in Int /\ v[n] <= w[n] /\ w[n] <= v[n]
        BY <2>2, <1>2, <1>3, <1>4
      <4>2. QED
        BY <4>1
    <3>2. QED
      BY <3>1 DEF Version
  <2>3. QED
    BY <2>1, <2>2
<1>6. DominatesOrEquals(v, w) <=> ~Greater(w, v)
  BY DEF DominatesOrEquals, Compare
<1>7. DominatesOrEquals(w, v) <=> ~Greater(v, w)
  BY DEF DominatesOrEquals, Compare
<1>8. Dominates(v, w) <=> Greater(v, w) /\ ~Greater(w, v)
  BY DEF Dominates, Compare
<1>9. Concurrent(v, w) <=> Greater(v, w) /\ Greater(w, v)
  BY DEF Concurrent, Compare
<1>10. QED
  BY <1>3, <1>5, <1>6, <1>7, <1>8, <1>9

\* A counter of the merge is one of the two, and at least both.
LEMMA MergeVersion ==
    ASSUME NEW v \in Version, NEW w \in Version
    PROVE  /\ Merge(v, w) \in Version
           /\ Merge(v, w) = Merge(w, v)
           /\ \A n \in Node : /\ Merge(v, w)[n] \in {v[n], w[n]}
                              /\ v[n] <= Merge(v, w)[n]
                              /\ w[n] <= Merge(v, w)[n]
<1>1. ASSUME NEW n \in Node
      PROVE  /\ Merge(v, w)[n] \in {v[n], w[n]}
             /\ Merge(v, w)[n] \in 0..MaxCounter
             /\ v[n] <= Merge(v, w)[n]
             /\ w[n] <= Merge(v, w)[n]
             /\ Merge(w, v)[n] = Merge(v, w)[n]
  <2>1. v[n] \in Int /\ w[n] \in Int /\ {v[n], w[n]} \subseteq 0..MaxCounter
    BY Counters
  <2>2. Merge(v, w)[n] = IF v[n] >= w[n] THEN v[n] ELSE w[n]
    BY DEF Merge
  <2>3. Merge(w, v)[n] = IF w[n] >= v[n] THEN w[n] ELSE v[n]
    BY DEF Merge
  <2>4. QED
    BY <2>1, <2>2, <2>3
<1>2. Merge(v, w) \in Version
  BY <1>1 DEF Merge, Version
<1>3. Merge(w, v) = Merge(v, w)
  BY <1>1 DEF Merge
<1>4. QED
  BY <1>1, <1>2, <1>3

\* Merging two concurrent vectors moves past either of them.
LEMMA MergeDominates ==
    ASSUME NEW v \in Version, NEW w \in Version, Concurrent(v, w)
    PROVE  Dominates(Merge(v, w), w)
<1>1. Merge(v, w) \in Version /\ \A n \in Node : w[n] <= Merge(v, w)[n]
  BY MergeVersion
<1>2. ~DominatesOrEquals(w, v)
  BY VersionOrder
<1>3. \E n \in Node : ~(v[n] <= w[n])
  BY <1>2, VersionOrder
<1>4. Merge(v, w) # w
  BY <1>3, MergeVersion
<1>5. QED
  BY <1>1, <1>4, VersionOrder

\* A local change moves one counter, one step, unless it is at its top.
LEMMA IncrementedVersion ==
    ASSUME NEW v \in Version, NEW n \in Node
    PROVE  /\ Incremented(v, n) \in Version
           /\ \A k \in Node : v[k] <= Incremented(v, n)[k]
           /\ \A k \in Node \ {n} : Incremented(v, n)[k] = v[k]
           /\ v[n] < MaxCounter => Incremented(v, n)[n] = v[n] + 1
<1>1. \A k \in Node : v[k] \in 0..MaxCounter
  BY DEF Version
<1>2. QED
  BY <1>1, MaxCounterAssumption DEF Incremented, Version

LEMMA EmptyVersion == Empty \in Version
  BY MaxCounterAssumption DEF Empty, Version

LEMMA AbsentEntry == Absent \in Entry
  BY EmptyVersion DEF Absent, Entry, Body, NoContent

-----------------------------------------------------------------------------
(* The winner rule                                                            *)

\* Neither machine can name the other side: the rule before the fallback
\* never ranks two bodies below each other.
LEMMA OutrankedAsymmetric ==
    ASSUME NEW a \in Body, NEW b \in Body, OutrankedBy(a, b)
    PROVE  ~OutrankedBy(b, a)
  BY DEF OutrankedBy, Body, MetadataOnly

\* The fallback is reached by bodies that differ in hash, exec and prev only.
LEMMA TiedFields ==
    ASSUME NEW a \in Body, NEW b \in Body, Tied(a, b)
    PROVE  /\ a.stamp = b.stamp
           /\ a.deleted = b.deleted
           /\ MetadataOnly(a) = MetadataOnly(b)
           /\ a.mtime = b.mtime
           /\ a.by = b.by
  BY DEF Tied, OutrankedBy, Body, MetadataOnly

LEMMA FallbackAsymmetric ==
    ASSUME NEW a \in Body, NEW b \in Body, FallbackBelow(a, b)
    PROVE  ~FallbackBelow(b, a)
  BY DEF FallbackBelow, Body

\* The fallback is total: bodies it ranks neither way are the same body.
LEMMA FallbackTotal ==
    ASSUME NEW a \in Body, NEW b \in Body, Tied(a, b),
           ~FallbackBelow(a, b), ~FallbackBelow(b, a)
    PROVE  a = b
<1>1. a.hash = b.hash /\ a.exec = b.exec /\ a.prev = b.prev
  BY DEF FallbackBelow, Body
<1>2. /\ a.stamp = b.stamp /\ a.deleted = b.deleted
      /\ a.mtime = b.mtime /\ a.by = b.by
  BY TiedFields
<1>3. QED
  BY <1>1, <1>2 DEF Body

\* b ranks above a: by the rules, or among tied bodies by the fallback.
Above(b, a) == OutrankedBy(a, b) \/ (Tied(a, b) /\ FallbackBelow(a, b))

LEMMA AboveAsymmetric ==
    ASSUME NEW a \in Body, NEW b \in Body, Above(b, a)
    PROVE  ~Above(a, b)
<1>1. CASE OutrankedBy(a, b)
  BY <1>1, OutrankedAsymmetric DEF Above, Tied
<1>2. CASE Tied(a, b) /\ FallbackBelow(a, b)
  BY <1>2, FallbackAsymmetric DEF Above, Tied
<1>3. QED
  BY <1>1, <1>2 DEF Above

LEMMA AboveTotal ==
    ASSUME NEW a \in Body, NEW b \in Body, ~Above(a, b), ~Above(b, a)
    PROVE  a = b
<1>1. Tied(a, b) /\ Tied(b, a)
  BY DEF Above, Tied
<1>2. QED
  BY <1>1, FallbackTotal DEF Above

LEMMA WinnerIsAbove ==
    ASSUME NEW a \in Body, NEW b \in Body
    PROVE  WinnerBody(a, b) = IF Above(b, a) THEN b ELSE a
  BY DEF WinnerBody, Winner, Above

\* winner(a, b) and winner(b, a) pick the same body: the two machines that
\* meet a conflict from its two sides keep the same content (conflict.rs: the
\* rule is "total and symmetric").
THEOREM WinnerSymmetric ==
    ASSUME NEW a \in Body, NEW b \in Body
    PROVE  WinnerBody(a, b) = WinnerBody(b, a)
<1>1. CASE Above(b, a)
  BY <1>1, AboveAsymmetric, WinnerIsAbove
<1>2. CASE Above(a, b)
  BY <1>2, AboveAsymmetric, WinnerIsAbove
<1>3. CASE ~Above(a, b) /\ ~Above(b, a)
  BY <1>3, AboveTotal
<1>4. QED
  BY <1>1, <1>2, <1>3

LEMMA OutrankedTransitive ==
    ASSUME NEW a \in Body, NEW b \in Body, NEW c \in Body,
           OutrankedBy(a, b), OutrankedBy(b, c)
    PROVE  OutrankedBy(a, c)
  BY DEF OutrankedBy, Body, MetadataOnly

\* Bodies tied with each other rank alike against any third.
LEMMA TiedRankAlike ==
    ASSUME NEW a \in Body, NEW b \in Body, NEW c \in Body, Tied(a, b)
    PROVE  /\ OutrankedBy(a, c) <=> OutrankedBy(b, c)
           /\ OutrankedBy(c, a) <=> OutrankedBy(c, b)
  BY TiedFields DEF OutrankedBy

LEMMA FallbackTransitive ==
    ASSUME NEW a \in Body, NEW b \in Body, NEW c \in Body,
           FallbackBelow(a, b), FallbackBelow(b, c)
    PROVE  FallbackBelow(a, c)
  BY DEF FallbackBelow, Body

LEMMA AboveTransitive ==
    ASSUME NEW a \in Body, NEW b \in Body, NEW c \in Body,
           Above(b, a), Above(c, b)
    PROVE  Above(c, a)
<1>1. CASE OutrankedBy(a, b) /\ OutrankedBy(b, c)
  BY <1>1, OutrankedTransitive DEF Above
<1>2. CASE OutrankedBy(a, b) /\ Tied(b, c)
  BY <1>2, TiedRankAlike DEF Above
<1>3. CASE Tied(a, b) /\ OutrankedBy(b, c)
  BY <1>3, TiedRankAlike DEF Above
<1>4. CASE /\ Tied(a, b) /\ FallbackBelow(a, b)
           /\ Tied(b, c) /\ FallbackBelow(b, c)
  <2>1. FallbackBelow(a, c)
    BY <1>4, FallbackTransitive
  <2>2. Tied(a, c)
    BY <1>4, TiedRankAlike DEF Tied
  <2>3. QED
    BY <2>1, <2>2 DEF Above
<1>5. QED
  BY <1>1, <1>2, <1>3, <1>4 DEF Above

\* a is at least as high as b.
AtLeast(a, b) == WinnerBody(a, b) = a

LEMMA AtLeastOrder ==
    ASSUME NEW a \in Body, NEW b \in Body, NEW c \in Body
    PROVE  /\ AtLeast(a, a)
           /\ AtLeast(a, b) /\ AtLeast(b, a) => a = b
           /\ AtLeast(a, b) /\ AtLeast(b, c) => AtLeast(a, c)
           /\ AtLeast(a, b) <=> ~Above(b, a)
           /\ AtLeast(a, b) \/ AtLeast(b, a)
<1>1. ASSUME NEW x \in Body, NEW y \in Body
      PROVE  AtLeast(x, y) <=> ~Above(y, x)
  <2>1. CASE Above(y, x)
    <3>1. x # y
      BY <2>1, AboveAsymmetric
    <3>2. QED
      BY <2>1, <3>1, WinnerIsAbove DEF AtLeast
  <2>2. CASE ~Above(y, x)
    BY <2>2, WinnerIsAbove DEF AtLeast
  <2>3. QED
    BY <2>1, <2>2
<1>2. AtLeast(a, a)
  BY DEF AtLeast, WinnerBody
<1>3. AtLeast(a, b) /\ AtLeast(b, a) => a = b
  BY <1>1, AboveTotal
<1>4. ASSUME AtLeast(a, b), AtLeast(b, c)
      PROVE  AtLeast(a, c)
  <2>1. CASE a = b \/ b = c
    BY <2>1, <1>4
  <2>2. CASE a # b /\ b # c
    <3>1. Above(a, b) /\ Above(b, c)
      BY <2>2, <1>1, <1>4, AboveTotal
    <3>2. Above(a, c)
      BY <3>1, AboveTransitive
    <3>3. QED
      BY <3>2, <1>1, AboveAsymmetric
  <2>3. QED
    BY <2>1, <2>2
<1>5. AtLeast(a, b) \/ AtLeast(b, a)
  BY <1>1, AboveAsymmetric
<1>6. QED
  BY <1>1, <1>2, <1>3, <1>4, <1>5

\* The winner is one of the two bodies and at least as high as both, so the
\* outcome of a merge is the highest ranked of its sides.
THEOREM WinnerIsHighest ==
    ASSUME NEW a \in Body, NEW b \in Body
    PROVE  /\ WinnerBody(a, b) \in {a, b}
           /\ AtLeast(WinnerBody(a, b), a)
           /\ AtLeast(WinnerBody(a, b), b)
<1>1. CASE Above(b, a)
  BY <1>1, WinnerIsAbove, AtLeastOrder, AboveAsymmetric
<1>2. CASE ~Above(b, a)
  BY <1>2, WinnerIsAbove, AtLeastOrder
<1>3. QED
  BY <1>1, <1>2

\* Several concurrent entries merge to the same entry in whatever order a
\* machine meets them (conflict.rs: "a merged record is a function of its
\* vector").
THEOREM MergeAssociative ==
    ASSUME NEW a \in Entry, NEW b \in Entry, NEW c \in Entry
    PROVE  Merged(Merged(a, b), c) = Merged(a, Merged(b, c))
<1>1. /\ a.body \in Body /\ b.body \in Body /\ c.body \in Body
      /\ a.version \in Version /\ b.version \in Version /\ c.version \in Version
  BY DEF Entry
<1>2. Merge(Merge(a.version, b.version), c.version)
        = Merge(a.version, Merge(b.version, c.version))
  <2>1. ASSUME NEW n \in Node
        PROVE  Merge(Merge(a.version, b.version), c.version)[n]
                 = Merge(a.version, Merge(b.version, c.version))[n]
    <3>1. a.version[n] \in Int /\ b.version[n] \in Int /\ c.version[n] \in Int
      BY <1>1, Counters
    <3>2. QED
      BY <3>1 DEF Merge
  <2>2. QED
    BY <2>1 DEF Merge
<1>3. WinnerBody(WinnerBody(a.body, b.body), c.body)
        = WinnerBody(a.body, WinnerBody(b.body, c.body))
  <2> DEFINE left  == WinnerBody(WinnerBody(a.body, b.body), c.body)
             right == WinnerBody(a.body, WinnerBody(b.body, c.body))
             ab    == WinnerBody(a.body, b.body)
             bc    == WinnerBody(b.body, c.body)
  <2>1. ab \in {a.body, b.body} /\ bc \in {b.body, c.body}
    BY <1>1, WinnerIsHighest
  <2>2. ab \in Body /\ bc \in Body
    BY <2>1, <1>1
  <2>3. /\ AtLeast(ab, a.body) /\ AtLeast(ab, b.body)
        /\ AtLeast(bc, b.body) /\ AtLeast(bc, c.body)
    BY <1>1, WinnerIsHighest
  <2>4. /\ left \in {ab, c.body} /\ AtLeast(left, ab) /\ AtLeast(left, c.body)
        /\ right \in {a.body, bc} /\ AtLeast(right, a.body) /\ AtLeast(right, bc)
    BY <1>1, <2>2, WinnerIsHighest
  <2>5. left \in Body /\ right \in Body
    BY <2>2, <2>4, <1>1
  <2> HIDE DEF left, right, ab, bc
  <2>6. /\ AtLeast(left, a.body) /\ AtLeast(left, b.body)
        /\ AtLeast(right, b.body) /\ AtLeast(right, c.body)
    BY <1>1, <2>2, <2>3, <2>4, <2>5, AtLeastOrder
  <2>7. AtLeast(left, right) /\ AtLeast(right, left)
    BY <2>1, <2>4, <2>6
  <2>8. left = right
    BY <2>5, <2>7, AtLeastOrder
  <2>9. QED
    BY <2>8 DEF left, right
<1>4. QED
  BY <1>2, <1>3 DEF Merged

=============================================================================
