----------------------------- MODULE WantsProofs -----------------------------
(* Proofs about Wants, for any tree of paths, any peers and batches: the host *)
(* is at one commit per path, none in a directory on its way to the trash,    *)
(* and no path is held in flight behind a want that backs off.                *)
EXTENDS Wants, FiniteSetTheorems, WellFoundedInduction, TLAPS

States == {"wanted", "blocked", "deferred", "no source", "fetching", "committing", "gave up",
           "local retry", "disk full", "collides", "waiting for", "holds ignored"}
Tiers == {"lan", "relay", "away"}
Asks  == [path : Path, version : 1..MaxVersion, from : Peer]
Jobs  == [path : Path, version : 1..MaxVersion, op : Ops]

Engines ==
    [wants : [Path -> Wants \cup {NoWant}], released : [Path -> 0..MaxVersion],
     live : SUBSET Path, tiers : [Peer -> Tiers], diskFull : BOOLEAN, window : BOOLEAN,
     asks : SUBSET Asks, jobs : Seq(Jobs)]

\* A want of its type at p.  What is blocked is ready to be committed.
WantOK(p, w) ==
    Wanted(w) =>
        /\ w \in Wants
        /\ w.on \in CASE w.state = "fetching"    -> Peer
                      [] w.state = "waiting for" -> Path \ {p}
                      [] OTHER                   -> {0}
        /\ w.state = "gave up" <=> Cardinality(w.excluded) >= 2
        /\ w.state = "blocked" => ~NeedsFetch(w)

\* A commit that a rule released holds the path.
EngineOK(e) ==
    /\ e \in Engines
    /\ \A p \in Path : /\ WantOK(p, e.wants[p])
                       /\ e.wants[p].state = "committing" => e.released[p] = 0

IsTrash(w) == Wanted(w) /\ w.op = "trash"

\* The commits the host is at are those of the engine.  A move to the trash is
\* never released, and beneath what is to be moved nothing is made.
Matches(e, cs) ==
    /\ cs \in Seq(Jobs)
    /\ \A i, j \in 1..Len(cs) : cs[i].path = cs[j].path => i = j
    /\ \A p \in Path, v \in 1..MaxVersion :
          (\E i \in 1..Len(cs) : cs[i].path = p /\ cs[i].version = v)
          <=> \/ e.wants[p].state = "committing" /\ e.wants[p].version = v
              \/ e.released[p] = v
    /\ \A i \in 1..Len(cs) :
          cs[i].op = "trash" => LET w == e.wants[cs[i].path]
                                IN IsTrash(w) /\ w.state = "committing"
    /\ \A i \in 1..Len(cs) :
          ~IsDelete(cs[i]) => \A d \in Above[cs[i].path] : ~IsTrash(e.wants[d])

IInv ==
    /\ EngineOK(engine) /\ engine.asks = {} /\ engine.jobs = <<>>
    /\ latest \in [Path -> 0..MaxVersion]
    /\ IsABag(fetches) /\ BagToSet(fetches) \subseteq Asks
    /\ Matches(engine, commits)
    /\ NeverHeldBehind

-----------------------------------------------------------------------------
(* The least of some.                                                         *)

LEMMA LeastExists ==
  ASSUME NEW S \in SUBSET Nat, S # {}
  PROVE  \E x \in S : \A y \in S : x <= y
<1>1. PICK x \in S : \A y \in S : ~(<<y, x>> \in OpToRel(<, Nat))
  BY NatLessThanWellFounded, WFMin
<1>2. ASSUME NEW y \in S PROVE x <= y
  <2>1. y < x => <<y, x>> \in OpToRel(<, Nat)
    BY DEF OpToRel
  <2>2. x \in Nat /\ y \in Nat /\ ~(y < x)
    BY <1>1, <2>1
  <2> QED
    BY <2>2
<1> QED
  BY <1>2

\* x is the least of S by a first number, then a second, then a third.
First(x, S, a, b, c) ==
    \A y \in S : \/ a[x] < a[y]
                 \/ a[x] = a[y] /\ b[x] < b[y]
                 \/ a[x] = a[y] /\ b[x] = b[y] /\ c[x] <= c[y]

LEMMA FirstExists ==
  ASSUME NEW S, S # {}, NEW a \in [S -> Nat], NEW b \in [S -> Nat], NEW c \in [S -> Nat]
  PROVE  \E x \in S : First(x, S, a, b, c)
<1> DEFINE A == {a[x] : x \in S}
<1>1. PICK k \in A : \A l \in A : k <= l
  <2>1. A \in SUBSET Nat /\ A # {}
    OBVIOUS
  <2> QED
    BY <2>1, LeastExists
<1> DEFINE T == {x \in S : a[x] = k}
           B == {b[x] : x \in T}
<1>2. PICK m \in B : \A l \in B : m <= l
  <2>1. B \in SUBSET Nat /\ B # {}
    OBVIOUS
  <2> HIDE DEF B
  <2> QED
    BY <2>1, LeastExists
<1> DEFINE U == {x \in T : b[x] = m}
           C == {c[x] : x \in U}
<1>3. PICK n \in C : \A l \in C : n <= l
  <2>1. C \in SUBSET Nat /\ C # {}
    OBVIOUS
  <2> HIDE DEF C
  <2> QED
    BY <2>1, LeastExists
<1>4. PICK x \in U : c[x] = n
  OBVIOUS
<1>5. x \in S /\ a[x] = k /\ b[x] = m
  OBVIOUS
<1>6. ASSUME NEW y \in S
      PROVE  \/ a[x] < a[y]
             \/ a[x] = a[y] /\ b[x] < b[y]
             \/ a[x] = a[y] /\ b[x] = b[y] /\ c[x] <= c[y]
  <2>1. a[x] \in Nat /\ a[y] \in Nat /\ b[x] \in Nat /\ b[y] \in Nat /\ c[x] \in Nat /\ c[y] \in Nat
    BY <1>5
  <2>2. a[x] <= a[y]
    BY <1>1, <1>5
  <2>3. a[y] = k => b[x] <= b[y]
    BY <1>2, <1>5
  <2>4. a[y] = k /\ b[y] = m => c[x] <= c[y]
    BY <1>3, <1>4
  <2> QED
    BY <1>5, <2>1, <2>2, <2>3, <2>4
<1> QED
  BY <1>5, <1>6 DEF First

\* Paths and peers are numbers up to how many there are.
LEMMA Numbered ==
  /\ Cardinality(Path) \in Nat /\ Cardinality(Peer) \in Nat
  /\ \A p \in Path : p \in Nat /\ 1 <= p /\ p <= Cardinality(Path)
  /\ \A q \in Peer : q \in Nat /\ 1 <= q /\ q <= Cardinality(Peer)
  /\ \A p \in Path : Above[p] \subseteq Path /\ Above[p] \subseteq Dirs /\ \A q \in Above[p] : q < p
<1>1. Cardinality(Path) \in Nat /\ Cardinality(Peer) \in Nat
  BY WantsAssumption, FS_CardinalityType
<1> QED
  BY <1>1, WantsAssumption

LEMMA BestIsOne ==
  ASSUME NEW e, NEW S \in SUBSET Peer, S # {}
  PROVE  BestOf(e, S) \in S
<1> DEFINE a == [q \in S |-> Rank(e.tiers[q])]
           b == [q \in S |-> q]
<1>1. a \in [S -> Nat] /\ b \in [S -> Nat]
  BY Numbered DEF Rank
<1>2. PICK x \in S : First(x, S, a, b, b)
  BY <1>1, FirstExists
<1>4. \A y \in S \ {x} : Better(e, x, y)
  BY <1>2, Numbered DEF Better, First
<1> QED
  BY <1>4 DEF BestOf, Least

\* The nearest of what holds p back is one of them.
LEMMA NearestHolds ==
  ASSUME NEW e, NEW p, Holders(e, p) # {}
  PROVE  Nearest(e, p) \in Holders(e, p)
<1> DEFINE S == Holders(e, p)
           a == [q \in S |-> IF IsDelete(e.wants[p]) THEN Length[q]
                                                     ELSE Cardinality(Path) - q]
           b == [q \in S |-> q]
<1>1. S \subseteq Path
  BY DEF Holders
<1>2. \A q \in S : Length[q] \in Nat /\ Cardinality(Path) - q \in Nat
  <2>1. ASSUME NEW q \in S PROVE Length[q] \in Nat
    BY <1>1, WantsAssumption
  <2> QED
    BY <1>1, <2>1, Numbered
<1>3. a \in [S -> Nat] /\ b \in [S -> Nat]
  BY <1>1, <1>2, Numbered
<1>4. PICK x \in S : First(x, S, a, b, b)
  <2> HIDE DEF a, b, S
  <2>1. S # {}
    BY DEF S
  <2> QED
    BY <1>3, <2>1, FirstExists
<1>5. ASSUME NEW y \in S \ {x}
      PROVE  IF IsDelete(e.wants[p])
             THEN \/ Length[x] < Length[y]
                  \/ Length[x] = Length[y] /\ x < y
             ELSE x > y
  BY <1>1, <1>2, <1>4, Numbered DEF First
<1>6. Nearest(e, p) = CHOOSE z \in S : \A y \in S \ {z} :
             IF IsDelete(e.wants[p])
             THEN \/ Length[z] < Length[y]
                  \/ Length[z] = Length[y] /\ z < y
             ELSE z > y
  BY DEF Nearest, Least
<1> QED
  BY <1>5, <1>6

-----------------------------------------------------------------------------
(* What a step of the dispatch leaves as it was.                              *)

\* Only wants that are not at their commit come to an end or to another state.
Alike(e, f) ==
    /\ f.released = e.released
    /\ \A p \in Path :
          /\ f.wants[p].state = "committing" <=> e.wants[p].state = "committing"
          /\ Wanted(f.wants[p]) => /\ Wanted(e.wants[p])
                                   /\ f.wants[p].op = e.wants[p].op
                                   /\ f.wants[p].version = e.wants[p].version

LEMMA AlikeChains ==
  ASSUME NEW e, NEW f, NEW g, Alike(e, f), Alike(f, g)
  PROVE  Alike(e, g)
  BY DEF Alike

\* The same commits, and nothing new to be moved to the trash.
Like(e, f) ==
    /\ f.released = e.released
    /\ \A p \in Path :
          /\ IsTrash(f.wants[p]) => IsTrash(e.wants[p])
          /\ f.wants[p].state = "committing" <=> e.wants[p].state = "committing"
          /\ f.wants[p].state = "committing" =>
                 /\ f.wants[p].version = e.wants[p].version
                 /\ IsTrash(e.wants[p]) => IsTrash(f.wants[p])

LEMMA AlikeIsLike ==
  ASSUME NEW e, NEW f, Alike(e, f)
  PROVE  Like(e, f)
  BY DEF Alike, Like, IsTrash, Wanted

LEMMA MatchesLike ==
  ASSUME NEW e, NEW f, Like(e, f), NEW cs, Matches(e, cs)
  PROVE  Matches(f, cs)
<1>1. ASSUME NEW p \in Path
      PROVE  /\ IsTrash(f.wants[p]) => IsTrash(e.wants[p])
             /\ f.wants[p].state = "committing" <=> e.wants[p].state = "committing"
             /\ f.wants[p].state = "committing" =>
                    /\ f.wants[p].version = e.wants[p].version
                    /\ IsTrash(e.wants[p]) => IsTrash(f.wants[p])
             /\ f.released[p] = e.released[p]
  BY DEF Like
<1>2. \A i \in 1..Len(cs) : cs[i].path \in Path /\ Above[cs[i].path] \subseteq Path
  <2>1. ASSUME NEW i \in 1..Len(cs) PROVE cs[i] \in Jobs
    BY DEF Matches
  <2> QED
    BY <2>1, Numbered DEF Jobs
<1>3. \A p \in Path, v \in 1..MaxVersion :
          (\E i \in 1..Len(cs) : cs[i].path = p /\ cs[i].version = v)
          <=> \/ f.wants[p].state = "committing" /\ f.wants[p].version = v
              \/ f.released[p] = v
  BY <1>1 DEF Matches
<1>4. \A i \in 1..Len(cs) :
          cs[i].op = "trash" => LET w == f.wants[cs[i].path]
                                IN IsTrash(w) /\ w.state = "committing"
  BY <1>1, <1>2 DEF Matches
<1>5. \A i \in 1..Len(cs) :
          ~IsDelete(cs[i]) => \A d \in Above[cs[i].path] : ~IsTrash(f.wants[d])
  BY <1>1, <1>2 DEF Matches
<1> QED
  BY <1>3, <1>4, <1>5 DEF Matches

\* Where a directory is to be moved to the trash and is not being moved yet,
\* nothing is wanted beneath it but deletions.
TrashEmpty(e) ==
    \A d, p \in Path :
        /\ d \in Above[p] /\ IsTrash(e.wants[d]) /\ Wanted(e.wants[p]) /\ ~IsDelete(e.wants[p])
        => e.wants[d].state = "committing"

LEMMA TrashEmptyAlike ==
  ASSUME NEW e, NEW f, Alike(e, f), TrashEmpty(e)
  PROVE  TrashEmpty(f)
<1>1. ASSUME NEW d \in Path, NEW p \in Path, d \in Above[p], IsTrash(f.wants[d]),
             Wanted(f.wants[p]), ~IsDelete(f.wants[p])
      PROVE  f.wants[d].state = "committing"
  <2>1. IsTrash(e.wants[d]) /\ Wanted(e.wants[p]) /\ ~IsDelete(e.wants[p])
    BY <1>1 DEF Alike, IsTrash, IsDelete
  <2>2. e.wants[d].state = "committing"
    BY <1>1, <2>1 DEF TrashEmpty
  <2> QED
    BY <2>2 DEF Alike
<1> QED
  BY <1>1 DEF TrashEmpty

\* An engine with other wants.
LEMMA OtherWants ==
  ASSUME NEW e, EngineOK(e), NEW wants \in [Path -> Wants \cup {NoWant}],
         \A p \in Path : /\ WantOK(p, wants[p])
                         /\ wants[p].state = "committing" => e.released[p] = 0,
         NEW f, f \in Engines, f.wants = wants, f.released = e.released
  PROVE  EngineOK(f)
  BY DEF EngineOK

LEMMA NoWantOK ==
  /\ NoWant.state = "none" /\ ~Wanted(NoWant) /\ ~IsTrash(NoWant) /\ ~Committing(NoWant)
  /\ ~Startable(NoWant) /\ \A p : WantOK(p, NoWant)
  /\ \A w \in Wants : Wanted(w) /\ w # NoWant /\ w.state \in States
<1>1. NoWant.state = "none"
  BY DEF NoWant
<1>2. \A w \in Wants : w.state \in States /\ w.state # "none"
  BY DEF Wants, States
<1> QED
  BY <1>1, <1>2 DEF Wanted, IsTrash, Committing, Startable, WantOK

LEMMA WantIs ==
  ASSUME NEW e, e \in Engines, NEW p \in Path
  PROVE  /\ e.wants \in [Path -> Wants \cup {NoWant}]
         /\ e.wants[p] \in Wants \/ e.wants[p] = NoWant
         /\ Wanted(e.wants[p]) <=> e.wants[p] \in Wants
         /\ Wanted(e.wants[p]) <=> e.wants[p] # NoWant
  BY NoWantOK DEF Engines

-----------------------------------------------------------------------------
(* Wants that change their state only.                                        *)

OnFor(p, state) == CASE state = "fetching"    -> Peer
                     [] state = "waiting for" -> Path \ {p}
                     [] OTHER                 -> {0}

\* The want w in another state.
Moves(w, v, state, on) ==
    /\ v \in Wants /\ v.state = state /\ v.on = on
    /\ v.op = w.op /\ v.version = w.version /\ v.fetched = w.fetched
    /\ v.excluded = w.excluded /\ v.restoring = w.restoring

LEMMA OnForIs ==
  ASSUME NEW p \in Path, NEW state \in States, NEW on \in OnFor(p, state)
  PROVE  on \in {0} \cup Peer \cup Path
  BY DEF OnFor

LEMMA StateSet ==
  ASSUME NEW w \in Wants, NEW state \in States, NEW on \in {0} \cup Peer \cup Path
  PROVE  /\ Moves(w, [w EXCEPT !.state = state], state, w.on)
         /\ Moves(w, [w EXCEPT !.state = state, !.on = on], state, on)
  BY DEF Moves, Wants, States

LEMMA MovesOK ==
  ASSUME NEW p \in Path, NEW w \in Wants, WantOK(p, w), w.state # "gave up",
         NEW state \in States \ {"gave up"}, NEW on \in OnFor(p, state), NEW v,
         Moves(w, v, state, on), state = "blocked" => ~NeedsFetch(w)
  PROVE  WantOK(p, v) /\ Wanted(v) /\ (NeedsFetch(v) <=> NeedsFetch(w))
<1>1. Wanted(w) /\ Wanted(v)
  BY NoWantOK DEF Moves
<1>2. NeedsFetch(v) <=> NeedsFetch(w)
  BY DEF Moves, NeedsFetch
<1> QED
  BY <1>1, <1>2 DEF WantOK, Moves, OnFor

LEMMA WantOnFor ==
  ASSUME NEW p \in Path, NEW w \in Wants, WantOK(p, w)
  PROVE  /\ w.on \in OnFor(p, w.state)
         /\ w.state \notin {"fetching", "waiting for"} => w.on = 0
  BY NoWantOK DEF WantOK, OnFor

\* Nothing but the wants differs.
SameBut(e, f) ==
    /\ f.released = e.released /\ f.live = e.live /\ f.tiers = e.tiers
    /\ f.diskFull = e.diskFull /\ f.window = e.window /\ f.asks = e.asks /\ f.jobs = e.jobs

LEMMA WithWants ==
  ASSUME NEW e \in Engines, NEW wants \in [Path -> Wants \cup {NoWant}], NEW f,
         f = [e EXCEPT !.wants = wants]
  PROVE  /\ f \in Engines /\ f.wants = wants
         /\ SameBut(e, f)
  BY DEF Engines, SameBut

-----------------------------------------------------------------------------
(* The first steps of the dispatch.                                           *)

Rest(e, f) == f.asks = e.asks /\ f.jobs = e.jobs

LEMMA KeepDirectoriesOK ==
  ASSUME NEW e, EngineOK(e)
  PROVE  LET f == KeepDirectories(e)
         IN EngineOK(f) /\ Alike(e, f) /\ Rest(e, f) /\ TrashEmpty(f)
<1> DEFINE f == KeepDirectories(e)
           kept == {d \in Dirs : /\ Wanted(e.wants[d]) /\ e.wants[d].op = "trash"
                                 /\ e.wants[d].state # "committing" /\ LiveBeneath(e, d)}
           wants == [p \in Path |-> IF p \in kept THEN NoWant ELSE e.wants[p]]
<1>1. e \in Engines /\ Dirs \subseteq Path
  BY WantsAssumption DEF EngineOK
<1>2. wants \in [Path -> Wants \cup {NoWant}]
  BY <1>1 DEF Engines
<1>3. f \in Engines /\ f.wants = wants /\ f.released = e.released /\ Rest(e, f)
  <2>1. kept \subseteq Path /\ (kept # {}) \in BOOLEAN
    BY <1>1
  <2> HIDE DEF kept
  <2>2. f = [e EXCEPT !.wants = wants, !.live = @ \cup kept, !.window = @ \/ kept # {}]
    BY DEF KeepDirectories, kept
  <2> HIDE DEF f, wants
  <2> QED
    BY <1>1, <1>2, <2>1, <2>2 DEF Engines, Rest
<1>4. \A p \in Path : \/ wants[p] = e.wants[p]
                      \/ wants[p] = NoWant /\ e.wants[p].state # "committing"
  OBVIOUS
<1>5. EngineOK(f)
  BY <1>2, <1>3, <1>4, NoWantOK, OtherWants DEF EngineOK
<1>6. Alike(e, f)
  BY <1>3, <1>4, NoWantOK DEF Alike
<1>7. TrashEmpty(f)
  <2> SUFFICES ASSUME NEW d \in Path, NEW p \in Path, d \in Above[p], IsTrash(wants[d]),
                      Wanted(wants[p]), ~IsDelete(wants[p]), wants[d].state # "committing"
               PROVE  FALSE
    BY <1>3 DEF TrashEmpty
  <2>1. wants[d] = e.wants[d] /\ wants[p] = e.wants[p]
    BY NoWantOK
  <2>2. LiveBeneath(e, d)
    BY <2>1 DEF LiveBeneath
  <2>3. d \in kept
    BY <2>1, <2>2, Numbered DEF IsTrash
  <2> QED
    BY <2>3, NoWantOK
<1> QED
  BY <1>3, <1>5, <1>6, <1>7

\* A want is in another state, neither from nor to a commit.
Other == States \ {"gave up", "committing"}

Shifts(p, w, v) ==
    /\ w \in Wants /\ w.state \in Other
    /\ \E state \in Other, on \in {0} \cup Peer \cup Path :
          /\ on \in OnFor(p, state) /\ Moves(w, v, state, on)
          /\ state = "blocked" => ~NeedsFetch(w)

LEMMA ShiftsTo ==
  ASSUME NEW p \in Path, NEW w \in Wants, w.state \in Other, NEW v,
         NEW state \in Other \ {"blocked", "fetching", "waiting for"}, Moves(w, v, state, 0)
  PROVE  Shifts(p, w, v)
  BY DEF Shifts, OnFor, Other, States

LEMMA MovesAlike ==
  ASSUME NEW e, EngineOK(e), NEW wants, wants = [p \in Path |-> wants[p]],
         NEW f, f = [e EXCEPT !.wants = wants],
         \A p \in Path : wants[p] = e.wants[p] \/ Shifts(p, e.wants[p], wants[p])
  PROVE  /\ EngineOK(f) /\ Alike(e, f) /\ Rest(e, f) /\ f.wants = wants
         /\ f.tiers = e.tiers /\ f.diskFull = e.diskFull
<1>1. e \in Engines /\ \A p \in Path : WantOK(p, e.wants[p])
  BY DEF EngineOK
<1>2. ASSUME NEW p \in Path
      PROVE  /\ wants[p] \in Wants \cup {NoWant} /\ WantOK(p, wants[p])
             /\ wants[p].state = "committing" <=> e.wants[p].state = "committing"
             /\ Wanted(wants[p]) => /\ Wanted(e.wants[p])
                                    /\ wants[p].op = e.wants[p].op
                                    /\ wants[p].version = e.wants[p].version
  <2>1. CASE wants[p] = e.wants[p]
    BY <1>1, <2>1, WantIs
  <2>2. CASE wants[p] # e.wants[p]
    <3>1. PICK state \in Other, on \in {0} \cup Peer \cup Path :
             /\ on \in OnFor(p, state) /\ Moves(e.wants[p], wants[p], state, on)
             /\ state = "blocked" => ~NeedsFetch(e.wants[p])
      BY <2>2 DEF Shifts
    <3>2. e.wants[p] \in Wants /\ e.wants[p].state \in Other
      BY <2>2 DEF Shifts
    <3>3. WantOK(p, wants[p])
      BY <1>1, <3>1, <3>2, MovesOK DEF Other
    <3> QED
      BY <3>1, <3>2, <3>3, NoWantOK DEF Moves, Other
  <2> QED
    BY <2>1, <2>2
<1>3. wants \in [Path -> Wants \cup {NoWant}]
  BY <1>2
<1>4. /\ f \in Engines /\ f.wants = wants /\ f.released = e.released /\ Rest(e, f)
      /\ f.tiers = e.tiers /\ f.diskFull = e.diskFull
  BY <1>1, <1>3, WithWants DEF Rest, SameBut
<1>5. EngineOK(f)
  BY <1>2, <1>4 DEF EngineOK
<1>6. Alike(e, f)
  BY <1>2, <1>4 DEF Alike
<1> QED
  BY <1>4, <1>5, <1>6

LEMMA ReleaseWaitingOK ==
  ASSUME NEW e, EngineOK(e)
  PROVE  LET f == ReleaseWaiting(e) IN EngineOK(f) /\ Alike(e, f) /\ Rest(e, f)
<1> DEFINE f == ReleaseWaiting(e)
           wants == [p \in Path |->
               IF e.wants[p].state = "waiting for" /\ ~Gates(e, p, e.wants[p].on)
               THEN [e.wants[p] EXCEPT !.state = "wanted", !.on = 0] ELSE e.wants[p]]
<1>1. f = [e EXCEPT !.wants = wants]
  BY DEF ReleaseWaiting
<1>2. ASSUME NEW p \in Path, wants[p] # e.wants[p]
      PROVE  Shifts(p, e.wants[p], wants[p])
  <2>1. /\ e.wants[p].state = "waiting for"
        /\ wants[p] = [e.wants[p] EXCEPT !.state = "wanted", !.on = 0]
    BY <1>2
  <2>2. e.wants[p] \in Wants
    BY <2>1, WantIs DEF EngineOK, Wanted
  <2> QED
    BY <2>1, <2>2, StateSet, ShiftsTo DEF States, Other
<1> HIDE DEF wants, f
<1>3. wants = [p \in Path |-> wants[p]]
  BY DEF wants
<1>4. \A p \in Path : wants[p] = e.wants[p] \/ Shifts(p, e.wants[p], wants[p])
  BY <1>2
<1> QED
  BY <1>1, <1>3, <1>4, MovesAlike DEF f

LEMMA ReselectOK ==
  ASSUME NEW e, EngineOK(e)
  PROVE  LET f == Reselect(e) IN EngineOK(f) /\ Alike(e, f) /\ Rest(e, f)
<1> DEFINE f == Reselect(e)
           to(p) == IF Candidates(e, p) = {} THEN "no source" ELSE "deferred"
           wants == [p \in Path |->
               IF p \notin Fetchable(e) \/ Allowed(e, p) # {} THEN e.wants[p]
               ELSE [e.wants[p] EXCEPT !.state = to(p)]]
<1>1. f = [e EXCEPT !.wants = wants]
  BY DEF Reselect
<1>2. ASSUME NEW p \in Path, wants[p] # e.wants[p]
      PROVE  Shifts(p, e.wants[p], wants[p])
  <2>1. /\ e.wants[p].state \in {"wanted", "deferred", "no source"}
        /\ wants[p] = [e.wants[p] EXCEPT !.state = to(p)]
    BY <1>2 DEF Fetchable
  <2>2. e.wants[p] \in Wants /\ WantOK(p, e.wants[p])
    BY <2>1, WantIs DEF EngineOK, Wanted
  <2>3. e.wants[p].on = 0
    BY <2>1, <2>2, WantOnFor
  <2>4. to(p) \in {"no source", "deferred"}
    OBVIOUS
  <2> HIDE DEF to
  <2> QED
    BY <2>1, <2>2, <2>3, <2>4, StateSet, ShiftsTo DEF States, Other
<1> HIDE DEF wants, f, to
<1>3. wants = [p \in Path |-> wants[p]]
  BY DEF wants
<1>4. \A p \in Path : wants[p] = e.wants[p] \/ Shifts(p, e.wants[p], wants[p])
  BY <1>2
<1> QED
  BY <1>1, <1>3, <1>4, MovesAlike DEF f

LEMMA PauseInboundOK ==
  ASSUME NEW e, EngineOK(e)
  PROVE  LET f == PauseInbound(e)
         IN /\ EngineOK(f) /\ Alike(e, f) /\ Rest(e, f)
            /\ \A p \in Path : f.wants[p].state # "blocked"
<1> DEFINE f == PauseInbound(e)
           wants == [p \in Path |-> IF Startable(e.wants[p])
                                    THEN [e.wants[p] EXCEPT !.state = "disk full"] ELSE e.wants[p]]
<1>1. f = [e EXCEPT !.wants = wants]
  BY DEF PauseInbound
<1>2. ASSUME NEW p \in Path, Startable(e.wants[p])
      PROVE  Shifts(p, e.wants[p], wants[p]) /\ wants[p].state = "disk full"
  <2>1. /\ e.wants[p].state \in {"wanted", "blocked", "deferred", "no source"}
        /\ wants[p] = [e.wants[p] EXCEPT !.state = "disk full"]
    BY <1>2 DEF Startable
  <2>2. e.wants[p] \in Wants /\ WantOK(p, e.wants[p])
    BY <2>1, WantIs DEF EngineOK, Wanted
  <2>3. e.wants[p].on = 0
    BY <2>1, <2>2, WantOnFor
  <2>4. Moves(e.wants[p], wants[p], "disk full", 0)
    BY <2>1, <2>2, <2>3, StateSet DEF States
  <2> QED
    BY <2>1, <2>2, <2>4, ShiftsTo DEF States, Other, Moves
<1>3. \A p \in Path : ~Startable(e.wants[p]) => wants[p] = e.wants[p]
  OBVIOUS
<1> HIDE DEF wants, f
<1>4. wants = [p \in Path |-> wants[p]]
  BY DEF wants
<1>5. \A p \in Path : wants[p] = e.wants[p] \/ Shifts(p, e.wants[p], wants[p])
  BY <1>2, <1>3
<1>6. EngineOK(f) /\ Alike(e, f) /\ Rest(e, f) /\ f.wants = wants
  BY <1>1, <1>4, <1>5, MovesAlike DEF f
<1>7. \A p \in Path : wants[p].state # "blocked"
  BY <1>2, <1>3 DEF Startable
<1> QED
  BY <1>6, <1>7 DEF f

\* Only the want at p is in another state.
Puts(e, f, p, state, on) ==
    /\ EngineOK(f) /\ Moves(e.wants[p], f.wants[p], state, on) /\ SameBut(e, f)
    /\ \A q \in Path \ {p} : f.wants[q] = e.wants[q]
    /\ state # "committing" /\ e.wants[p].state # "committing" => Alike(e, f)

LEMMA InOK ==
  ASSUME NEW e, EngineOK(e), NEW p \in Path, e.wants[p] \in Wants, e.wants[p].state # "gave up",
         NEW state \in States \ {"gave up"}, NEW on \in OnFor(p, state),
         state = "blocked" => ~NeedsFetch(e.wants[p]),
         state = "committing" => e.released[p] = 0
  PROVE  Puts(e, In(e, p, state, on), p, state, on)
<1> DEFINE f == In(e, p, state, on)
           w == [e.wants[p] EXCEPT !.state = state, !.on = on]
           wants == [e.wants EXCEPT ![p] = w]
<1>1. e \in Engines /\ e.wants \in [Path -> Wants \cup {NoWant}] /\ WantOK(p, e.wants[p])
  BY DEF EngineOK, Engines
<1>2. Moves(e.wants[p], w, state, on) /\ w \in Wants
  <2>1. on \in {0} \cup Peer \cup Path
    BY OnForIs
  <2>2. Moves(e.wants[p], w, state, on)
    BY <2>1, StateSet
  <2> QED
    BY <2>2 DEF Moves
<1>3. WantOK(p, w)
  <2> HIDE DEF w
  <2> QED
    BY <1>1, <1>2, MovesOK
<1>4. f = [e EXCEPT !.wants = wants]
  BY <1>1 DEF In, Engines
<1>5. /\ wants \in [Path -> Wants \cup {NoWant}] /\ wants[p] = w
      /\ \A q \in Path \ {p} : wants[q] = e.wants[q]
  BY <1>1, <1>2
<1> HIDE DEF f, w, wants
<1>6. f \in Engines /\ f.wants = wants /\ SameBut(e, f)
  BY <1>1, <1>4, <1>5, WithWants, ZenonT(60)
<1>7. EngineOK(f)
  BY <1>1, <1>2, <1>3, <1>5, <1>6 DEF EngineOK, Moves, SameBut
<1>8. state # "committing" /\ e.wants[p].state # "committing" => Alike(e, f)
  BY <1>2, <1>5, <1>6, NoWantOK DEF Alike, Moves, SameBut
<1> QED
  BY <1>2, <1>5, <1>6, <1>7, <1>8 DEF f, Puts

-----------------------------------------------------------------------------
(* Fetches are given out.                                                     *)

\* e with the wants of S changed, none of which is at its commit.
Assigned(e, S, x) ==
    /\ EngineOK(x) /\ Alike(e, x) /\ x.jobs = e.jobs
    /\ \A q \in Path \ S : x.wants[q] = e.wants[q]

LEMMA AssignOK ==
  ASSUME NEW x, EngineOK(x), NEW p \in Path, p \in Fetchable(x)
  PROVE  LET f == Assign(x, p)
         IN /\ EngineOK(f) /\ Alike(x, f) /\ f.jobs = x.jobs
            /\ \A q \in Path \ {p} : f.wants[q] = x.wants[q]
<1> DEFINE f == Assign(x, p)
           from == BestOf(x, Free(x, p))
           ask == [path |-> p, version |-> x.wants[p].version, from |-> from]
           g == In(x, p, "fetching", from)
<1>1. /\ x.wants[p].state \in {"wanted", "deferred", "no source"}
      /\ x.wants[p] \in Wants /\ x \in Engines
  BY WantIs DEF Fetchable, EngineOK, Wanted
<1>2. CASE Cardinality(Fetching(x, Peer)) >= PerFolder \/ Free(x, p) = {}
  <2>1. f = In(x, p, "wanted", 0)
    BY <1>2 DEF Assign
  <2>2. "wanted" \in States \ {"gave up"} /\ 0 \in OnFor(p, "wanted")
    BY DEF States, OnFor
  <2>3. Puts(x, f, p, "wanted", 0)
    BY <1>1, <2>1, <2>2, InOK
  <2> QED
    BY <1>1, <2>3 DEF Puts, SameBut
<1>3. CASE ~(Cardinality(Fetching(x, Peer)) >= PerFolder \/ Free(x, p) = {})
  <2>1. Free(x, p) \subseteq Peer
    BY <1>1 DEF Free, Allowed, Candidates, Wants
  <2>2. from \in Peer
    BY <1>3, <2>1, BestIsOne
  <2>3. f = [g EXCEPT !.asks = @ \cup {ask}]
    BY <1>3 DEF Assign
  <2>4. ask \in Asks
    BY <1>1, <2>2 DEF Asks, Wants
  <2> HIDE DEF from, ask
  <2>5. "fetching" \in States \ {"gave up"} /\ from \in OnFor(p, "fetching")
    BY <2>2 DEF States, OnFor
  <2>6. /\ EngineOK(g) /\ Alike(x, g) /\ g.jobs = x.jobs
        /\ \A q \in Path \ {p} : g.wants[q] = x.wants[q]
    <3>1. Puts(x, g, p, "fetching", from)
      BY <1>1, <2>5, InOK
    <3> QED
      BY <1>1, <3>1 DEF Puts, SameBut
  <2> HIDE DEF g, f
  <2>7. g \in Engines
    BY <2>6 DEF EngineOK
  <2>8. f \in Engines /\ f.wants = g.wants /\ f.released = g.released /\ f.jobs = g.jobs
    BY <2>3, <2>4, <2>7 DEF Engines
  <2>9. EngineOK(f) /\ Alike(x, f)
    BY <2>6, <2>8 DEF EngineOK, Alike
  <2> QED
    BY <2>6, <2>8, <2>9 DEF f
<1> QED
  BY <1>2, <1>3

LEMMA AssignAllOK ==
  ASSUME NEW e, EngineOK(e)
  PROVE  LET f == AssignAll(e) IN EngineOK(f) /\ Alike(e, f) /\ f.jobs = e.jobs
<1> DEFINE todo == {p \in Fetchable(e) : Allowed(e, p) # {}}
           After(p, q) == \/ Better(e, Best(e, q), Best(e, p))
                          \/ Best(e, p) = Best(e, q) /\ q < p
           Last(S) == Least(S, After)
           Do(x, S) == Then(x, LAMBDA y : Assign(y, Last(S)))
           Step(g, S) == IF S = {} THEN e ELSE Do(g[S \ {Last(S)}], S)
           all == CHOOSE g : g = [S \in SUBSET todo |-> Step(g, S)]
<1>1. AssignAll(e) = all[todo]
  BY DEF AssignAll
<1>2. todo \subseteq Path /\ IsFiniteSet(todo)
  <2>1. todo \subseteq Path
    BY DEF Fetchable
  <2> HIDE DEF todo
  <2> QED
    BY <2>1, WantsAssumption, FS_Subset
<1>3. ASSUME NEW S \in SUBSET todo, S # {} PROVE Last(S) \in S
  <2>1. \A p \in S : Best(e, p) \in Peer
    <3>1. ASSUME NEW p \in S PROVE Best(e, p) \in Peer
      <4>1. p \in Path /\ Wanted(e.wants[p]) /\ Allowed(e, p) # {}
        BY <1>2 DEF Fetchable, Wanted
      <4>2. e.wants[p] \in Wants
        BY <4>1, WantIs DEF EngineOK
      <4>3. Allowed(e, p) \subseteq Peer
        BY <4>2 DEF Allowed, Candidates, Wants
      <4> QED
        BY <4>1, <4>3, BestIsOne DEF Best
    <3> QED
      BY <3>1
  <2> DEFINE a == [p \in S |-> 2 - Rank(e.tiers[Best(e, p)])]
             b == [p \in S |-> Cardinality(Peer) - Best(e, p)]
             c == [p \in S |-> Cardinality(Path) - p]
  <2>2. a \in [S -> Nat] /\ b \in [S -> Nat] /\ c \in [S -> Nat]
    BY <1>2, <2>1, Numbered DEF Rank
  <2>3. PICK x \in S : First(x, S, a, b, c)
    <3> HIDE DEF a, b, c
    <3> QED
      BY <1>3, <2>2, FirstExists
  <2>4. \A y \in S \ {x} : After(x, y)
    <3>1. ASSUME NEW y \in S \ {x} PROVE After(x, y)
      <4>1. /\ Best(e, x) \in Nat /\ Best(e, y) \in Nat /\ x \in Nat /\ y \in Nat /\ x # y
            /\ Cardinality(Peer) \in Nat /\ Cardinality(Path) \in Nat
        BY <1>2, <2>1, Numbered
      <4>2. \A tier : Rank(tier) \in {1, 2}
        BY DEF Rank
      <4>3. \/ a[x] < a[y]
            \/ a[x] = a[y] /\ b[x] < b[y]
            \/ a[x] = a[y] /\ b[x] = b[y] /\ c[x] <= c[y]
        BY <2>3 DEF First
      <4>4. /\ a[x] = 2 - Rank(e.tiers[Best(e, x)]) /\ a[y] = 2 - Rank(e.tiers[Best(e, y)])
            /\ b[x] = Cardinality(Peer) - Best(e, x) /\ b[y] = Cardinality(Peer) - Best(e, y)
            /\ c[x] = Cardinality(Path) - x /\ c[y] = Cardinality(Path) - y
        OBVIOUS
      <4> HIDE DEF a, b, c
      <4> QED
        BY <4>1, <4>2, <4>3, <4>4 DEF Better
    <3> QED
      BY <3>1
  <2> QED
    BY <2>4 DEF Least
<1>4. ASSUME NEW x, NEW S PROVE Do(x, S) = Assign(x, Last(S))
  BY DEF Then
<1> HIDE DEF Last, Do
<1>5. /\ Cardinality(todo) \in Nat
      /\ \A S \in SUBSET todo : Cardinality(S) \in Nat /\ Cardinality(S) <= Cardinality(todo)
  <2> HIDE DEF todo
  <2> QED
    BY <1>2, FS_Subset, FS_CardinalityType
<1>51. \A S \in SUBSET todo : IsFiniteSet(S) /\ (Cardinality(S) = 0 <=> S = {})
  <2> HIDE DEF todo
  <2> QED
    BY <1>2, FS_Subset, FS_EmptySet
<1>52. ASSUME NEW S \in SUBSET todo, S # {}
       PROVE  /\ S \ {Last(S)} \in SUBSET todo
              /\ Cardinality(S \ {Last(S)}) = Cardinality(S) - 1
  <2>1. Last(S) \in S /\ IsFiniteSet(S)
    BY <1>3, <1>51, <1>52
  <2> HIDE DEF todo
  <2> QED
    BY <2>1, FS_RemoveElement
<1> HIDE DEF todo
<1> DEFINE Upto(n, g) == \A S \in SUBSET todo : Cardinality(S) <= n => g[S] = Step(g, S)
           Exists(n) == \E g : g = [S \in SUBSET todo |-> g[S]] /\ Upto(n, g)
           none == {n \in Nat : ~Exists(n)}
<1>6. none = {}
  <2> SUFFICES ASSUME none # {} PROVE FALSE
    OBVIOUS
  <2>1. PICK m \in none : \A n \in none : m <= n
    <3>1. none \in SUBSET Nat
      OBVIOUS
    <3> HIDE DEF none
    <3> QED
      BY <3>1, LeastExists
  <2>2. m # 0
    <3> DEFINE g == [S \in SUBSET todo |-> e]
    <3>1. ASSUME NEW S \in SUBSET todo, Cardinality(S) <= 0 PROVE g[S] = Step(g, S)
      <4>1. S = {}
        BY <1>5, <1>51, <3>1
      <4> QED
        BY <4>1
    <3>2. Exists(0)
      BY <3>1
    <3> HIDE DEF Exists
    <3> QED
      BY <2>1, <3>2
  <2>3. m \in Nat /\ m - 1 \in Nat
    BY <2>1, <2>2
  <2>31. Exists(m - 1)
    <3> HIDE DEF Exists
    <3> QED
      BY <2>1, <2>2, <2>3
  <2>4. PICK g : g = [S \in SUBSET todo |-> g[S]] /\ Upto(m - 1, g)
    BY <2>31
  <2> DEFINE h == [S \in SUBSET todo |-> IF Cardinality(S) = m THEN Step(g, S) ELSE g[S]]
  <2>5. ASSUME NEW S \in SUBSET todo, Cardinality(S) <= m PROVE h[S] = Step(h, S)
    <3>1. Step(h, S) = Step(g, S)
      <4>1. CASE S = {}
        BY <4>1
      <4>2. CASE S # {}
        <5> DEFINE T == S \ {Last(S)}
        <5>1. T \in SUBSET todo /\ Cardinality(T) # m
          BY <1>5, <1>52, <2>3, <2>5, <4>2
        <5>2. h[T] = g[T]
          BY <5>1
        <5> HIDE DEF h
        <5> QED
          BY <4>2, <5>2
      <4> QED
        BY <4>1, <4>2
    <3>2. h[S] = Step(g, S)
      <4>1. Cardinality(S) # m => Cardinality(S) <= m - 1
        BY <1>5, <2>3, <2>5
      <4> QED
        BY <2>4, <4>1
    <3> QED
      BY <3>1, <3>2
  <2>6. h = [S \in SUBSET todo |-> h[S]] /\ Upto(m, h)
    BY <2>5
  <2>7. Exists(m)
    BY <2>6
  <2> HIDE DEF Exists
  <2> QED
    BY <2>1, <2>7
<1>7. \A S \in SUBSET todo : all[S] = Step(all, S)
  <2>1. Exists(Cardinality(todo))
    <3> HIDE DEF Exists
    <3> QED
      BY <1>5, <1>6
  <2>2. PICK g : g = [S \in SUBSET todo |-> g[S]] /\ Upto(Cardinality(todo), g)
    BY <2>1
  <2>3. g = [S \in SUBSET todo |-> Step(g, S)]
    BY <1>5, <2>2
  <2>4. all = [S \in SUBSET todo |-> Step(all, S)]
    BY <2>3
  <2> QED
    BY <2>4
<1> HIDE DEF all
<1> DEFINE wrong == {Cardinality(S) : S \in {T \in SUBSET todo : ~Assigned(e, T, all[T])}}
<1>8. wrong = {}
  <2> SUFFICES ASSUME wrong # {} PROVE FALSE
    OBVIOUS
  <2>1. wrong \in SUBSET Nat
    BY <1>5
  <2>2. PICK m \in wrong : \A n \in wrong : m <= n
    <3> HIDE DEF wrong
    <3> QED
      BY <2>1, LeastExists
  <2>3. PICK S \in SUBSET todo : Cardinality(S) = m /\ ~Assigned(e, S, all[S])
    BY <2>2
  <2>4. S # {}
    <3>1. Assigned(e, {}, e)
      BY DEF Assigned, Alike
    <3> QED
      BY <1>7, <2>3, <3>1
  <2> DEFINE p == Last(S)
             x == all[S \ {p}]
  <2>5. p \in S /\ p \in Path /\ S \ {p} \in SUBSET todo /\ Cardinality(S \ {p}) < m
    BY <1>2, <1>3, <1>5, <1>52, <2>3, <2>4
  <2>6. Assigned(e, S \ {p}, x)
    <3>1. Cardinality(S \ {p}) \in Nat /\ m \in Nat
      BY <1>5, <2>1, <2>5
    <3> HIDE DEF p
    <3>2. ~Assigned(e, S \ {p}, x) => Cardinality(S \ {p}) \in wrong
      BY <2>5
    <3> QED
      BY <2>2, <2>5, <3>1, <3>2
  <2>7. all[S] = Assign(x, p)
    BY <1>4, <1>7, <2>4
  <2> HIDE DEF p, x
  <2>8. p \in Fetchable(x)
    <3>1. p \in Fetchable(e)
      BY <2>5 DEF todo
    <3>2. x.wants[p] = e.wants[p]
      BY <2>5, <2>6 DEF Assigned
    <3> QED
      BY <2>5, <3>1, <3>2 DEF Fetchable
  <2>9. /\ EngineOK(all[S]) /\ Alike(x, all[S]) /\ all[S].jobs = x.jobs
        /\ \A q \in Path \ {p} : all[S].wants[q] = x.wants[q]
    BY <2>5, <2>6, <2>7, <2>8, AssignOK DEF Assigned
  <2>10. Assigned(e, S, all[S])
    BY <2>5, <2>6, <2>9, AlikeChains DEF Assigned
  <2> QED
    BY <2>3, <2>10
<1>9. Assigned(e, todo, all[todo])
  BY <1>8
<1> QED
  BY <1>1, <1>9 DEF Assigned

-----------------------------------------------------------------------------
(* Commits are started.                                                       *)

Ready(e) == {p \in Path : Startable(e.wants[p]) /\ ~NeedsFetch(e.wants[p])}

\* The paths of S that are ready have been handled: some were adopted, some
\* wait, and the others are committed.
Handled(e, S, x) ==
    /\ EngineOK(x) /\ x.released = e.released /\ x.asks = e.asks
    /\ \A q \in Path \ S : x.wants[q] = e.wants[q]
    /\ \A q \in S : Wanted(x.wants[q]) =>
          /\ x.wants[q].op = e.wants[q].op /\ x.wants[q].version = e.wants[q].version
          /\ Wanted(e.wants[q])

\* The commits that were started are those of S.
Started(S, x) ==
    /\ \A i, j \in 1..Len(x.jobs) : x.jobs[i].path = x.jobs[j].path => i = j
    /\ \A i \in 1..Len(x.jobs) :
          LET w == x.wants[x.jobs[i].path]
          IN /\ x.jobs[i].path \in S /\ w.state = "committing"
             /\ x.jobs[i].version = w.version /\ x.jobs[i].op = w.op
    /\ \A q \in S : x.wants[q].state = "committing" =>
          \E i \in 1..Len(x.jobs) : x.jobs[i].path = q

\* Nothing holds back what is committed, and nothing that may be long holds
\* back what is blocked.
Gated(S, x) ==
    \A q \in S, r \in Path : Gates(x, q, r) =>
        /\ x.wants[q].state # "committing"
        /\ x.wants[q].state = "blocked" => InFlight(x.wants[r])

\* Wants that end hold nothing back.
LEMMA GatesShrink ==
  ASSUME NEW x, NEW f, NEW q, NEW r,
         \A s \in {q, r} : Wanted(f.wants[s]) => /\ Wanted(x.wants[s])
                                                 /\ f.wants[s].op = x.wants[s].op,
         Gates(f, q, r)
  PROVE  Gates(x, q, r)
  BY DEF Gates, IsDelete

\* What is handled later does not hold back what was handled before.
LEMMA LaterHoldsNot ==
  ASSUME NEW e, TrashEmpty(e), NEW p \in Ready(e), NEW q \in Path, Gates(e, q, p),
         IF IsDelete(e.wants[p]) THEN IsDelete(e.wants[q]) => p < q
                                 ELSE ~IsDelete(e.wants[q]) /\ q < p
  PROVE  FALSE
<1>1. p \in Path /\ Startable(e.wants[p]) /\ Wanted(e.wants[p]) /\ Wanted(e.wants[q])
  BY DEF Ready, Gates
<1>2. CASE IsDelete(e.wants[q])
  <2>1. q \in Above[p] /\ IsDelete(e.wants[p])
    BY <1>2 DEF Gates
  <2>2. q < p /\ p < q
    BY <1>1, <1>2, <2>1, Numbered
  <2> QED
    BY <1>1, <2>2, Numbered
<1>3. CASE ~IsDelete(e.wants[q])
  <2>1. p \in Above[q] /\ (~IsDelete(e.wants[p]) \/ e.wants[p].op = "trash")
    BY <1>3 DEF Gates
  <2>2. CASE IsDelete(e.wants[p])
    <3>1. IsTrash(e.wants[p])
      BY <1>1, <2>1, <2>2 DEF IsTrash
    <3>2. e.wants[p].state = "committing"
      BY <1>1, <1>3, <2>1, <3>1 DEF TrashEmpty
    <3> QED
      BY <1>1, <3>2 DEF Startable
  <2>3. CASE ~IsDelete(e.wants[p])
    <3>1. p < q /\ q < p
      BY <2>1, <2>3, Numbered
    <3> QED
      BY <1>1, <3>1, Numbered
  <2> QED
    BY <2>2, <2>3
<1> QED
  BY <1>2, <1>3

\* Only the want at p is at its end.
Ends(e, f, p) ==
    /\ EngineOK(f) /\ f.wants[p] = NoWant /\ \A q \in Path \ {p} : f.wants[q] = e.wants[q]
    /\ f.released = e.released /\ f.asks = e.asks /\ f.jobs = e.jobs

LEMMA WrittenOK ==
  ASSUME NEW e, EngineOK(e), NEW p \in Path, NEW live \in BOOLEAN
  PROVE  Ends(e, Written(e, p, live), p)
<1> DEFINE f == Written(e, p, live)
           wants == [e.wants EXCEPT ![p] = NoWant]
           lives == IF live THEN e.live \cup {p} ELSE e.live \ {p}
<1>1. e \in Engines /\ e.wants \in [Path -> Wants \cup {NoWant}]
  BY DEF EngineOK, Engines
<1>2. /\ wants \in [Path -> Wants \cup {NoWant}] /\ wants[p] = NoWant
      /\ \A q \in Path \ {p} : wants[q] = e.wants[q]
  BY <1>1
<1>3. lives \subseteq Path
  BY <1>1 DEF Engines
<1>4. f = [e EXCEPT !.wants = wants, !.live = lives, !.window = TRUE]
  BY <1>1 DEF Written, Engines
<1> HIDE DEF wants, lives, f
<1>5. /\ f \in Engines /\ f.wants = wants /\ f.released = e.released
      /\ f.asks = e.asks /\ f.jobs = e.jobs
  BY <1>1, <1>2, <1>3, <1>4 DEF Engines
<1>6. EngineOK(f)
  BY <1>2, <1>5, NoWantOK DEF EngineOK
<1> QED
  BY <1>2, <1>5, <1>6 DEF f, Ends

LEMMA CommitOK ==
  ASSUME NEW e, TrashEmpty(e), NEW S \in SUBSET Path, NEW p \in Ready(e), p \notin S,
         NEW x, Handled(e, S, x), Started(S, x), Gated(S, x),
         \A q \in S : IF IsDelete(e.wants[p]) THEN IsDelete(e.wants[q]) => p < q
                                              ELSE ~IsDelete(e.wants[q]) /\ q < p
  PROVE  LET f == Commit(x, p)
         IN /\ Handled(e, S \cup {p}, f) /\ Started(S \cup {p}, f)
            /\ Gated(S \cup {p}, f)
<1> DEFINE f == Commit(x, p)
           T == S \cup {p}
           job == [path |-> p, version |-> x.wants[p].version, op |-> x.wants[p].op]
           g == In(x, p, "committing", 0)
<1>1. p \in Path /\ EngineOK(x) /\ x.wants[p] = e.wants[p]
  BY DEF Ready, Handled
<1>2. /\ Startable(x.wants[p]) /\ ~NeedsFetch(x.wants[p])
      /\ x.wants[p] \in Wants /\ Wanted(x.wants[p]) /\ x \in Engines
      /\ x.wants[p].state \in {"wanted", "blocked", "deferred", "no source"}
  BY <1>1, WantIs DEF Ready, Startable, EngineOK, Wanted
<1>3. \A q \in S : ~Gates(x, q, p)
  <2>1. ASSUME NEW q \in S, Gates(x, q, p) PROVE FALSE
    <3>1. Gates(e, q, p)
      BY <1>1, <2>1, GatesShrink DEF Handled
    <3> QED
      BY <3>1, LaterHoldsNot
  <2> QED
    BY <2>1
<1>4. ASSUME NEW y, EngineOK(y), y.released = x.released, y.asks = x.asks,
             \A q \in Path \ {p} : y.wants[q] = x.wants[q],
             Wanted(y.wants[p]) => /\ y.wants[p].op = x.wants[p].op
                                   /\ y.wants[p].version = x.wants[p].version,
             y.wants[p].state = "committing" => \A r \in Path : ~Gates(x, p, r),
             y.wants[p].state = "blocked" => Holders(x, p) = {}
      PROVE  Handled(e, T, y) /\ Gated(T, y)
  <2>1. Handled(e, T, y)
    BY <1>1, <1>2, <1>4 DEF Handled
  <2>2. ASSUME NEW q \in T, NEW r \in Path, Gates(y, q, r)
        PROVE  /\ y.wants[q].state # "committing"
               /\ y.wants[q].state = "blocked" => InFlight(y.wants[r])
    <3>1. Gates(x, q, r)
      <4>1. \A s \in {q, r} : Wanted(y.wants[s]) => /\ Wanted(x.wants[s])
                                                    /\ y.wants[s].op = x.wants[s].op
        BY <1>2, <1>4
      <4> QED
        BY <2>2, <4>1, GatesShrink
    <3>2. CASE q = p
      <4>1. r # p
        BY <1>1, <3>1, <3>2, Numbered DEF Gates
      <4>2. y.wants[r] = x.wants[r]
        BY <1>4, <4>1
      <4> QED
        BY <1>4, <3>1, <3>2, <4>2 DEF Holders
    <3>3. CASE q # p
      <4>1. q \in S /\ y.wants[q] = x.wants[q]
        BY <1>4, <3>3
      <4>2. r # p
        BY <1>3, <3>1, <4>1
      <4>3. y.wants[r] = x.wants[r]
        BY <1>4, <4>2
      <4> QED
        BY <3>1, <4>1, <4>3 DEF Gated
    <3> QED
      BY <3>2, <3>3
  <2> QED
    BY <2>1, <2>2 DEF Gated
<1>5. ASSUME NEW y, y.jobs = x.jobs, \A q \in Path \ {p} : y.wants[q] = x.wants[q],
             y.wants[p].state # "committing"
      PROVE  Started(T, y)
  <2>1. \A i \in 1..Len(x.jobs) : x.jobs[i].path \in S /\ x.jobs[i].path \in Path \ {p}
    BY DEF Started
  <2>2. \A q \in S : q \in Path \ {p}
    OBVIOUS
  <2> QED
    BY <1>5, <2>1, <2>2 DEF Started
<1>6. CASE Holders(x, p) # {}
  <2> DEFINE on == Nearest(x, p)
  <2>1. f = In(x, p, "waiting for", on)
    BY <1>6 DEF Commit
  <2>2. on \in Path /\ Gates(x, p, on)
    BY <1>6, NearestHolds DEF Holders
  <2> HIDE DEF on
  <2>3. on # p
    BY <1>1, <2>2, Numbered DEF Gates
  <2>4. "waiting for" \in States \ {"gave up"} /\ on \in OnFor(p, "waiting for")
    BY <2>2, <2>3 DEF States, OnFor
  <2>5. Puts(x, f, p, "waiting for", on)
    BY <1>1, <1>2, <2>1, <2>4, InOK
  <2> HIDE DEF f
  <2> QED
    BY <1>4, <1>5, <2>5 DEF Puts, SameBut, Moves, f
<1>7. CASE Holders(x, p) = {} /\ Held(x, p)
  <2>1. f = In(x, p, "blocked", 0)
    BY <1>7 DEF Commit
  <2>2. "blocked" \in States \ {"gave up"} /\ 0 \in OnFor(p, "blocked")
    BY DEF States, OnFor
  <2>3. Puts(x, f, p, "blocked", 0)
    BY <1>1, <1>2, <2>1, <2>2, InOK
  <2> HIDE DEF f
  <2> QED
    BY <1>4, <1>5, <1>7, <2>3 DEF Puts, SameBut, Moves, f
<1>8. CASE Holders(x, p) = {} /\ ~Held(x, p) /\ x.wants[p].op = "adopt"
  <2>1. f = Written(x, p, TRUE)
    BY <1>8 DEF Commit
  <2>2. Ends(x, f, p)
    BY <1>1, <2>1, WrittenOK
  <2> HIDE DEF f
  <2> QED
    BY <1>4, <1>5, <2>2, NoWantOK DEF f, Ends
<1>9. CASE Holders(x, p) = {} /\ ~Held(x, p) /\ x.wants[p].op # "adopt"
  <2>1. f = [g EXCEPT !.jobs = Append(@, job)]
    BY <1>9 DEF Commit
  <2>2. "committing" \in States \ {"gave up"} /\ 0 \in OnFor(p, "committing")
    BY DEF States, OnFor
  <2>3. x.released[p] = 0 /\ \A r \in Path : ~Gates(x, p, r)
    BY <1>1, <1>9 DEF Held
  <2>4. Puts(x, g, p, "committing", 0)
    BY <1>1, <1>2, <2>2, <2>3, InOK
  <2> HIDE DEF g, f
  <2>5. g \in Engines /\ EngineOK(g) /\ g.jobs = x.jobs /\ x.jobs \in Seq(Jobs)
    BY <1>2, <2>4 DEF Puts, SameBut, EngineOK, Engines
  <2>6. job \in Jobs
    BY <1>1, <1>2 DEF Jobs, Wants
  <2> HIDE DEF job
  <2>7. Append(x.jobs, job) \in Seq(Jobs)
    BY <2>5, <2>6
  <2>8. /\ f \in Engines /\ f.wants = g.wants /\ f.released = g.released /\ f.asks = g.asks
        /\ f.jobs = Append(x.jobs, job)
    BY <2>1, <2>5, <2>7 DEF Engines
  <2>9. EngineOK(f)
    BY <2>5, <2>8 DEF EngineOK
  <2>10. /\ f.wants[p].state = "committing" /\ f.wants[p].op = x.wants[p].op
         /\ f.wants[p].version = x.wants[p].version
         /\ \A q \in Path \ {p} : f.wants[q] = x.wants[q]
         /\ f.released = x.released /\ f.asks = x.asks
    BY <2>4, <2>8 DEF Puts, SameBut, Moves
  <2>11. Handled(e, T, f) /\ Gated(T, f)
    BY <1>4, <2>3, <2>9, <2>10
  <2>12. Started(T, f)
    <3> DEFINE n == Len(x.jobs)
    <3>1. /\ n \in Nat /\ Len(f.jobs) = n + 1 /\ f.jobs[n + 1] = job
          /\ \A i \in 1..n : f.jobs[i] = x.jobs[i]
      BY <2>5, <2>6, <2>8
    <3>2. /\ job.path = p /\ job.version = x.wants[p].version /\ job.op = x.wants[p].op
      BY DEF job
    <3>3. \A i \in 1..n : x.jobs[i].path \in S /\ x.jobs[i].path \in Path \ {p}
      BY DEF Started
    <3> HIDE DEF n
    <3>4. \A i \in 1..(n + 1) : i \in 1..n \/ i = n + 1
      BY <3>1
    <3>5. ASSUME NEW i \in 1..(n + 1), NEW j \in 1..(n + 1), f.jobs[i].path = f.jobs[j].path
          PROVE  i = j
      <4>1. i \in 1..n /\ j \in 1..n => i = j
        BY <3>1, <3>5 DEF Started, n
      <4> QED
        BY <3>1, <3>2, <3>3, <3>4, <3>5, <4>1
    <3>6. ASSUME NEW i \in 1..(n + 1)
          PROVE  LET w == f.wants[f.jobs[i].path]
                 IN /\ f.jobs[i].path \in T /\ w.state = "committing"
                    /\ f.jobs[i].version = w.version /\ f.jobs[i].op = w.op
      <4>1. CASE i \in 1..n
        <5>1. f.jobs[i] = x.jobs[i] /\ f.wants[f.jobs[i].path] = x.wants[x.jobs[i].path]
          BY <2>10, <3>1, <3>3, <4>1
        <5> QED
          BY <4>1, <5>1 DEF Started, n
      <4>2. CASE i = n + 1
        BY <2>10, <3>1, <3>2, <4>2
      <4> QED
        BY <3>4, <4>1, <4>2
    <3>7. ASSUME NEW q \in T, f.wants[q].state = "committing"
          PROVE  \E i \in 1..(n + 1) : f.jobs[i].path = q
      <4>1. CASE q = p
        <5>1. n + 1 \in 1..(n + 1)
          BY <3>1
        <5> QED
          BY <3>1, <3>2, <4>1, <5>1
      <4>2. CASE q # p
        <5>1. q \in S /\ x.wants[q].state = "committing"
          BY <2>10, <3>7, <4>2
        <5>2. PICK i \in 1..n : x.jobs[i].path = q
          BY <5>1 DEF Started, n
        <5>3. i \in 1..(n + 1) /\ f.jobs[i].path = q
          BY <3>1, <5>2
        <5> QED
          BY <5>3
      <4> QED
        BY <4>1, <4>2
    <3> QED
      BY <3>1, <3>5, <3>6, <3>7 DEF Started
  <2> QED
    BY <2>11, <2>12 DEF f
<1> QED
  BY <1>6, <1>7, <1>8, <1>9

LEMMA CommitAllOK ==
  ASSUME NEW e, EngineOK(e), TrashEmpty(e), e.jobs = <<>>
  PROVE  LET f == CommitAll(e)
         IN Handled(e, Ready(e), f) /\ Started(Ready(e), f) /\ Gated(Ready(e), f)
<1> DEFINE todo == Ready(e)
           After(p, q) == IF IsDelete(e.wants[p]) THEN IsDelete(e.wants[q]) => p < q
                                                  ELSE ~IsDelete(e.wants[q]) /\ q < p
           Last(S) == Least(S, After)
           Do(x, S) == Then(x, LAMBDA y : Commit(y, Last(S)))
           Step(g, S) == IF S = {} THEN e ELSE Do(g[S \ {Last(S)}], S)
           all == CHOOSE g : g = [S \in SUBSET todo |-> Step(g, S)]
<1>1. CommitAll(e) = all[todo]
  BY DEF CommitAll, Ready
<1>2. todo \subseteq Path /\ IsFiniteSet(todo)
  BY WantsAssumption, FS_Subset DEF Ready
<1>3. ASSUME NEW S \in SUBSET todo, S # {}
      PROVE  Last(S) \in S /\ \A q \in S \ {Last(S)} : After(Last(S), q)
  <2> DEFINE n == Cardinality(Path)
             a == [p \in S |-> IF IsDelete(e.wants[p]) THEN 0 ELSE 1]
             b == [p \in S |-> IF IsDelete(e.wants[p]) THEN p ELSE n - p]
  <2>1. a \in [S -> Nat] /\ b \in [S -> Nat]
    BY <1>2, Numbered
  <2>2. PICK x \in S : First(x, S, a, b, b)
    <3> HIDE DEF a, b
    <3> QED
      BY <1>3, <2>1, FirstExists
  <2>3. ASSUME NEW y \in S \ {x} PROVE After(x, y)
    <3>1. x \in Nat /\ y \in Nat /\ x # y /\ n \in Nat
      BY <1>2, Numbered
    <3>2. \/ a[x] < a[y]
          \/ a[x] = a[y] /\ b[x] < b[y]
          \/ a[x] = a[y] /\ b[x] = b[y] /\ b[x] <= b[y]
      BY <2>2 DEF First
    <3>3. /\ a[x] = IF IsDelete(e.wants[x]) THEN 0 ELSE 1
          /\ a[y] = IF IsDelete(e.wants[y]) THEN 0 ELSE 1
          /\ b[x] = IF IsDelete(e.wants[x]) THEN x ELSE n - x
          /\ b[y] = IF IsDelete(e.wants[y]) THEN y ELSE n - y
      OBVIOUS
    <3> HIDE DEF a, b, n
    <3> QED
      BY <3>1, <3>2, <3>3
  <2> QED
    BY <2>3 DEF Least
<1>4. ASSUME NEW x, NEW S PROVE Do(x, S) = Commit(x, Last(S))
  BY DEF Then
<1> HIDE DEF Last, Do
<1>5. /\ Cardinality(todo) \in Nat
      /\ \A S \in SUBSET todo : Cardinality(S) \in Nat /\ Cardinality(S) <= Cardinality(todo)
  <2> HIDE DEF todo
  <2> QED
    BY <1>2, FS_Subset, FS_CardinalityType
<1>51. \A S \in SUBSET todo : IsFiniteSet(S) /\ (Cardinality(S) = 0 <=> S = {})
  <2> HIDE DEF todo
  <2> QED
    BY <1>2, FS_Subset, FS_EmptySet
<1>52. ASSUME NEW S \in SUBSET todo, S # {}
       PROVE  /\ S \ {Last(S)} \in SUBSET todo
              /\ Cardinality(S \ {Last(S)}) = Cardinality(S) - 1
  <2>1. Last(S) \in S /\ IsFiniteSet(S)
    BY <1>3, <1>51, <1>52
  <2> HIDE DEF todo
  <2> QED
    BY <2>1, FS_RemoveElement
<1> HIDE DEF todo
<1> DEFINE Upto(n, g) == \A S \in SUBSET todo : Cardinality(S) <= n => g[S] = Step(g, S)
           Exists(n) == \E g : g = [S \in SUBSET todo |-> g[S]] /\ Upto(n, g)
           none == {n \in Nat : ~Exists(n)}
<1>6. none = {}
  <2> SUFFICES ASSUME none # {} PROVE FALSE
    OBVIOUS
  <2>1. PICK m \in none : \A n \in none : m <= n
    <3>1. none \in SUBSET Nat
      OBVIOUS
    <3> HIDE DEF none
    <3> QED
      BY <3>1, LeastExists
  <2>2. m # 0
    <3> DEFINE g == [S \in SUBSET todo |-> e]
    <3>1. ASSUME NEW S \in SUBSET todo, Cardinality(S) <= 0 PROVE g[S] = Step(g, S)
      <4>1. S = {}
        BY <1>5, <1>51, <3>1
      <4> QED
        BY <4>1
    <3>2. Exists(0)
      BY <3>1
    <3> HIDE DEF Exists
    <3> QED
      BY <2>1, <3>2
  <2>3. m \in Nat /\ m - 1 \in Nat
    BY <2>1, <2>2
  <2>31. Exists(m - 1)
    <3> HIDE DEF Exists
    <3> QED
      BY <2>1, <2>2, <2>3
  <2>4. PICK g : g = [S \in SUBSET todo |-> g[S]] /\ Upto(m - 1, g)
    BY <2>31
  <2> DEFINE h == [S \in SUBSET todo |-> IF Cardinality(S) = m THEN Step(g, S) ELSE g[S]]
  <2>5. ASSUME NEW S \in SUBSET todo, Cardinality(S) <= m PROVE h[S] = Step(h, S)
    <3>1. Step(h, S) = Step(g, S)
      <4>1. CASE S = {}
        BY <4>1
      <4>2. CASE S # {}
        <5> DEFINE T == S \ {Last(S)}
        <5>1. T \in SUBSET todo /\ Cardinality(T) # m
          BY <1>5, <1>52, <2>3, <2>5, <4>2
        <5>2. h[T] = g[T]
          BY <5>1
        <5> HIDE DEF h
        <5> QED
          BY <4>2, <5>2
      <4> QED
        BY <4>1, <4>2
    <3>2. h[S] = Step(g, S)
      <4>1. Cardinality(S) # m => Cardinality(S) <= m - 1
        BY <1>5, <2>3, <2>5
      <4> QED
        BY <2>4, <4>1
    <3> QED
      BY <3>1, <3>2
  <2>6. h = [S \in SUBSET todo |-> h[S]] /\ Upto(m, h)
    BY <2>5
  <2>7. Exists(m)
    BY <2>6
  <2> HIDE DEF Exists
  <2> QED
    BY <2>1, <2>7
<1>7. \A S \in SUBSET todo : all[S] = Step(all, S)
  <2>1. Exists(Cardinality(todo))
    <3> HIDE DEF Exists
    <3> QED
      BY <1>5, <1>6
  <2>2. PICK g : g = [S \in SUBSET todo |-> g[S]] /\ Upto(Cardinality(todo), g)
    BY <2>1
  <2>3. g = [S \in SUBSET todo |-> Step(g, S)]
    BY <1>5, <2>2
  <2>4. all = [S \in SUBSET todo |-> Step(all, S)]
    BY <2>3
  <2> QED
    BY <2>4
<1> HIDE DEF all
<1> DEFINE good(S) == Handled(e, S, all[S]) /\ Started(S, all[S]) /\ Gated(S, all[S])
           wrong == {Cardinality(S) : S \in {T \in SUBSET todo : ~good(T)}}
<1>8. wrong = {}
  <2> SUFFICES ASSUME wrong # {} PROVE FALSE
    OBVIOUS
  <2>1. wrong \in SUBSET Nat
    BY <1>5
  <2>2. PICK m \in wrong : \A n \in wrong : m <= n
    <3> HIDE DEF wrong
    <3> QED
      BY <2>1, LeastExists
  <2>3. PICK S \in SUBSET todo : Cardinality(S) = m /\ ~good(S)
    BY <2>2
  <2>4. S # {}
    <3>1. Handled(e, {}, e)
      BY DEF Handled
    <3>2. 1..Len(e.jobs) = {}
      OBVIOUS
    <3>3. Started({}, e)
      <4>1. \A i, j \in 1..Len(e.jobs) : e.jobs[i].path = e.jobs[j].path => i = j
        BY <3>2
      <4> QED
        BY <3>2, <4>1 DEF Started
    <3>4. Gated({}, e)
      BY DEF Gated
    <3> QED
      BY <1>7, <2>3, <3>1, <3>3, <3>4
  <2> DEFINE p == Last(S)
             R == S \ {p}
             x == all[R]
  <2>5. /\ p \in S /\ p \in todo /\ R \in SUBSET todo /\ R \subseteq Path /\ Cardinality(R) < m
        /\ p \notin R /\ S = R \cup {p}
        /\ \A q \in R : After(p, q)
    BY <1>2, <1>3, <1>5, <1>52, <2>3, <2>4
  <2>6. good(R)
    <3>1. Cardinality(R) \in Nat /\ m \in Nat
      BY <1>5, <2>1, <2>5
    <3> HIDE DEF R, good
    <3>2. ~good(R) => Cardinality(R) \in wrong
      BY <2>5
    <3> QED
      BY <2>2, <2>5, <3>1, <3>2
  <2>7. all[S] = Commit(x, p)
    BY <1>4, <1>7, <2>4
  <2> HIDE DEF p, x, R
  <2>8. good(R \cup {p})
    BY <2>5, <2>6, <2>7, CommitOK DEF todo, x
  <2> QED
    BY <2>3, <2>5, <2>8
<1>9. good(todo)
  BY <1>8
<1> QED
  BY <1>1, <1>9 DEF todo

-----------------------------------------------------------------------------
(* The dispatch as a whole.                                                   *)

LEMMA MatchesStarted ==
  ASSUME NEW e, EngineOK(e), NEW cs, Matches(e, cs), NEW d,
         Handled(e, Ready(e), d), Started(Ready(e), d), Gated(Ready(e), d)
  PROVE  Matches(d, cs \o d.jobs)
<1> DEFINE n == Len(cs)
           m == Len(d.jobs)
           all == cs \o d.jobs
<1>1. cs \in Seq(Jobs) /\ d.jobs \in Seq(Jobs) /\ d \in Engines /\ d.released = e.released
  BY DEF Matches, Handled, EngineOK, Engines
<1>2. /\ all \in Seq(Jobs) /\ Len(all) = n + m /\ n \in Nat /\ m \in Nat
      /\ \A i \in 1..n : all[i] = cs[i] /\ i \in 1..(n + m)
      /\ \A i \in 1..m : all[n + i] = d.jobs[i] /\ n + i \in 1..(n + m)
  BY <1>1
<1>3. ASSUME NEW i \in 1..(n + m) PROVE i \in 1..n \/ \E j \in 1..m : i = n + j
  <2>1. i \notin 1..n => i - n \in 1..m /\ i = n + (i - n)
    BY <1>2
  <2> QED
    BY <2>1
<1>4. ASSUME NEW i \in 1..n
      PROVE  /\ cs[i].path \in Path /\ cs[i].version \in 1..MaxVersion
             /\ \/ e.wants[cs[i].path].state = "committing"
                \/ e.released[cs[i].path] # 0
  <2>1. cs[i] \in Jobs
    BY <1>1
  <2>2. cs[i].path \in Path /\ cs[i].version \in 1..MaxVersion
    BY <2>1 DEF Jobs
  <2> QED
    BY <2>2 DEF Matches
<1>5. ASSUME NEW q \in Ready(e)
      PROVE  /\ q \in Path /\ e.wants[q].state # "committing" /\ Wanted(e.wants[q])
             /\ d.wants[q].state = "committing" => e.released[q] = 0
  BY <1>1 DEF Ready, Startable, Wanted, Handled, EngineOK
<1>6. ASSUME NEW i \in 1..m
      PROVE  LET w == d.wants[d.jobs[i].path]
             IN /\ d.jobs[i].path \in Ready(e) /\ w.state = "committing"
                /\ d.jobs[i].version = w.version /\ d.jobs[i].op = w.op
  BY DEF Started
<1>7. ASSUME NEW i \in 1..n, NEW j \in 1..m PROVE cs[i].path # d.jobs[j].path
  BY <1>4, <1>5, <1>6
<1>8. \A q \in Path \ Ready(e) : d.wants[q] = e.wants[q]
  BY DEF Handled
<1>9. \A q \in Path : e.wants[q].state = "committing" => d.wants[q] = e.wants[q]
  BY <1>5, <1>8
<1>10. \A q \in Path : IsTrash(d.wants[q]) => IsTrash(e.wants[q])
  BY <1>8 DEF Handled, IsTrash
<1> HIDE DEF n, m, all
<1>11. ASSUME NEW i \in 1..(n + m), NEW j \in 1..(n + m), all[i].path = all[j].path
       PROVE  i = j
  <2>1. CASE i \in 1..n /\ j \in 1..n
    BY <1>2, <1>11, <2>1 DEF Matches, n
  <2>2. CASE i \in 1..n /\ j \notin 1..n
    <3>1. PICK l \in 1..m : j = n + l
      BY <1>3, <2>2
    <3>2. cs[i].path = d.jobs[l].path
      BY <1>2, <1>11, <2>2, <3>1
    <3> QED
      BY <1>7, <2>2, <3>2
  <2>3. CASE i \notin 1..n /\ j \in 1..n
    <3>1. PICK l \in 1..m : i = n + l
      BY <1>3, <2>3
    <3>2. cs[j].path = d.jobs[l].path
      BY <1>2, <1>11, <2>3, <3>1
    <3> QED
      BY <1>7, <2>3, <3>2
  <2>4. CASE i \notin 1..n /\ j \notin 1..n
    <3>1. PICK k \in 1..m, l \in 1..m : i = n + k /\ j = n + l
      BY <1>3, <2>4
    <3>2. d.jobs[k].path = d.jobs[l].path
      BY <1>2, <1>11, <3>1
    <3>3. k = l
      BY <3>2 DEF Started, m
    <3> QED
      BY <3>1, <3>3
  <2> QED
    BY <2>1, <2>2, <2>3, <2>4
<1>12. ASSUME NEW p \in Path, NEW v \in 1..MaxVersion
       PROVE  (\E i \in 1..(n + m) : all[i].path = p /\ all[i].version = v)
              <=> \/ d.wants[p].state = "committing" /\ d.wants[p].version = v
                  \/ d.released[p] = v
  <2>1. (\E i \in 1..n : cs[i].path = p /\ cs[i].version = v)
          <=> \/ e.wants[p].state = "committing" /\ e.wants[p].version = v
              \/ e.released[p] = v
    BY DEF Matches, n
  <2>2. (\E i \in 1..m : d.jobs[i].path = p /\ d.jobs[i].version = v)
          <=> /\ p \in Ready(e)
              /\ d.wants[p].state = "committing" /\ d.wants[p].version = v
    <3>1. ASSUME p \in Ready(e), d.wants[p].state = "committing", d.wants[p].version = v
          PROVE  \E i \in 1..m : d.jobs[i].path = p /\ d.jobs[i].version = v
      <4>1. PICK i \in 1..m : d.jobs[i].path = p
        BY <3>1 DEF Started, m
      <4> QED
        BY <1>6, <3>1, <4>1
    <3> QED
      BY <1>6, <3>1
  <2>3. (\E i \in 1..(n + m) : all[i].path = p /\ all[i].version = v)
          <=> \/ \E i \in 1..n : cs[i].path = p /\ cs[i].version = v
              \/ \E i \in 1..m : d.jobs[i].path = p /\ d.jobs[i].version = v
    BY <1>2, <1>3
  <2>4. CASE p \in Ready(e)
    BY <1>1, <1>5, <2>1, <2>2, <2>3, <2>4
  <2>5. CASE p \notin Ready(e)
    BY <1>1, <1>8, <2>1, <2>2, <2>3, <2>5
  <2> QED
    BY <2>4, <2>5
<1>13. ASSUME NEW i \in 1..(n + m), all[i].op = "trash"
       PROVE  LET w == d.wants[all[i].path] IN IsTrash(w) /\ w.state = "committing"
  <2>1. CASE i \in 1..n
    <3>1. LET w == e.wants[cs[i].path] IN IsTrash(w) /\ w.state = "committing"
      BY <1>2, <1>13, <2>1 DEF Matches, n
    <3> QED
      BY <1>2, <1>4, <1>9, <2>1, <3>1
  <2>2. CASE i \notin 1..n
    <3>1. PICK j \in 1..m : i = n + j
      BY <1>3, <2>2
    <3> QED
      BY <1>2, <1>6, <1>13, <3>1 DEF IsTrash, Wanted
  <2> QED
    BY <2>1, <2>2
<1>14. ASSUME NEW i \in 1..(n + m), ~IsDelete(all[i]), NEW r \in Above[all[i].path]
       PROVE  ~IsTrash(d.wants[r])
  <2>1. CASE i \in 1..n
    <3>1. ~IsTrash(e.wants[r])
      BY <1>2, <1>14, <2>1 DEF Matches, n
    <3>2. r \in Path
      BY <1>2, <1>4, <1>14, <2>1, Numbered
    <3> QED
      BY <1>10, <3>1, <3>2
  <2>2. CASE i \notin 1..n
    <3>1. PICK j \in 1..m : i = n + j
      BY <1>3, <2>2
    <3> DEFINE p == d.jobs[j].path
    <3>2. /\ p \in Ready(e) /\ p \in Path /\ d.wants[p].state = "committing"
          /\ ~IsDelete(d.wants[p]) /\ r \in Above[p]
      BY <1>2, <1>5, <1>6, <1>14, <3>1 DEF IsDelete
    <3> HIDE DEF p
    <3>3. r \in Path
      BY <3>2, Numbered
    <3>4. IsTrash(d.wants[r]) => Gates(d, p, r)
      BY <3>2, <3>3 DEF Gates, IsTrash, Wanted
    <3> QED
      BY <3>2, <3>3, <3>4 DEF Gated
  <2> QED
    BY <2>1, <2>2
<1>15. all \in Seq(Jobs) /\ Len(all) = n + m
  BY <1>2
<1>16. Matches(d, all)
  BY <1>11, <1>12, <1>13, <1>14, <1>15 DEF Matches
<1> QED
  BY <1>16 DEF all

\* While the dispatch is done the engine is as it should be at the end of an
\* event, and its commits are those it had and those it asks for.
Dispatches(e, cs, d) ==
    /\ EngineOK(d) /\ Matches(d, cs \o d.jobs)
    /\ \A p, q \in Path : d.wants[p].state = "blocked" /\ Gates(d, p, q) => InFlight(d.wants[q])

LEMMA DispatchedOK ==
  ASSUME NEW e, EngineOK(e), e.jobs = <<>>, NEW cs, Matches(e, cs)
  PROVE  Dispatches(e, cs, Dispatched(e))
<1> DEFINE d == Dispatched(e)
<1>1. CASE e.diskFull
  <2>1. d = PauseInbound(e)
    BY <1>1 DEF Dispatched
  <2>2. EngineOK(d) /\ Alike(e, d) /\ Rest(e, d) /\ \A p \in Path : d.wants[p].state # "blocked"
    BY <2>1, PauseInboundOK
  <2> HIDE DEF d
  <2>3. cs \o d.jobs = cs
    <3>1. cs \in Seq(Jobs) /\ d.jobs = <<>>
      BY <2>2 DEF Matches, Rest
    <3> QED
      BY <3>1
  <2>4. Matches(d, cs \o d.jobs)
    BY <2>2, <2>3, AlikeIsLike, MatchesLike
  <2> QED
    BY <2>2, <2>4 DEF Dispatches, d
<1>2. CASE ~e.diskFull
  <2> DEFINE k == KeepDirectories(e)
             r == ReleaseWaiting(k)
             s == Reselect(r)
             a == AssignAll(s)
  <2>1. d = CommitAll(a)
    <3>1. Then(k, ReleaseWaiting) = r /\ Then(r, Reselect) = s
      BY DEF Then
    <3>2. Then(s, AssignAll) = a /\ Then(a, CommitAll) = CommitAll(a)
      BY DEF Then
    <3>3. d = Then(Then(Then(Then(k, ReleaseWaiting), Reselect), AssignAll), CommitAll)
      BY <1>2 DEF Dispatched
    <3> QED
      BY <3>1, <3>2, <3>3
  <2>2. EngineOK(k) /\ Alike(e, k) /\ Rest(e, k) /\ TrashEmpty(k)
    BY KeepDirectoriesOK
  <2> HIDE DEF k
  <2>3. EngineOK(r) /\ Alike(k, r) /\ Rest(k, r)
    BY <2>2, ReleaseWaitingOK
  <2> HIDE DEF r
  <2>4. EngineOK(s) /\ Alike(r, s) /\ Rest(r, s)
    BY <2>3, ReselectOK
  <2> HIDE DEF s
  <2>5. EngineOK(a) /\ Alike(s, a) /\ a.jobs = s.jobs
    BY <2>4, AssignAllOK
  <2> HIDE DEF a, d
  <2>6. Alike(e, a) /\ Alike(k, a)
    BY <2>2, <2>3, <2>4, <2>5, AlikeChains
  <2>7. TrashEmpty(a) /\ Matches(a, cs)
    BY <2>2, <2>6, TrashEmptyAlike, AlikeIsLike, MatchesLike
  <2>8. a.jobs = <<>>
    BY <2>2, <2>3, <2>4, <2>5 DEF Rest
  <2>9. Handled(a, Ready(a), d) /\ Started(Ready(a), d) /\ Gated(Ready(a), d)
    BY <2>1, <2>5, <2>7, <2>8, CommitAllOK
  <2>10. Matches(d, cs \o d.jobs)
    BY <2>5, <2>7, <2>9, MatchesStarted
  <2>11. ASSUME NEW p \in Path, NEW q \in Path, d.wants[p].state = "blocked", Gates(d, p, q)
         PROVE  InFlight(d.wants[q])
    <3>1. p \in Ready(a)
      <4>1. CASE p \notin Ready(a)
        <5>1. a.wants[p].state = "blocked" /\ Wanted(a.wants[p]) /\ WantOK(p, a.wants[p])
          BY <2>5, <2>9, <2>11, <4>1 DEF Handled, Wanted, EngineOK
        <5> QED
          BY <4>1, <5>1 DEF WantOK, Ready, Startable
      <4> QED
        BY <4>1
    <3> QED
      BY <2>9, <2>11, <3>1 DEF Gated
  <2> QED
    BY <2>9, <2>10, <2>11 DEF Dispatches, Handled, d
<1> QED
  BY <1>1, <1>2

-----------------------------------------------------------------------------
(* The end of an event.                                                       *)

Legal(e, fs, cs) ==
    /\ EngineOK(e) /\ e.asks = {} /\ e.jobs = <<>>
    /\ IsABag(fs) /\ BagToSet(fs) \subseteq Asks
    /\ Matches(e, cs)

LEMMA PumpKeeps ==
  ASSUME NEW e, NEW fs, NEW cs, Legal(e, fs, cs), Pump(e, fs, cs),
         latest' \in [Path -> 0..MaxVersion]
  PROVE  IInv'
<1> DEFINE d == Dispatched(e)
<1>1. /\ engine' = [d EXCEPT !.asks = {}, !.jobs = <<>>]
      /\ fetches' = fs (+) SetToBag(d.asks)
      /\ commits' = cs \o d.jobs
  BY DEF Pump, Then
<1>2. Dispatches(e, cs, d)
  BY DispatchedOK DEF Legal
<1> HIDE DEF d
<1>3. d \in Engines /\ EngineOK(d)
  BY <1>2 DEF Dispatches, EngineOK
<1>4. /\ engine' \in Engines /\ engine'.wants = d.wants /\ engine'.released = d.released
      /\ engine'.asks = {} /\ engine'.jobs = <<>>
  <2>1. {} \in SUBSET Asks /\ <<>> \in Seq(Jobs)
    OBVIOUS
  <2> QED
    BY <1>1, <1>3, <2>1 DEF Engines
<1>5. EngineOK(engine')
  BY <1>3, <1>4 DEF EngineOK
<1>6. Like(d, engine')
  BY <1>4 DEF Like
<1>7. Matches(engine', commits')
  BY <1>1, <1>2, <1>6, MatchesLike DEF Dispatches
<1>8. IsABag(fetches') /\ BagToSet(fetches') \subseteq Asks
  <2>1. d.asks \subseteq Asks
    BY <1>3 DEF Engines
  <2> QED
    BY <1>1, <2>1 DEF Legal, IsABag, BagToSet, (+), SetToBag
<1>9. NeverHeldBehind'
  <2>1. ASSUME NEW p \in Path, NEW q \in Path,
               engine'.wants[p].state = "blocked", Gates(engine', p, q)
        PROVE  InFlight(engine'.wants[q])
    <3>1. Gates(d, p, q)
      BY <1>4, <2>1 DEF Gates
    <3> QED
      BY <1>2, <1>4, <2>1, <3>1 DEF Dispatches
  <2> QED
    BY <2>1 DEF NeverHeldBehind
<1> QED
  BY <1>4, <1>5, <1>7, <1>8, <1>9 DEF IInv

LEMMA SameLegal ==
  ASSUME IInv, NEW f, EngineOK(f), f.asks = {}, f.jobs = <<>>, Like(engine, f)
  PROVE  Legal(f, fetches, commits)
  BY MatchesLike DEF IInv, Legal

LEMMA FetchRemoved ==
  ASSUME NEW e, NEW fs, NEW cs, Legal(e, fs, cs), NEW f
  PROVE  Legal(e, fs (-) SetToBag({f}), cs)
<1> DEFINE left == fs (-) SetToBag({f})
<1>1. IsABag(left) /\ BagToSet(left) \subseteq BagToSet(fs)
  BY DEF Legal, IsABag, BagToSet, (-), SetToBag
<1> HIDE DEF left
<1>2. Legal(e, left, cs)
  BY <1>1 DEF Legal
<1> QED
  BY <1>2 DEF left

-----------------------------------------------------------------------------
(* Wants.                                                                     *)

LEMMA PeersFinite ==
  ASSUME NEW S \in SUBSET Peer
  PROVE  /\ IsFiniteSet(S) /\ Cardinality(S) \in Nat
         /\ \A T \in SUBSET S : Cardinality(T) \in Nat /\ Cardinality(T) <= Cardinality(S)
<1>1. IsFiniteSet(S)
  BY WantsAssumption, FS_Subset
<1>2. ASSUME NEW T \in SUBSET S PROVE IsFiniteSet(T) /\ Cardinality(T) <= Cardinality(S)
  BY <1>1, FS_Subset
<1> QED
  BY <1>1, <1>2, FS_CardinalityType

\* A want as it is put on the list.
IsNew(p, w, op, version) ==
    /\ w \in Wants /\ WantOK(p, w) /\ w.op = op /\ w.version = version
    /\ w.state = "wanted" /\ w.on = 0

LEMMA NewWant ==
  ASSUME NEW p, NEW op \in Ops, NEW version \in 1..MaxVersion, NEW sources \in SUBSET Peer,
         NEW restoring \in BOOLEAN
  PROVE  IsNew(p, Want(op, version, sources, restoring), op, version)
<1> DEFINE w == Want(op, version, sources, restoring)
<1>1. /\ w \in Wants /\ w.state = "wanted" /\ w.op = op /\ w.version = version
      /\ w.on = 0 /\ w.excluded = {}
  BY DEF Want, Wants
<1>2. Cardinality({}) = 0
  BY FS_EmptySet
<1> HIDE DEF w
<1>3. WantOK(p, w)
  BY <1>1, <1>2 DEF WantOK
<1> QED
  BY <1>1, <1>3 DEF w, IsNew

LEMMA LiftOK ==
  ASSUME NEW p, NEW w \in Wants, WantOK(p, w), NEW peers
  PROVE  LET v == Lift(w, peers)
         IN /\ v \in Wants /\ WantOK(p, v) /\ v.op = w.op /\ v.version = w.version
            /\ v.state = "committing" <=> w.state = "committing"
<1> DEFINE left == w.excluded \ peers
           v == Lift(w, peers)
           state == IF w.state = "gave up" /\ Cardinality(left) < 2 THEN "wanted" ELSE w.state
<1>1. /\ w.excluded \in SUBSET Peer /\ left \in SUBSET Peer /\ Wanted(w)
      /\ Cardinality(left) \in Nat /\ Cardinality(w.excluded) \in Nat
      /\ Cardinality(left) <= Cardinality(w.excluded)
  <2>1. w.excluded \in SUBSET Peer /\ left \in SUBSET w.excluded /\ Wanted(w)
    BY NoWantOK DEF Wants
  <2> QED
    BY <2>1, PeersFinite
<1>2. v = [w EXCEPT !.excluded = left, !.state = state]
  BY DEF Lift
<1>3. state \in States
  BY DEF Wants, States
<1> HIDE DEF left, v
<1>4. /\ v \in Wants /\ v.state = state /\ v.on = w.on /\ v.excluded = left
      /\ v.op = w.op /\ v.version = w.version /\ v.fetched = w.fetched
  <2> HIDE DEF state
  <2> QED
    BY <1>1, <1>2, <1>3 DEF Wants, States
<1>5. WantOK(p, v)
  <2>1. /\ w.on \in OnFor(p, w.state)
        /\ w.state = "gave up" <=> Cardinality(w.excluded) >= 2
        /\ w.state = "blocked" => ~NeedsFetch(w)
    BY <1>1 DEF WantOK, OnFor
  <2>2. NeedsFetch(v) <=> NeedsFetch(w)
    BY <1>4 DEF NeedsFetch
  <2>3. CASE w.state = "gave up"
    <3>1. w.on = 0 /\ state \in {"gave up", "wanted"}
      BY <2>1, <2>3 DEF OnFor
    <3>2. state = "gave up" <=> Cardinality(left) >= 2
      <4>1. Cardinality(left) < 2 <=> ~(Cardinality(left) >= 2)
        BY <1>1
      <4> QED
        BY <2>3, <4>1
    <3>3. v.on \in OnFor(p, v.state)
      BY <1>4, <3>1 DEF OnFor
    <3> QED
      BY <1>4, <3>1, <3>2, <3>3 DEF WantOK, OnFor
  <2>4. CASE w.state # "gave up"
    <3>1. state = w.state /\ ~(Cardinality(left) >= 2)
      <4>1. ~(Cardinality(w.excluded) >= 2)
        BY <2>1, <2>4
      <4>2. ~(Cardinality(left) >= 2)
        BY <1>1, <4>1
      <4> QED
        BY <2>4, <4>2
    <3> HIDE DEF state
    <3> QED
      BY <1>4, <2>1, <2>2, <2>4, <3>1 DEF WantOK, OnFor
  <2> QED
    BY <2>3, <2>4
<1> QED
  BY <1>4, <1>5 DEF v

\* One other want.
Sets(e, f, p, w) ==
    /\ f \in Engines /\ f.wants = [e.wants EXCEPT ![p] = w] /\ f.released = e.released
    /\ f.asks = e.asks /\ f.jobs = e.jobs

\* The same where a step of the dispatch before gave g.
LEMMA SetsAgain ==
  ASSUME NEW e, NEW g, NEW p, NEW w, Sets(e, g, p, w), NEW v, NEW f, f \in Engines,
         f.wants = [g.wants EXCEPT ![p] = v], f.released = g.released,
         f.asks = g.asks, f.jobs = g.jobs, e.wants \in [Path -> Wants \cup {NoWant}]
  PROVE  Sets(e, f, p, v)
<1>1. f.wants = [e.wants EXCEPT ![p] = v]
  BY DEF Sets
<1> QED
  BY <1>1 DEF Sets

LEMMA InSets ==
  ASSUME NEW e \in Engines, NEW p \in Path, e.wants[p] \in Wants, NEW state \in States,
         NEW on \in {0} \cup Peer \cup Path
  PROVE  LET w == [e.wants[p] EXCEPT !.state = state, !.on = on]
         IN Sets(e, In(e, p, state, on), p, w) /\ Moves(e.wants[p], w, state, on)
<1> DEFINE w == [e.wants[p] EXCEPT !.state = state, !.on = on]
           f == In(e, p, state, on)
           wants == [e.wants EXCEPT ![p] = w]
<1>1. Moves(e.wants[p], w, state, on)
  BY StateSet
<1>2. e.wants \in [Path -> Wants \cup {NoWant}]
  BY DEF Engines
<1>3. w \in Wants
  BY <1>1 DEF Moves
<1>4. f = [e EXCEPT !.wants = wants]
  BY <1>2 DEF In, Engines
<1>5. wants \in [Path -> Wants \cup {NoWant}]
  BY <1>2, <1>3
<1> HIDE DEF w, f, wants
<1>6. f \in Engines /\ f.wants = wants /\ SameBut(e, f)
  BY <1>4, <1>5, WithWants
<1>7. Sets(e, f, p, w)
  BY <1>6 DEF Sets, SameBut, wants
<1> QED
  BY <1>1, <1>7 DEF w, f

-----------------------------------------------------------------------------
(* The commits the host is at, while the list changes.                        *)

\* The list knows of a commit of version v at p.
Knows(e, p, v) == \/ e.wants[p].state = "committing" /\ e.wants[p].version = v
                  \/ e.released[p] = v

Trashing(e, p) == IsTrash(e.wants[p]) /\ e.wants[p].state = "committing"

\* Off the path c the same commits, and nowhere a new move to the trash.
KeepsOff(e, f, c) ==
    /\ \A p \in Path : IsTrash(f.wants[p]) => IsTrash(e.wants[p])
    /\ \A p \in Path \ c : Trashing(e, p) => Trashing(f, p)
    /\ \A p \in Path \ c, v \in 1..MaxVersion : Knows(f, p, v) <=> Knows(e, p, v)

LEMMA PathsOf ==
  ASSUME NEW cs \in Seq(Jobs), NEW i \in 1..Len(cs)
  PROVE  /\ cs[i] \in Jobs /\ cs[i].path \in Path /\ cs[i].version \in 1..MaxVersion
         /\ Above[cs[i].path] \subseteq Path
<1>1. cs[i] \in Jobs
  OBVIOUS
<1>2. cs[i].path \in Path /\ cs[i].version \in 1..MaxVersion
  BY <1>1 DEF Jobs
<1> QED
  BY <1>1, <1>2, Numbered

LEMMA MatchesKept ==
  ASSUME NEW e, NEW f, NEW cs, Matches(e, cs), KeepsOff(e, f, {})
  PROVE  Matches(f, cs)
<1>1. cs \in Seq(Jobs)
  BY DEF Matches
<1>2. \A p \in Path, v \in 1..MaxVersion :
          (\E i \in 1..Len(cs) : cs[i].path = p /\ cs[i].version = v) <=> Knows(f, p, v)
  BY DEF Matches, KeepsOff, Knows
<1>3. ASSUME NEW i \in 1..Len(cs), cs[i].op = "trash"
      PROVE  Trashing(f, cs[i].path)
  <2>1. Trashing(e, cs[i].path)
    BY <1>3 DEF Matches, Trashing
  <2>2. cs[i].path \in Path
    BY <1>1, PathsOf
  <2> QED
    BY <2>1, <2>2 DEF KeepsOff
<1>4. ASSUME NEW i \in 1..Len(cs), ~IsDelete(cs[i]), NEW d \in Above[cs[i].path]
      PROVE  ~IsTrash(f.wants[d])
  <2>1. ~IsTrash(e.wants[d])
    BY <1>4 DEF Matches
  <2>2. d \in Path
    BY <1>1, PathsOf
  <2> QED
    BY <2>1, <2>2 DEF KeepsOff
<1> QED
  BY <1>2, <1>3, <1>4 DEF Matches, Knows, Trashing

\* The host has reported the first of its commits.
LEMMA MatchesTail ==
  ASSUME NEW e, NEW f, NEW cs, cs # <<>>, Matches(e, cs), KeepsOff(e, f, {Head(cs).path}),
         \A v \in 1..MaxVersion : ~Knows(f, Head(cs).path, v)
  PROVE  Matches(f, Tail(cs))
<1> DEFINE c == cs[1]
           n == Len(cs)
           left == Tail(cs)
<1>1. /\ cs \in Seq(Jobs) /\ n \in Nat /\ n >= 1 /\ Head(cs) = c
      /\ left \in Seq(Jobs) /\ Len(left) = n - 1
      /\ \A i \in 1..(n - 1) : left[i] = cs[i + 1] /\ i + 1 \in 1..n
  BY DEF Matches
<1>2. 1 \in 1..n /\ \A i \in 2..n : i \in 1..n /\ i # 1 /\ i - 1 \in 1..(n - 1) /\ (i - 1) + 1 = i
  BY <1>1
<1>3. \A i \in 2..n : cs[i] = left[i - 1]
  BY <1>1, <1>2
<1> HIDE DEF left, c, n
<1>4. ASSUME NEW i \in 1..(n - 1), NEW j \in 1..(n - 1), left[i].path = left[j].path
      PROVE  i = j
  <2>1. i + 1 = j + 1
    BY <1>1, <1>4 DEF Matches, n
  <2> QED
    BY <1>1, <2>1
<1>5. \A i \in 1..(n - 1) : left[i].path \in Path /\ left[i].path # c.path
  <2>1. ASSUME NEW i \in 1..(n - 1) PROVE left[i].path \in Path /\ left[i].path # c.path
    <3>1. i + 1 \in 1..n /\ i + 1 # 1 /\ left[i] = cs[i + 1]
      BY <1>1
    <3>2. cs[i + 1].path = cs[1].path => i + 1 = 1
      BY <1>2, <3>1 DEF Matches, n
    <3>3. cs[i + 1].path \in Path
      BY <1>1, <3>1, PathsOf DEF n
    <3> QED
      BY <3>1, <3>2, <3>3 DEF c
  <2> QED
    BY <2>1
<1>6. ASSUME NEW p \in Path, NEW v \in 1..MaxVersion
      PROVE  (\E i \in 1..(n - 1) : left[i].path = p /\ left[i].version = v) <=> Knows(f, p, v)
  <2>1. CASE p = c.path
    BY <1>1, <1>5, <2>1
  <2>2. CASE p # c.path
    <3>1. (\E i \in 1..n : cs[i].path = p /\ cs[i].version = v) <=> Knows(e, p, v)
      BY DEF Matches, Knows, n
    <3>2. Knows(f, p, v) <=> Knows(e, p, v)
      BY <1>1, <2>2 DEF KeepsOff
    <3>3. ASSUME NEW i \in 1..n, cs[i].path = p, cs[i].version = v
          PROVE  \E j \in 1..(n - 1) : left[j].path = p /\ left[j].version = v
      <4>1. i # 1
        BY <2>2, <3>3 DEF c
      <4>2. i \in 2..n
        BY <1>1, <4>1
      <4> QED
        BY <1>2, <1>3, <3>3, <4>2
    <3>4. ASSUME NEW j \in 1..(n - 1), left[j].path = p, left[j].version = v
          PROVE  \E i \in 1..n : cs[i].path = p /\ cs[i].version = v
      BY <1>1, <3>4
    <3> QED
      BY <3>1, <3>2, <3>3, <3>4
  <2> QED
    BY <2>1, <2>2
<1>7. ASSUME NEW i \in 1..(n - 1), left[i].op = "trash"
      PROVE  Trashing(f, left[i].path)
  <2>1. Trashing(e, left[i].path)
    BY <1>1, <1>7 DEF Matches, Trashing, n
  <2> QED
    BY <1>1, <1>5, <2>1 DEF KeepsOff
<1>8. ASSUME NEW i \in 1..(n - 1), ~IsDelete(left[i]), NEW d \in Above[left[i].path]
      PROVE  ~IsTrash(f.wants[d])
  <2>1. ~IsTrash(e.wants[d])
    BY <1>1, <1>8 DEF Matches, n
  <2>2. d \in Path
    BY <1>5, Numbered
  <2> QED
    BY <2>1, <2>2 DEF KeepsOff
<1>9. Matches(f, left)
  BY <1>1, <1>4, <1>6, <1>7, <1>8 DEF Matches, Knows, Trashing
<1> QED
  BY <1>9 DEF left

\* The host is at no commit.
LEMMA MatchesNone ==
  ASSUME NEW f, \A p \in Path : f.released[p] = 0 /\ f.wants[p].state # "committing"
  PROVE  Matches(f, <<>>)
<1>1. <<>> \in Seq(Jobs) /\ Len(<<>>) = 0
  OBVIOUS
<1>2. \A v \in 1..MaxVersion : v # 0
  BY WantsAssumption
<1> QED
  BY <1>1, <1>2 DEF Matches

-----------------------------------------------------------------------------
(* An event that changes one want.                                            *)

Gets(e, f, p, w) ==
    /\ f \in Engines /\ f.released = e.released /\ f.asks = e.asks /\ f.jobs = e.jobs
    /\ f.wants[p] = w /\ \A q \in Path \ {p} : f.wants[q] = e.wants[q]

LEMMA SetsGets ==
  ASSUME NEW e \in Engines, NEW p \in Path, NEW w, NEW f, Sets(e, f, p, w)
  PROVE  Gets(e, f, p, w)
<1>1. e.wants \in [Path -> Wants \cup {NoWant}]
  BY DEF Engines
<1> QED
  BY <1>1 DEF Sets, Gets

LEMMA EndsGets ==
  ASSUME NEW e, NEW p, NEW f, Ends(e, f, p)
  PROVE  Gets(e, f, p, NoWant)
  BY DEF Ends, Gets, EngineOK

LEMMA Now ==
  ASSUME IInv
  PROVE  /\ Legal(engine, fetches, commits) /\ EngineOK(engine) /\ engine \in Engines
         /\ engine.wants \in [Path -> Wants \cup {NoWant}]
         /\ \A p \in Path : WantOK(p, engine.wants[p])
         /\ latest \in [Path -> 0..MaxVersion]
         /\ commits \in Seq(Jobs)
  BY DEF IInv, Legal, EngineOK, Engines, Matches

LEMMA GetsOK ==
  ASSUME NEW e, EngineOK(e), NEW p \in Path, NEW w, WantOK(p, w), w.state # "committing",
         NEW f, Gets(e, f, p, w)
  PROVE  EngineOK(f)
  BY DEF EngineOK, Gets

LEMMA GetsLegal ==
  ASSUME IInv, NEW p \in Path, NEW w, WantOK(p, w), w.state # "committing",
         engine.wants[p].state # "committing", IsTrash(w) => IsTrash(engine.wants[p]),
         NEW f, Gets(engine, f, p, w)
  PROVE  Legal(f, fetches, commits)
<1>1. EngineOK(f)
  BY Now, GetsOK
<1>2. Like(engine, f)
  BY DEF Gets, Like
<1>3. f.asks = {} /\ f.jobs = <<>>
  BY DEF Gets, IInv
<1> QED
  BY <1>1, <1>2, <1>3, SameLegal

\* The want whose commit is reported is committing, and no rule has released
\* a commit of its path.
LEMMA AwaitedIs ==
  ASSUME IInv, commits # <<>>, Awaited(Head(commits))
  PROVE  LET p == Head(commits).path
         IN /\ Head(commits) \in Jobs /\ p \in Path
            /\ engine.wants[p] \in Wants /\ engine.wants[p].state = "committing"
            /\ engine.released[p] = 0
<1> DEFINE c == commits[1]
<1>1. /\ commits \in Seq(Jobs) /\ 1 \in 1..Len(commits) /\ Head(commits) = c
  BY Now
<1>2. c \in Jobs /\ c.path \in Path /\ c.version \in 1..MaxVersion
  BY <1>1, PathsOf
<1>3. \/ engine.wants[c.path].state = "committing"
      \/ engine.released[c.path] = c.version
  BY <1>1, <1>2 DEF IInv, Matches
<1>4. engine.released[c.path] # c.version /\ Wanted(engine.wants[c.path])
  BY <1>1 DEF Awaited
<1>5. engine.wants[c.path] \in Wants
  BY <1>2, <1>4, Now, WantIs
<1>6. engine.released[c.path] = 0
  BY <1>2, <1>3, <1>4, Now DEF EngineOK
<1> QED
  BY <1>1, <1>2, <1>3, <1>4, <1>5, <1>6

LEMMA GetsTail ==
  ASSUME IInv, commits # <<>>, Awaited(Head(commits)),
         NEW w, WantOK(Head(commits).path, w), w.state # "committing",
         IsTrash(w) => IsTrash(engine.wants[Head(commits).path]),
         NEW f, Gets(engine, f, Head(commits).path, w)
  PROVE  Legal(f, fetches, Tail(commits))
<1> DEFINE p == Head(commits).path
<1>1. p \in Path /\ engine.released[p] = 0
  BY AwaitedIs
<1>2. EngineOK(f)
  BY <1>1, Now, GetsOK
<1>3. KeepsOff(engine, f, {p})
  BY <1>1 DEF Gets, KeepsOff, Knows, Trashing
<1>4. \A v \in 1..MaxVersion : ~Knows(f, p, v)
  <2>1. \A v \in 1..MaxVersion : v # 0
    BY WantsAssumption
  <2> QED
    BY <1>1, <2>1 DEF Gets, Knows
<1>5. Matches(f, Tail(commits))
  BY <1>3, <1>4, MatchesTail DEF IInv
<1>6. f.asks = {} /\ f.jobs = <<>>
  BY DEF Gets, IInv
<1> QED
  BY <1>2, <1>5, <1>6 DEF IInv, Legal

LEMMA FetchKeeps ==
  ASSUME IInv, NEW e, Legal(e, fetches, commits), NEW f, FetchEnds(f, e)
  PROVE  IInv'
  BY Now, FetchRemoved, PumpKeeps DEF FetchEnds

LEMMA CommitKeeps ==
  ASSUME IInv, NEW e, Legal(e, fetches, Tail(commits)), CommitEnds(e)
  PROVE  IInv'
  BY Now, PumpKeeps DEF CommitEnds

LEMMA TurnKeeps ==
  ASSUME IInv, NEW e, Legal(e, fetches, commits), Turn(e)
  PROVE  IInv'
  BY Now, PumpKeeps DEF Turn

\* A want at rest: neither fetching nor waiting nor ready for a commit.
Rests == States \ {"gave up", "committing", "blocked", "fetching", "waiting for"}

LEMMA AtRest ==
  ASSUME NEW p, NEW w \in Wants, WantOK(p, w), w.state # "gave up",
         NEW v \in Wants, v.excluded = w.excluded, v.state \in Rests, v.on = 0
  PROVE  WantOK(p, v)
<1>1. ~(Cardinality(w.excluded) >= 2)
  BY NoWantOK DEF WantOK
<1>2. v.on \in OnFor(p, v.state) /\ v.state \notin {"gave up", "blocked"}
  BY DEF OnFor, Rests
<1> QED
  BY <1>1, <1>2 DEF WantOK, OnFor

-----------------------------------------------------------------------------
(* Fetches.                                                                   *)

LEMMA TakesIs ==
  ASSUME IInv, NEW f \in BagToSet(fetches), Takes(f)
  PROVE  LET p == f.path
             w == engine.wants[p]
         IN /\ p \in Path /\ f.version \in 1..MaxVersion
            /\ w \in Wants /\ WantOK(p, w) /\ w.state = "fetching" /\ w.on \in Peer
<1> DEFINE p == f.path
           w == engine.wants[p]
<1>1. p \in Path /\ f.version \in 1..MaxVersion
  BY DEF IInv, Asks
<1>2. w.state = "fetching" /\ WantOK(p, w)
  BY <1>1, Now DEF Takes
<1>3. w \in Wants
  BY <1>1, <1>2, Now, WantIs DEF Wanted
<1>4. w.on \in OnFor(p, w.state)
  <2> HIDE DEF w, p
  <2> QED
    BY <1>1, <1>2, <1>3, WantOnFor
<1>5. w.on \in Peer
  BY <1>2, <1>4 DEF OnFor
<1> QED
  BY <1>1, <1>2, <1>3, <1>5

\* A report changes only the want it is taken by.
LEMMA FetchGets ==
  ASSUME IInv, NEW f \in BagToSet(fetches), Takes(f), NEW w, WantOK(f.path, w),
         w.state # "committing", w.op = engine.wants[f.path].op,
         NEW e, Gets(engine, e, f.path, w), FetchEnds(f, e)
  PROVE  IInv'
<1> DEFINE p == f.path
<1>1. p \in Path /\ engine.wants[p] \in Wants /\ engine.wants[p].state = "fetching"
  BY TakesIs
<1>2. IsTrash(w) => IsTrash(engine.wants[p])
  BY <1>1 DEF IsTrash, Wanted
<1>3. Legal(e, fetches, commits)
  BY <1>1, <1>2, GetsLegal
<1> QED
  BY <1>3, FetchKeeps

LEMMA LateKeeps ==
  ASSUME IInv, NEW f, Late(f)
  PROVE  IInv'
  BY Now, FetchKeeps DEF Late

\* The want at p in another state, with other fields of it changed.
LEMMA InGets ==
  ASSUME IInv, NEW p \in Path, engine.wants[p] \in Wants, NEW state \in States,
         NEW v \in Wants, NEW full \in BOOLEAN, NEW e,
         e = [In(engine, p, state, 0) EXCEPT !.wants = [@ EXCEPT ![p] = v], !.diskFull = full]
  PROVE  Gets(engine, e, p, v)
<1> DEFINE u == [engine.wants[p] EXCEPT !.state = state, !.on = 0]
           g == In(engine, p, state, 0)
<1>1. Sets(engine, g, p, u)
  BY Now, InSets
<1>2. g \in Engines /\ g.wants \in [Path -> Wants \cup {NoWant}]
  BY <1>1 DEF Sets, Engines
<1> HIDE DEF g, u
<1>3. /\ e \in Engines /\ e.wants = [g.wants EXCEPT ![p] = v] /\ e.released = g.released
      /\ e.asks = g.asks /\ e.jobs = g.jobs
  BY <1>2 DEF Engines, g
<1>4. Sets(engine, e, p, v)
  BY <1>1, <1>3, Now, SetsAgain
<1> QED
  BY <1>4, Now, SetsGets

\* The want at p as In leaves it.
LEMMA InWant ==
  ASSUME IInv, NEW p \in Path, engine.wants[p] \in Wants, NEW state \in States
  PROVE  LET g == In(engine, p, state, 0)
         IN /\ g \in Engines /\ g.wants \in [Path -> Wants \cup {NoWant}]
            /\ Moves(engine.wants[p], g.wants[p], state, 0)
            /\ g.diskFull = engine.diskFull
            /\ g.wants[p] = [engine.wants[p] EXCEPT !.state = state, !.on = 0]
<1> DEFINE u == [engine.wants[p] EXCEPT !.state = state, !.on = 0]
           g == In(engine, p, state, 0)
<1>1. Sets(engine, g, p, u) /\ Moves(engine.wants[p], u, state, 0)
  BY Now, InSets
<1>2. g.diskFull = engine.diskFull
  BY Now DEF In, Engines
<1> HIDE DEF g, u
<1>3. g \in Engines /\ g.wants \in [Path -> Wants \cup {NoWant}] /\ g.wants[p] = u
  BY <1>1, Now DEF Sets, Engines
<1> QED
  BY <1>1, <1>2, <1>3 DEF g, u

LEMMA FetchedKeeps ==
  ASSUME IInv, NEW f \in BagToSet(fetches), Fetched(f)
  PROVE  IInv'
<1> DEFINE p == f.path
           w == engine.wants[p]
           g == In(engine, p, "wanted", 0)
           v == [g.wants[p] EXCEPT !.fetched = TRUE]
           e == [g EXCEPT !.wants[p].fetched = TRUE]
<1>1. Takes(f) /\ FetchEnds(f, e)
  BY DEF Fetched
<1>2. p \in Path /\ w \in Wants /\ WantOK(p, w) /\ w.state = "fetching" /\ "wanted" \in States
  BY <1>1, TakesIs DEF States
<1>3. g \in Engines /\ Moves(w, g.wants[p], "wanted", 0) /\ g.diskFull = engine.diskFull
  BY <1>2, InWant
<1>4. e = [g EXCEPT !.wants = [@ EXCEPT ![p] = v], !.diskFull = engine.diskFull]
  BY <1>3 DEF Engines
<1> HIDE DEF w, e, g
<1>5. v \in Wants /\ v.state = "wanted" /\ v.on = 0 /\ v.op = w.op /\ v.excluded = w.excluded
  BY <1>3 DEF Wants, Moves
<1> HIDE DEF v
<1>6. WantOK(p, v)
  BY <1>2, <1>5, AtRest DEF Rests, States
<1>7. Gets(engine, e, p, v)
  <2>1. engine.diskFull \in BOOLEAN
    BY Now DEF Engines
  <2> QED
    BY <1>2, <1>4, <1>5, <2>1, InGets DEF g, w
<1> QED
  BY <1>1, <1>5, <1>6, <1>7, FetchGets DEF w, e, g

LEMMA NotAvailableKeeps ==
  ASSUME IInv, NEW f \in BagToSet(fetches), NotAvailable(f)
  PROVE  IInv'
<1> DEFINE p == f.path
           w == engine.wants[p]
           answered == w.answered \cup {w.on}
           unrecoverable == w.restoring /\ answered = Peer
           g == In(engine, p, "wanted", 0)
           v == [g.wants[p] EXCEPT !.refused = @ \cup {w.on}, !.answered = answered]
           e == [g EXCEPT !.wants[p].refused = @ \cup {w.on}, !.wants[p].answered = answered]
<1>1. Takes(f) /\ FetchEnds(f, IF unrecoverable THEN Written(engine, p, FALSE) ELSE e)
  BY DEF NotAvailable
<1>2. /\ p \in Path /\ w \in Wants /\ WantOK(p, w) /\ w.state = "fetching" /\ w.on \in Peer
      /\ "wanted" \in States
  BY <1>1, TakesIs DEF States
<1>3. CASE unrecoverable
  <2>1. Ends(engine, Written(engine, p, FALSE), p)
    BY <1>2, Now, WrittenOK
  <2>2. Gets(engine, Written(engine, p, FALSE), p, NoWant)
    BY <2>1, EndsGets
  <2>3. Legal(Written(engine, p, FALSE), fetches, commits)
    BY <1>2, <2>2, NoWantOK, GetsLegal
  <2> QED
    BY <1>1, <1>3, <2>3, FetchKeeps
<1>4. CASE ~unrecoverable
  <2>1. FetchEnds(f, e)
    BY <1>1, <1>4
  <2>2. g \in Engines /\ Moves(w, g.wants[p], "wanted", 0) /\ g.diskFull = engine.diskFull
    BY <1>2, InWant
  <2>3. answered \in SUBSET Peer
    BY <1>2 DEF Wants
  <2> HIDE DEF answered, unrecoverable, g
  <2>4. e = [g EXCEPT !.wants = [@ EXCEPT ![p] = v], !.diskFull = engine.diskFull]
    <3>1. g.wants \in [Path -> Wants \cup {NoWant}] /\ g.wants[p] \in Wants
      BY <2>2 DEF Engines, Moves
    <3>2. [[g.wants EXCEPT ![p].refused = @ \cup {w.on}] EXCEPT ![p].answered = answered]
          = [g.wants EXCEPT ![p] = v]
      BY <1>2, <3>1
    <3> QED
      BY <2>2, <3>1, <3>2 DEF Engines
  <2> HIDE DEF w, e
  <2>5. v \in Wants /\ v.state = "wanted" /\ v.on = 0 /\ v.op = w.op /\ v.excluded = w.excluded
    BY <1>2, <2>2, <2>3 DEF Wants, Moves
  <2> HIDE DEF v
  <2>6. WantOK(p, v)
    BY <1>2, <2>5, AtRest DEF Rests, States
  <2>7. Gets(engine, e, p, v)
    <3>1. engine.diskFull \in BOOLEAN
      BY Now DEF Engines
    <3> QED
      BY <1>2, <2>4, <2>5, <3>1, InGets DEF g, w
  <2> QED
    BY <1>1, <2>1, <2>5, <2>6, <2>7, FetchGets DEF w
<1> QED
  BY <1>3, <1>4

LEMMA MismatchKeeps ==
  ASSUME IInv, NEW f \in BagToSet(fetches), Mismatch(f)
  PROVE  IInv'
<1> DEFINE p == f.path
           w == engine.wants[p]
           excluded == w.excluded \cup {w.on}
           state == IF Cardinality(excluded) >= 2 THEN "gave up" ELSE "wanted"
           g == In(engine, p, state, 0)
           v == [g.wants[p] EXCEPT !.excluded = excluded]
           e == [g EXCEPT !.wants[p].excluded = excluded]
<1>1. Takes(f) /\ FetchEnds(f, e)
  BY DEF Mismatch
<1>2. p \in Path /\ w \in Wants /\ WantOK(p, w) /\ w.state = "fetching" /\ w.on \in Peer
  BY <1>1, TakesIs
<1>3. /\ state \in States /\ state \in {"gave up", "wanted"}
      /\ state = "gave up" <=> Cardinality(excluded) >= 2
  BY DEF States
<1>4. excluded \in SUBSET Peer
  BY <1>2 DEF Wants
<1> HIDE DEF state, excluded
<1>5. g \in Engines /\ Moves(w, g.wants[p], state, 0) /\ g.diskFull = engine.diskFull
  BY <1>2, <1>3, InWant
<1>6. e = [g EXCEPT !.wants = [@ EXCEPT ![p] = v], !.diskFull = engine.diskFull]
  BY <1>5 DEF Engines
<1> HIDE DEF w, e, g
<1>7. v \in Wants /\ v.state = state /\ v.on = 0 /\ v.op = w.op /\ v.excluded = excluded
  BY <1>4, <1>5 DEF Wants, Moves
<1> HIDE DEF v
<1>8. WantOK(p, v)
  BY <1>3, <1>7 DEF WantOK
<1>9. Gets(engine, e, p, v)
  <2>1. engine.diskFull \in BOOLEAN
    BY Now DEF Engines
  <2> QED
    BY <1>2, <1>3, <1>6, <1>7, <2>1, InGets DEF g, w
<1> QED
  BY <1>1, <1>3, <1>7, <1>8, <1>9, FetchGets DEF w

\* What Failed leaves is the want at rest for a reason.
Falls(f, p, error) ==
    \E v \in Wants : /\ WantOK(p, v) /\ v.state = error /\ v.op = engine.wants[p].op
                     /\ Gets(engine, f, p, v)

LEMMA FailedOK ==
  ASSUME IInv, NEW p \in Path, engine.wants[p] \in Wants, engine.wants[p].state # "gave up",
         NEW error \in {"local retry", "disk full", "collides", "wanted", "holds ignored"}
  PROVE  Falls(Failed(engine, p, error), p, error)
<1> DEFINE w == engine.wants[p]
           lost == error \in {"local retry", "disk full"}
           g == In(engine, p, error, 0)
           v == [g.wants[p] EXCEPT !.fetched = @ /\ ~lost]
           full == g.diskFull \/ error = "disk full"
           e == [g EXCEPT !.wants[p].fetched = @ /\ ~lost, !.diskFull = @ \/ error = "disk full"]
<1>1. Failed(engine, p, error) = e
  BY DEF Failed
<1>2. error \in States /\ error \in Rests
  BY DEF States, Rests
<1>3. g \in Engines /\ Moves(w, g.wants[p], error, 0)
  BY <1>2, InWant
<1>4. full \in BOOLEAN
  <2> HIDE DEF g
  <2>1. g.diskFull \in BOOLEAN
    BY <1>3 DEF Engines
  <2> QED
    BY <2>1
<1> HIDE DEF lost
<1>5. e = [g EXCEPT !.wants = [@ EXCEPT ![p] = v], !.diskFull = full]
  BY <1>3 DEF Engines
<1> HIDE DEF w, e, g, full
<1>6. v \in Wants /\ v.state = error /\ v.on = 0 /\ v.op = w.op /\ v.excluded = w.excluded
  <2>1. g.wants[p] \in Wants /\ (g.wants[p].fetched /\ ~lost) \in BOOLEAN
    BY <1>3 DEF Wants, Moves
  <2> QED
    BY <1>3, <2>1 DEF Wants, Moves
<1> HIDE DEF v
<1>7. WantOK(p, v)
  BY <1>2, <1>6, Now, AtRest DEF w
<1>8. Gets(engine, e, p, v)
  BY <1>2, <1>4, <1>5, <1>6, InGets DEF g, w
<1> QED
  BY <1>1, <1>6, <1>7, <1>8 DEF Falls, w

LEMMA FetchFailsKeeps ==
  ASSUME IInv, NEW f \in BagToSet(fetches), FetchFails(f)
  PROVE  IInv'
<1> DEFINE p == f.path
<1>1. PICK error \in {"local retry", "disk full", "collides", "wanted"} :
         FetchEnds(f, Failed(engine, p, error))
  BY DEF FetchFails, Collided
<1>2. Takes(f)
  BY DEF FetchFails
<1>3. p \in Path /\ engine.wants[p] \in Wants /\ engine.wants[p].state = "fetching"
  BY <1>2, TakesIs
<1>4. Falls(Failed(engine, p, error), p, error)
  BY <1>3, FailedOK
<1>5. PICK v \in Wants : /\ WantOK(p, v) /\ v.state = error /\ v.op = engine.wants[p].op
                         /\ Gets(engine, Failed(engine, p, error), p, v)
  BY <1>4 DEF Falls
<1> QED
  BY <1>1, <1>2, <1>5, FetchGets

-----------------------------------------------------------------------------
(* Commits.                                                                   *)

LEMMA ReleasedReportedKeeps ==
  ASSUME IInv, ReleasedReported
  PROVE  IInv'
<1> DEFINE c == commits[1]
           released == [engine.released EXCEPT ![c.path] = 0]
           f == [engine EXCEPT !.released[c.path] = 0]
<1>1. commits # <<>> /\ Head(commits) = c /\ 1 \in 1..Len(commits)
  BY Now DEF ReleasedReported
<1>2. c.path \in Path /\ c.version \in 1..MaxVersion
  BY <1>1, Now, PathsOf
<1>3. engine.released[c.path] = c.version /\ CommitEnds(f)
  BY <1>1 DEF ReleasedReported
<1> HIDE DEF c
<1>4. engine.released \in [Path -> 0..MaxVersion] /\ 0 \in 0..MaxVersion
  BY WantsAssumption, Now DEF Engines
<1>5. /\ released \in [Path -> 0..MaxVersion] /\ released[c.path] = 0
      /\ \A p \in Path \ {c.path} : released[p] = engine.released[p]
  BY <1>2, <1>4
<1>6. /\ f \in Engines /\ f.wants = engine.wants /\ f.released = released
      /\ f.asks = engine.asks /\ f.jobs = engine.jobs
  BY <1>5, Now DEF Engines
<1> HIDE DEF released, f
<1>7. EngineOK(f)
  BY <1>5, <1>6, Now DEF EngineOK
<1>8. KeepsOff(engine, f, {c.path})
  BY <1>5, <1>6 DEF KeepsOff, Knows, Trashing
<1>9. ASSUME NEW v \in 1..MaxVersion PROVE ~Knows(f, c.path, v)
  <2>1. engine.wants[c.path].state # "committing"
    <3>1. c.version # 0
      BY <1>2, WantsAssumption
    <3> QED
      BY <1>2, <1>3, <3>1, Now DEF EngineOK
  <2>2. v # 0
    BY WantsAssumption
  <2> QED
    BY <1>5, <1>6, <2>1, <2>2 DEF Knows
<1>10. Matches(f, Tail(commits))
  BY <1>1, <1>8, <1>9, MatchesTail DEF IInv
<1>11. Legal(f, fetches, Tail(commits))
  BY <1>6, <1>7, <1>10 DEF IInv, Legal
<1> QED
  BY <1>3, <1>11, CommitKeeps

\* An engine without the want at p.
LEMMA NoneGets ==
  ASSUME IInv, NEW p \in Path
  PROVE  Gets(engine, [engine EXCEPT !.wants[p] = NoWant], p, NoWant)
<1> DEFINE f == [engine EXCEPT !.wants[p] = NoWant]
<1>1. Sets(engine, f, p, NoWant)
  <2>1. [engine.wants EXCEPT ![p] = NoWant] \in [Path -> Wants \cup {NoWant}]
    BY Now
  <2> QED
    BY <2>1, Now DEF Sets, Engines
<1> QED
  BY <1>1, Now, SetsGets

LEMMA AppliedKeeps ==
  ASSUME IInv, Applied
  PROVE  IInv'
<1> DEFINE c == Head(commits)
           p == c.path
<1>1. commits # <<>> /\ Awaited(c) /\ p \in Path
  BY AwaitedIs DEF Applied
<1>2. CASE c.op = "trash"
  <2>1. CommitEnds([engine EXCEPT !.wants[p] = NoWant])
    BY <1>2 DEF Applied
  <2> QED
    BY <1>1, <2>1, NoneGets, NoWantOK, GetsTail, CommitKeeps
<1>3. CASE c.op # "trash"
  <2> DEFINE live == c.op # "delete"
             f == Written(engine, p, live)
  <2>1. CommitEnds(f)
    BY <1>3 DEF Applied
  <2>2. live \in BOOLEAN
    OBVIOUS
  <2> HIDE DEF live
  <2>3. Gets(engine, f, p, NoWant)
    BY <1>1, <2>2, Now, WrittenOK, EndsGets
  <2> HIDE DEF f
  <2> QED
    BY <1>1, <2>1, <2>3, NoWantOK, GetsTail, CommitKeeps
<1> QED
  BY <1>2, <1>3

LEMMA ChangedUnderneathKeeps ==
  ASSUME IInv, ChangedUnderneath
  PROVE  IInv'
<1> DEFINE c == Head(commits)
           f == [engine EXCEPT !.wants[c.path] = NoWant]
<1>1. commits # <<>> /\ Awaited(c) /\ c.path \in Path /\ CommitEnds(f)
  BY AwaitedIs DEF ChangedUnderneath
<1> QED
  BY <1>1, NoneGets, NoWantOK, GetsTail, CommitKeeps

LEMMA CommitFailsKeeps ==
  ASSUME IInv, CommitFails
  PROVE  IInv'
<1> DEFINE c == Head(commits)
           p == c.path
<1>1. /\ commits # <<>> /\ Awaited(c) /\ p \in Path
      /\ engine.wants[p] \in Wants /\ engine.wants[p].state = "committing"
  BY AwaitedIs DEF CommitFails
<1>2. PICK error \in {"local retry", "disk full", "collides", "wanted", "holds ignored"} :
         CommitEnds(Failed(engine, p, error))
  BY DEF CommitFails, Collided
<1> DEFINE f == Failed(engine, p, error)
<1>3. Falls(f, p, error)
  BY <1>1, FailedOK
<1> HIDE DEF f
<1>4. PICK v \in Wants : /\ WantOK(p, v) /\ v.state = error /\ v.op = engine.wants[p].op
                         /\ Gets(engine, f, p, v)
  BY <1>3 DEF Falls
<1>5. IsTrash(v) => IsTrash(engine.wants[p])
  BY <1>1, <1>4, NoWantOK DEF IsTrash
<1>6. Legal(f, fetches, Tail(commits))
  BY <1>1, <1>4, <1>5, GetsTail
<1> QED
  BY <1>2, <1>6, CommitKeeps DEF f

\* A rule takes the want of a path, and the list goes on knowing its commit.
LEMMA RederiveKeeps ==
  ASSUME IInv, NEW p \in Path, Rederive(p)
  PROVE  IInv'
<1> DEFINE w == engine.wants[p]
           held == IF w.state = "committing" THEN w.version ELSE engine.released[p]
           released == [engine.released EXCEPT ![p] = held]
           taken == [engine EXCEPT !.wants[p] = NoWant, !.released[p] = held]
           new == Want(w.op, w.version, w.sources, FALSE)
           again == [new EXCEPT !.refused = w.refused]
           Leaves(f, v) == f \in Engines /\ f.wants = [engine.wants EXCEPT ![p] = v]
                           /\ f.released = released /\ f.asks = {} /\ f.jobs = <<>>
<1>1. /\ w.state # "none" /\ (w.op = "trash" => w.state # "committing")
      /\ \/ Pump(taken, fetches, commits)
         \/ w.op # "trash" /\ Pump([taken EXCEPT !.wants[p] = again], fetches, commits)
      /\ UNCHANGED latest
  BY DEF Rederive
<1>2. w \in Wants /\ WantOK(p, w)
  BY <1>1, Now, WantIs DEF Wanted
<1>3. /\ w.op \in Ops /\ w.version \in 1..MaxVersion
      /\ w.sources \in SUBSET Peer /\ w.refused \in SUBSET Peer
  BY <1>2 DEF Wants
<1>4. held \in 0..MaxVersion
  <2>1. engine.released[p] \in 0..MaxVersion
    BY Now DEF Engines
  <2> QED
    BY <1>3, <2>1, WantsAssumption
<1>5. /\ released \in [Path -> 0..MaxVersion] /\ released[p] = held
      /\ \A q \in Path \ {p} : released[q] = engine.released[q]
  BY <1>4, Now DEF Engines
<1>6. Leaves(taken, NoWant)
  <2>1. [engine.wants EXCEPT ![p] = NoWant] \in [Path -> Wants \cup {NoWant}]
    BY Now
  <2> QED
    BY <1>5, <2>1, Now DEF Engines, IInv
<1>7. again \in Wants /\ WantOK(p, again) /\ again.state = "wanted" /\ again.op = w.op
  <2> HIDE DEF w
  <2>1. IsNew(p, new, w.op, w.version)
    BY <1>3, NewWant
  <2> HIDE DEF new
  <2>2. /\ new \in Wants /\ WantOK(p, new) /\ new.state = "wanted" /\ new.op = w.op
        /\ new.on = 0
    BY <2>1 DEF IsNew
  <2>3. /\ again \in Wants /\ again.state = "wanted" /\ again.op = w.op
        /\ again.on = 0 /\ again.excluded = new.excluded
    BY <1>3, <2>2 DEF Wants
  <2> HIDE DEF again
  <2> QED
    BY <2>2, <2>3, AtRest DEF Rests, States
<1> HIDE DEF again, held, new
<1>8. Leaves([taken EXCEPT !.wants[p] = again], again)
  <2>1. [engine.wants EXCEPT ![p] = again] \in [Path -> Wants \cup {NoWant}]
    BY <1>7, Now
  <2> HIDE DEF taken, released
  <2>2. [taken.wants EXCEPT ![p] = again] = [engine.wants EXCEPT ![p] = again]
    BY <1>6, Now
  <2> QED
    BY <1>6, <2>1, <2>2 DEF Engines
<1> HIDE DEF released, taken
<1>9. ASSUME NEW f, NEW v, Leaves(f, v), WantOK(p, v), v.state # "committing",
             IsTrash(v) => w.op = "trash" /\ v # NoWant, v \in Wants \cup {NoWant}
      PROVE  Legal(f, fetches, commits)
  <2>1. f.wants[p] = v /\ \A q \in Path \ {p} : f.wants[q] = engine.wants[q]
    BY <1>9, Now
  <2>2. EngineOK(f)
    BY <1>5, <1>9, <2>1, Now DEF EngineOK
  <2>3. \A k \in 1..MaxVersion : Knows(f, p, k) <=> Knows(engine, p, k)
    <3>1. \A k \in 1..MaxVersion : k # 0
      BY WantsAssumption
    <3>2. w.state = "committing" => engine.released[p] = 0
      BY Now DEF EngineOK
    <3> QED
      BY <1>5, <1>9, <2>1, <3>1, <3>2 DEF Knows, held
  <2>4. KeepsOff(engine, f, {})
    <3>1. \A q \in Path : IsTrash(f.wants[q]) => IsTrash(engine.wants[q])
      BY <1>1, <1>9, <2>1 DEF IsTrash, Wanted
    <3>2. \A q \in Path : Trashing(engine, q) => Trashing(f, q)
      BY <1>1, <2>1 DEF Trashing, IsTrash
    <3>3. \A q \in Path, k \in 1..MaxVersion : Knows(f, q, k) <=> Knows(engine, q, k)
      <4>1. ASSUME NEW q \in Path \ {p}, NEW k \in 1..MaxVersion
            PROVE  Knows(f, q, k) <=> Knows(engine, q, k)
        BY <1>5, <1>9, <2>1 DEF Knows
      <4> QED
        BY <2>3, <4>1
    <3> QED
      BY <3>1, <3>2, <3>3 DEF KeepsOff
  <2>5. Matches(f, commits)
    BY <2>4, MatchesKept DEF IInv
  <2> QED
    BY <1>9, <2>2, <2>5 DEF IInv, Legal
<1> HIDE DEF Leaves
<1>10. CASE Pump(taken, fetches, commits)
  <2>1. Legal(taken, fetches, commits)
    BY <1>6, <1>9, NoWantOK
  <2> QED
    BY <1>1, <1>10, <2>1, Now, PumpKeeps
<1>11. CASE w.op # "trash" /\ Pump([taken EXCEPT !.wants[p] = again], fetches, commits)
  <2>1. ~IsTrash(again)
    BY <1>7, <1>11 DEF IsTrash
  <2>2. Legal([taken EXCEPT !.wants[p] = again], fetches, commits)
    BY <1>7, <1>8, <1>9, <2>1
  <2> QED
    BY <1>1, <1>11, <2>2, Now, PumpKeeps
<1> QED
  BY <1>1, <1>10, <1>11

-----------------------------------------------------------------------------
(* An event that changes many wants, and none that is at its commit.          *)

\* v can follow w at p.
Follows(p, w, v) ==
    /\ v \in Wants \cup {NoWant} /\ WantOK(p, v)
    /\ IsTrash(v) => IsTrash(w)
    /\ v.state = "committing" <=> w.state = "committing"
    /\ v.state = "committing" => v.version = w.version /\ (IsTrash(w) => IsTrash(v))

LEMMA SameFollows ==
  ASSUME IInv, NEW p \in Path
  PROVE  Follows(p, engine.wants[p], engine.wants[p])
  BY Now DEF Follows

\* Only wants that follow those there were, and how peers are reached.
Allows(f, wants) ==
    /\ f \in Engines /\ f.wants = wants /\ f.released = engine.released
    /\ f.asks = engine.asks /\ f.jobs = engine.jobs

LEMMA FollowsLegal ==
  ASSUME IInv, NEW wants, \A p \in Path : Follows(p, engine.wants[p], wants[p]),
         NEW f, Allows(f, wants)
  PROVE  Legal(f, fetches, commits)
<1>1. EngineOK(f)
  BY Now DEF EngineOK, Follows, Allows
<1>2. Like(engine, f)
  BY DEF Like, Follows, Allows
<1>3. f.asks = {} /\ f.jobs = <<>>
  BY DEF IInv, Allows
<1> QED
  BY <1>1, <1>2, <1>3, SameLegal

LEMMA OneLegal ==
  ASSUME IInv, NEW p \in Path, NEW v, Follows(p, engine.wants[p], v)
  PROVE  Legal([engine EXCEPT !.wants[p] = v], fetches, commits)
<1> DEFINE wants == [engine.wants EXCEPT ![p] = v]
           f == [engine EXCEPT !.wants[p] = v]
<1>1. \A q \in Path : Follows(q, engine.wants[q], wants[q])
  BY Now, SameFollows
<1>2. wants \in [Path -> Wants \cup {NoWant}]
  BY Now DEF Follows
<1>3. Allows(f, wants)
  BY <1>2, Now DEF Engines, Allows
<1> HIDE DEF wants, f
<1>4. Legal(f, fetches, commits)
  BY <1>1, <1>3, FollowsLegal
<1> QED
  BY <1>4 DEF f

\* The want at p leaves the state it is in, to be fetched or committed again.
LEMMA WantedAgain ==
  ASSUME IInv, NEW p \in Path,
         engine.wants[p].state \in {"fetching", "local retry", "collides", "holds ignored"},
         Turn(In(engine, p, "wanted", 0))
  PROVE  IInv'
<1> DEFINE f == In(engine, p, "wanted", 0)
<1>1. engine.wants[p] \in Wants
  BY Now, WantIs DEF Wanted
<1>2. "wanted" \in States \ {"gave up"} /\ 0 \in OnFor(p, "wanted")
  BY DEF States, OnFor
<1>3. Puts(engine, f, p, "wanted", 0)
  BY <1>1, <1>2, Now, InOK
<1> HIDE DEF f
<1>4. EngineOK(f) /\ Alike(engine, f) /\ f.asks = {} /\ f.jobs = <<>>
  BY <1>3 DEF Puts, SameBut, IInv
<1>5. Legal(f, fetches, commits)
  BY <1>4, AlikeIsLike, SameLegal
<1> QED
  BY <1>5, TurnKeeps DEF f

-----------------------------------------------------------------------------
(* Batches and reverts.                                                       *)

LEMMA InsertFollows ==
  ASSUME IInv, NEW p \in Path, NEW op \in Ops \ {"trash"}, NEW version \in 1..MaxVersion,
         NEW sources \in SUBSET Peer
  PROVE  Follows(p, engine.wants[p], Insert(engine.wants[p], Want(op, version, sources, FALSE)))
<1> DEFINE w == engine.wants[p]
           new == Want(op, version, sources, FALSE)
           restoring == Wanted(w) /\ w.restoring
           v == [new EXCEPT !.restoring = restoring]
<1>1. CASE Committing(w)
  BY <1>1, SameFollows DEF Insert
<1>2. CASE ~Committing(w)
  <2>1. Insert(w, new) = v
    BY <1>2 DEF Insert
  <2>2. IsNew(p, new, op, version)
    BY NewWant
  <2>3. new \in Wants /\ WantOK(p, new) /\ new.state = "wanted" /\ new.op = op /\ new.on = 0
    BY <2>2 DEF IsNew
  <2>4. w.state # "committing"
    BY <1>2 DEF Committing
  <2>5. restoring \in BOOLEAN
    OBVIOUS
  <2> HIDE DEF new, restoring, w
  <2>6. v \in Wants /\ v.state = "wanted" /\ v.op = op /\ v.on = 0 /\ v.excluded = new.excluded
    BY <2>3, <2>5 DEF Wants
  <2> HIDE DEF v
  <2>7. WantOK(p, v)
    BY <2>3, <2>6, AtRest DEF Rests, States
  <2>8. ~IsTrash(v)
    BY <2>6 DEF IsTrash
  <2>9. Follows(p, w, v)
    BY <2>4, <2>6, <2>7, <2>8 DEF Follows
  <2> QED
    BY <2>1, <2>9 DEF w, new
<1> QED
  BY <1>1, <1>2

LEMMA ReceiveKeeps ==
  ASSUME IInv, NEW b \in Batches, NEW sources \in Sources, Receive(b, sources)
  PROVE  IInv'
<1> DEFINE next == [p \in Path |-> latest[p] + (IF p \in DOMAIN b THEN 1 ELSE 0)]
           wants == [p \in Path |-> IF p \notin DOMAIN b THEN engine.wants[p]
                     ELSE Insert(engine.wants[p], Want(b[p], next[p], sources, FALSE))]
           f == [engine EXCEPT !.wants = wants]
<1>1. /\ \A p \in DOMAIN b : next[p] <= MaxVersion
      /\ latest' = next /\ Pump(f, fetches, commits)
  BY DEF Receive
<1>2. /\ DOMAIN b \subseteq Path /\ \A p \in DOMAIN b : b[p] \in Ops \ {"trash"}
      /\ sources \in SUBSET Peer /\ MaxVersion \in Nat
  BY WantsAssumption
<1>3. \A p \in Path : /\ next[p] \in 0..MaxVersion
                      /\ p \in DOMAIN b => next[p] \in 1..MaxVersion
  <2>1. ASSUME NEW p \in Path
        PROVE  /\ next[p] \in 0..MaxVersion
               /\ p \in DOMAIN b => next[p] \in 1..MaxVersion
    <3>1. latest[p] \in 0..MaxVersion
      BY Now
    <3> QED
      BY <1>1, <1>2, <3>1
  <2> QED
    BY <2>1
<1>4. next \in [Path -> 0..MaxVersion]
  BY <1>3
<1> HIDE DEF next
<1>5. ASSUME NEW p \in Path PROVE Follows(p, engine.wants[p], wants[p])
  <2>1. CASE p \notin DOMAIN b
    BY <2>1, SameFollows
  <2>2. CASE p \in DOMAIN b
    BY <1>2, <1>3, <2>2, InsertFollows
  <2> QED
    BY <2>1, <2>2
<1>6. wants \in [Path -> Wants \cup {NoWant}]
  <2>1. wants = [p \in Path |-> wants[p]]
    OBVIOUS
  <2> HIDE DEF wants
  <2> QED
    BY <1>5, <2>1 DEF Follows
<1> HIDE DEF wants
<1>7. Allows(f, wants)
  BY <1>6, Now, WithWants DEF SameBut, Allows
<1>8. Legal(f, fetches, commits)
  BY <1>5, <1>7, FollowsLegal
<1> QED
  BY <1>1, <1>4, <1>8, PumpKeeps

LEMMA RevertKeeps ==
  ASSUME IInv, NEW r \in Reverts, Revert(r)
  PROVE  IInv'
<1> DEFINE trash == {p \in DOMAIN r : r[p] = "trash"}
           next  == [p \in Path |-> latest[p] + (IF p \in DOMAIN r THEN 1 ELSE 0)]
           live  == (engine.live \ trash) \cup (DOMAIN r \ trash)
           kept  == {d \in trash : \E p \in live : d \in Above[p]}
           wants == [p \in Path |->
                        IF p \notin DOMAIN r THEN engine.wants[p]
                        ELSE IF p \in kept THEN NoWant
                        ELSE IF p \in trash THEN Want("trash", next[p], {}, FALSE)
                        ELSE Want(r[p], next[p], Peer, TRUE)]
           f == [engine EXCEPT !.live = live \cup kept, !.window = kept # {}, !.wants = wants]
<1>1. /\ \A p \in Path : ~Committing(engine.wants[p]) /\ engine.released[p] = 0
      /\ \A p \in DOMAIN r : next[p] <= MaxVersion
      /\ latest' = next /\ Pump(f, fetches, commits)
  BY DEF Revert
<1>2. /\ DOMAIN r \subseteq Path /\ \A p \in DOMAIN r : r[p] \in Ops
      /\ Peer \in SUBSET Peer /\ {} \in SUBSET Peer /\ MaxVersion \in Nat /\ "trash" \in Ops
  <2>1. {"trash", "dir", "file"} \subseteq Ops
    BY DEF Ops
  <2> QED
    BY <2>1, WantsAssumption
<1>3. \A p \in Path : /\ next[p] \in 0..MaxVersion
                      /\ p \in DOMAIN r => next[p] \in 1..MaxVersion
  <2>1. ASSUME NEW p \in Path
        PROVE  /\ next[p] \in 0..MaxVersion
               /\ p \in DOMAIN r => next[p] \in 1..MaxVersion
    <3>1. latest[p] \in 0..MaxVersion
      BY Now
    <3> QED
      BY <1>1, <1>2, <3>1
  <2> QED
    BY <2>1
<1>4. next \in [Path -> 0..MaxVersion]
  BY <1>3
<1>5. /\ kept \subseteq trash /\ trash \subseteq DOMAIN r
      /\ live \subseteq Path /\ (kept # {}) \in BOOLEAN
  BY <1>2, Now DEF Engines
<1> HIDE DEF next, live
<1>6. \A p \in Path : /\ wants[p] \in Wants \cup {NoWant} /\ WantOK(p, wants[p])
                      /\ wants[p].state # "committing"
  <2>1. ASSUME NEW p \in Path
        PROVE  /\ wants[p] \in Wants \cup {NoWant} /\ WantOK(p, wants[p])
               /\ wants[p].state # "committing"
    <3>1. CASE p \notin DOMAIN r
      BY <1>1, <3>1, Now DEF Committing
    <3>2. CASE p \in DOMAIN r /\ p \in kept
      BY <3>2, NoWantOK
    <3>3. CASE p \in DOMAIN r /\ p \notin kept /\ p \in trash
      <4>1. wants[p] = Want("trash", next[p], {}, FALSE)
        BY <3>3
      <4> HIDE DEF wants
      <4>2. "trash" \in Ops /\ next[p] \in 1..MaxVersion
        BY <1>2, <1>3, <3>3
      <4>3. IsNew(p, Want("trash", next[p], {}, FALSE), "trash", next[p])
        BY <1>2, <4>2, NewWant
      <4> QED
        BY <4>1, <4>3 DEF IsNew
    <3>4. CASE p \in DOMAIN r /\ p \notin kept /\ p \notin trash
      <4>1. wants[p] = Want(r[p], next[p], Peer, TRUE)
        BY <3>4
      <4> HIDE DEF wants
      <4>2. r[p] \in Ops /\ next[p] \in 1..MaxVersion
        BY <1>2, <1>3, <3>4
      <4>3. IsNew(p, Want(r[p], next[p], Peer, TRUE), r[p], next[p])
        BY <1>2, <4>2, NewWant
      <4> QED
        BY <4>1, <4>3 DEF IsNew
    <3> QED
      BY <3>1, <3>2, <3>3, <3>4
  <2> QED
    BY <2>1
<1>7. wants \in [Path -> Wants \cup {NoWant}]
  BY <1>6
<1> HIDE DEF wants, kept, trash
<1>8. /\ f \in Engines /\ f.wants = wants /\ f.released = engine.released
      /\ f.asks = {} /\ f.jobs = <<>>
  <2>1. live \cup kept \subseteq Path
    BY <1>2, <1>5
  <2> QED
    BY <1>5, <1>7, <2>1, Now DEF Engines, IInv
<1> HIDE DEF f
<1>9. EngineOK(f)
  BY <1>6, <1>8 DEF EngineOK
<1>10. commits = <<>>
  <2>1. ASSUME NEW i \in 1..Len(commits) PROVE FALSE
    <3>1. commits[i].path \in Path /\ commits[i].version \in 1..MaxVersion /\ commits[i].version # 0
      BY Now, PathsOf, WantsAssumption
    <3> QED
      BY <1>1, <3>1 DEF IInv, Matches, Committing
  <2>2. commits \in Seq(Jobs)
    BY Now
  <2>3. Len(commits) = 0
    BY <2>1, <2>2
  <2> QED
    BY <2>2, <2>3
<1>11. Matches(f, commits)
  BY <1>1, <1>6, <1>8, <1>10, MatchesNone
<1>12. Legal(f, fetches, commits)
  BY <1>8, <1>9, <1>11 DEF Legal, IInv
<1> QED
  BY <1>1, <1>4, <1>12, PumpKeeps DEF f

-----------------------------------------------------------------------------
(* Sources, deadlines, peers, the disk, restarts.                             *)

LEMMA LiftFollows ==
  ASSUME NEW p \in Path, NEW w \in Wants, NEW u \in Wants, WantOK(p, u),
         u.op = w.op, u.version = w.version, u.state = w.state, NEW peers
  PROVE  Follows(p, w, Lift(u, peers))
<1> DEFINE v == Lift(u, peers)
<1>1. /\ v \in Wants /\ WantOK(p, v) /\ v.op = u.op /\ v.version = u.version
      /\ v.state = "committing" <=> u.state = "committing"
  BY LiftOK
<1> HIDE DEF v
<1>2. Follows(p, w, v)
  BY <1>1, NoWantOK DEF Follows, IsTrash
<1> QED
  BY <1>2 DEF v

\* Members refuse the want or offer it, and it stays as it is.
LEMMA SourcesOK ==
  ASSUME NEW p \in Path, NEW w \in Wants, WantOK(p, w), NEW v \in Wants,
         v.op = w.op, v.version = w.version, v.state = w.state, v.on = w.on,
         v.excluded = w.excluded, v.fetched = w.fetched
  PROVE  WantOK(p, v)
<1>1. w.on \in OnFor(p, w.state)
  BY WantOnFor
<1>2. /\ w.state = "gave up" <=> Cardinality(w.excluded) >= 2
      /\ w.state = "blocked" => ~NeedsFetch(w)
  BY NoWantOK DEF WantOK
<1> QED
  BY <1>1, <1>2 DEF WantOK, OnFor, NeedsFetch

LEMMA AnnouncedKeeps ==
  ASSUME IInv, NEW p \in Path, NEW q \in Peer, Announced(p, q)
  PROVE  IInv'
<1> DEFINE w == engine.wants[p]
           known == [w EXCEPT !.sources = @ \cup {q}, !.refused = @ \ {q}]
           f == [engine EXCEPT !.wants[p] = Lift(known, Peer)]
<1>1. Wanted(w) /\ Pump(f, fetches, commits) /\ UNCHANGED latest
  BY DEF Announced
<1>2. w \in Wants /\ WantOK(p, w)
  BY <1>1, Now, WantIs
<1> HIDE DEF w
<1>3. /\ known \in Wants /\ known.op = w.op /\ known.version = w.version
      /\ known.state = w.state /\ known.on = w.on
      /\ known.excluded = w.excluded /\ known.fetched = w.fetched
  BY <1>2 DEF Wants
<1> HIDE DEF known
<1>4. WantOK(p, known)
  BY <1>2, <1>3, SourcesOK
<1>5. Follows(p, w, Lift(known, Peer))
  BY <1>2, <1>3, <1>4, LiftFollows
<1>6. Legal(f, fetches, commits)
  BY <1>5, OneLegal DEF w
<1> QED
  BY <1>1, <1>6, Now, PumpKeeps

LEMMA TickKeeps ==
  ASSUME IInv, Tick
  PROVE  IInv'
<1> DEFINE f == [engine EXCEPT !.window = FALSE]
<1>1. Allows(f, engine.wants)
  BY Now DEF Engines, Allows
<1> HIDE DEF f
<1>2. Legal(f, fetches, commits)
  BY <1>1, SameFollows, FollowsLegal
<1> QED
  BY <1>2, TurnKeeps DEF Tick, f

LEMMA StallKeeps ==
  ASSUME IInv, NEW p \in Path, Stall(p)
  PROVE  IInv'
  BY WantedAgain DEF Stall

LEMMA RetryEndsKeeps ==
  ASSUME IInv, NEW p \in Path, RetryEnds(p)
  PROVE  IInv'
  BY WantedAgain DEF RetryEnds

LEMMA ReevaluatedKeeps ==
  ASSUME IInv, NEW p \in Path, Reevaluated(p)
  PROVE  IInv'
  BY WantedAgain DEF Reevaluated

LEMMA ExclusionEndsKeeps ==
  ASSUME IInv, NEW p \in Path, NEW q \in Peer, ExclusionEnds(p, q)
  PROVE  IInv'
<1> DEFINE w == engine.wants[p]
           f == [engine EXCEPT !.wants[p] = Lift(w, {q})]
<1>1. Wanted(w) /\ Turn(f)
  BY DEF ExclusionEnds
<1>2. w \in Wants /\ WantOK(p, w)
  BY <1>1, Now, WantIs
<1> HIDE DEF w
<1>3. Follows(p, w, Lift(w, {q}))
  BY <1>2, LiftFollows
<1>4. Legal(f, fetches, commits)
  BY <1>3, OneLegal DEF w
<1> QED
  BY <1>1, <1>4, TurnKeeps

LEMMA RefusalEndsKeeps ==
  ASSUME IInv, NEW p \in Path, NEW q \in Peer, RefusalEnds(p, q)
  PROVE  IInv'
<1> DEFINE w == engine.wants[p]
           v == [w EXCEPT !.refused = @ \ {q}]
           f == [engine EXCEPT !.wants[p].refused = @ \ {q}]
<1>1. Wanted(w) /\ Turn(f)
  BY DEF RefusalEnds
<1>2. w \in Wants /\ WantOK(p, w)
  BY <1>1, Now, WantIs
<1>3. f = [engine EXCEPT !.wants[p] = v]
  BY Now DEF Engines
<1> HIDE DEF w, f
<1>4. /\ v \in Wants /\ v.op = w.op /\ v.version = w.version /\ v.state = w.state
      /\ v.on = w.on /\ v.excluded = w.excluded /\ v.fetched = w.fetched
  BY <1>2 DEF Wants
<1> HIDE DEF v
<1>5. Follows(p, w, v)
  BY <1>2, <1>4, SourcesOK, NoWantOK DEF Follows, IsTrash
<1>6. Legal(f, fetches, commits)
  BY <1>3, <1>5, OneLegal DEF w
<1> QED
  BY <1>1, <1>6, TurnKeeps

LEMMA ConnectedKeeps ==
  ASSUME IInv, NEW q \in Peer, Connected(q)
  PROVE  IInv'
<1> DEFINE back == [engine EXCEPT !.tiers[q] = "lan"]
           Back(w) == IF Wanted(w) /\ q \in w.excluded THEN Lift(w, {q}) ELSE w
           wants == [p \in Path |-> Back(engine.wants[p])]
           f == [back EXCEPT !.wants = wants]
<1>1. Turn(IF engine.tiers[q] = "relay" THEN back ELSE f)
  <2>1. back.wants = engine.wants
    BY Now DEF Engines
  <2>2. f = [back EXCEPT !.wants = [p \in Path |-> Back(@[p])]]
    BY <2>1
  <2> QED
    BY <2>2 DEF Connected
<1>2. Allows(back, engine.wants)
  BY Now DEF Engines, Allows, Tiers
<1>3. ASSUME NEW p \in Path PROVE Follows(p, engine.wants[p], wants[p])
  <2> DEFINE w == engine.wants[p]
  <2>1. CASE Wanted(w) /\ q \in w.excluded
    <3>1. wants[p] = Lift(w, {q})
      BY <2>1
    <3>2. w \in Wants /\ WantOK(p, w)
      BY <2>1, Now, WantIs
    <3> HIDE DEF w
    <3> QED
      BY <3>1, <3>2, LiftFollows DEF w
  <2>2. CASE ~(Wanted(w) /\ q \in w.excluded)
    BY <2>2, SameFollows
  <2> QED
    BY <2>1, <2>2
<1>4. wants \in [Path -> Wants \cup {NoWant}]
  <2>1. wants = [p \in Path |-> wants[p]]
    OBVIOUS
  <2> HIDE DEF wants
  <2> QED
    BY <1>3, <2>1 DEF Follows
<1> HIDE DEF wants, back
<1>5. Allows(f, wants)
  BY <1>2, <1>4, WithWants DEF Allows, SameBut
<1>6. Legal(back, fetches, commits) /\ Legal(f, fetches, commits)
  BY <1>2, <1>3, <1>5, SameFollows, FollowsLegal
<1> HIDE DEF f
<1> QED
  BY <1>1, <1>6, TurnKeeps

LEMMA RelayedKeeps ==
  ASSUME IInv, NEW q \in Peer, Relayed(q)
  PROVE  IInv'
<1> DEFINE f == [engine EXCEPT !.tiers[q] = "relay"]
<1>1. Allows(f, engine.wants)
  BY Now DEF Engines, Allows, Tiers
<1> HIDE DEF f
<1>2. Legal(f, fetches, commits)
  BY <1>1, SameFollows, FollowsLegal
<1> QED
  BY <1>2, TurnKeeps DEF Relayed, f

\* A want that is neither at its commit nor given up is wanted again.
LEMMA FreedFollows ==
  ASSUME IInv, NEW p \in Path, NEW v,
         LET w == engine.wants[p]
         IN /\ w.state \in {"fetching", "disk full"}
            /\ \/ v = [w EXCEPT !.state = "wanted", !.on = 0]
               \/ w.state = "disk full" /\ v = [w EXCEPT !.state = "wanted"]
  PROVE  Follows(p, engine.wants[p], v)
<1> DEFINE w == engine.wants[p]
<1>1. w \in Wants /\ WantOK(p, w) /\ w.state \in {"fetching", "disk full"}
  BY Now, WantIs DEF Wanted
<1> HIDE DEF w
<1>2. /\ v \in Wants /\ v.state = "wanted" /\ v.on = 0 /\ v.op = w.op
      /\ v.version = w.version /\ v.excluded = w.excluded
  <2>1. w.state = "disk full" => w.on = 0
    BY <1>1, WantOnFor
  <2> QED
    BY <1>1, <2>1 DEF Wants, w
<1>3. WantOK(p, v)
  BY <1>1, <1>2, AtRest DEF Rests, States
<1>4. Follows(p, w, v)
  BY <1>1, <1>2, <1>3, NoWantOK DEF Follows, IsTrash
<1> QED
  BY <1>4 DEF w

LEMMA PeerGoneKeeps ==
  ASSUME IInv, NEW q \in Peer, PeerGone(q)
  PROVE  IInv'
<1> DEFINE over == Fetching(engine, {q})
           Freed(w) == [w EXCEPT !.state = "wanted", !.on = 0]
           wants == [p \in Path |-> IF p \in over THEN Freed(engine.wants[p]) ELSE engine.wants[p]]
           f == [engine EXCEPT !.tiers[q] = "away", !.wants = wants]
<1>1. Turn(f)
  BY DEF PeerGone
<1>2. ASSUME NEW p \in Path PROVE Follows(p, engine.wants[p], wants[p])
  <2>1. CASE p \in over
    <3>1. engine.wants[p].state = "fetching"
      BY <2>1 DEF Fetching
    <3>2. wants[p] = [engine.wants[p] EXCEPT !.state = "wanted", !.on = 0]
      BY <2>1
    <3> HIDE DEF wants
    <3> QED
      BY <3>1, <3>2, FreedFollows
  <2>2. CASE p \notin over
    BY <2>2, SameFollows
  <2> QED
    BY <2>1, <2>2
<1>3. wants \in [Path -> Wants \cup {NoWant}]
  <2>1. wants = [p \in Path |-> wants[p]]
    OBVIOUS
  <2> HIDE DEF wants
  <2> QED
    BY <1>2, <2>1 DEF Follows
<1> HIDE DEF wants
<1>4. Allows(f, wants)
  BY <1>3, Now DEF Engines, Allows, Tiers
<1> HIDE DEF f
<1>5. Legal(f, fetches, commits)
  BY <1>2, <1>4, FollowsLegal
<1> QED
  BY <1>1, <1>5, TurnKeeps

LEMMA SpaceRecoveredKeeps ==
  ASSUME IInv, SpaceRecovered
  PROVE  IInv'
<1> DEFINE wants == [p \in Path |-> IF engine.wants[p].state = "disk full"
                                    THEN [engine.wants[p] EXCEPT !.state = "wanted"]
                                    ELSE engine.wants[p]]
           f == [engine EXCEPT !.diskFull = FALSE, !.wants = wants]
<1>1. Turn(f)
  BY DEF SpaceRecovered
<1>2. ASSUME NEW p \in Path PROVE Follows(p, engine.wants[p], wants[p])
  <2>1. CASE engine.wants[p].state = "disk full"
    <3>1. wants[p] = [engine.wants[p] EXCEPT !.state = "wanted"]
      BY <2>1
    <3> HIDE DEF wants
    <3> QED
      BY <2>1, <3>1, FreedFollows
  <2>2. CASE engine.wants[p].state # "disk full"
    BY <2>2, SameFollows
  <2> QED
    BY <2>1, <2>2
<1>3. wants \in [Path -> Wants \cup {NoWant}]
  <2>1. wants = [p \in Path |-> wants[p]]
    OBVIOUS
  <2> HIDE DEF wants
  <2> QED
    BY <1>2, <2>1 DEF Follows
<1> HIDE DEF wants
<1>4. Allows(f, wants)
  BY <1>3, Now DEF Engines, Allows
<1> HIDE DEF f
<1>5. Legal(f, fetches, commits)
  BY <1>2, <1>4, FollowsLegal
<1> QED
  BY <1>1, <1>5, TurnKeeps

\* What a restart makes of a want at p.
Restarts(p, v) == v \in Wants /\ WantOK(p, v) /\ v.state # "committing"

LEMMA RestartedOK ==
  ASSUME NEW p \in Path, NEW w \in Wants, WantOK(p, w)
  PROVE  Restarts(p, Restarted(w))
<1> DEFINE state == IF w.state \in {"fetching", "committing", "blocked"} THEN "wanted" ELSE w.state
           on == IF w.state = "fetching" THEN 0 ELSE w.on
           v == Restarted(w)
<1>1. w.on \in OnFor(p, w.state) /\ w.state \in States
  BY WantOnFor, NoWantOK
<1>2. w.state = "gave up" <=> Cardinality(w.excluded) >= 2
  BY NoWantOK DEF WantOK
<1>3. /\ state \in States \ {"fetching", "committing", "blocked"}
      /\ state = "gave up" <=> w.state = "gave up"
  BY <1>1 DEF States
<1>4. on \in OnFor(p, state) /\ on \in {0} \cup Peer \cup Path
  <2>1. CASE w.state \in {"fetching", "committing", "blocked"}
    BY <1>1, <2>1 DEF OnFor
  <2>2. CASE w.state \notin {"fetching", "committing", "blocked"}
    BY <1>1, <2>2, OnForIs
  <2> QED
    BY <2>1, <2>2
<1>5. v = [w EXCEPT !.fetched = FALSE, !.state = state, !.on = on]
  BY DEF Restarted
<1> HIDE DEF state, on, v
<1>6. v \in Wants /\ v.state = state /\ v.on = on /\ v.excluded = w.excluded
  BY <1>3, <1>4, <1>5 DEF Wants, States
<1>7. WantOK(p, v)
  BY <1>2, <1>3, <1>4, <1>6 DEF WantOK, OnFor
<1> QED
  BY <1>3, <1>6, <1>7 DEF Restarts, v

LEMMA RestartKeeps ==
  ASSUME IInv, Restart
  PROVE  IInv'
<1> DEFINE wants == [p \in Path |-> IF Wanted(engine.wants[p]) THEN Restarted(engine.wants[p])
                                                              ELSE engine.wants[p]]
           released == [p \in Path |-> 0]
           tiers == [q \in Peer |-> "away"]
           f == [engine EXCEPT !.wants = wants, !.released = released, !.tiers = tiers]
<1>1. Pump(f, EmptyBag, <<>>) /\ UNCHANGED latest
  BY DEF Restart
<1>2. ASSUME NEW p \in Path
      PROVE  /\ wants[p] \in Wants \cup {NoWant} /\ WantOK(p, wants[p])
             /\ wants[p].state # "committing"
  <2>1. CASE ~Wanted(engine.wants[p])
    BY <2>1, Now, WantIs, NoWantOK
  <2>2. CASE Wanted(engine.wants[p])
    <3>1. engine.wants[p] \in Wants /\ WantOK(p, engine.wants[p])
      BY <2>2, Now, WantIs
    <3>2. wants[p] = Restarted(engine.wants[p])
      BY <2>2
    <3>3. Restarts(p, Restarted(engine.wants[p]))
      BY <3>1, RestartedOK
    <3> HIDE DEF wants
    <3> QED
      BY <3>2, <3>3 DEF Restarts
  <2> QED
    BY <2>1, <2>2
<1>3. wants \in [Path -> Wants \cup {NoWant}]
  <2>1. wants = [p \in Path |-> wants[p]]
    OBVIOUS
  <2> HIDE DEF wants
  <2> QED
    BY <1>2, <2>1
<1> HIDE DEF wants
<1>4. /\ f \in Engines /\ f.wants = wants /\ f.released = released
      /\ f.asks = {} /\ f.jobs = <<>>
  <2>1. released \in [Path -> 0..MaxVersion] /\ tiers \in [Peer -> Tiers]
    BY WantsAssumption DEF Tiers
  <2> HIDE DEF released, tiers
  <2> QED
    BY <1>3, <2>1, Now DEF Engines, IInv
<1> HIDE DEF f
<1>5. EngineOK(f)
  BY <1>2, <1>4 DEF EngineOK
<1>6. Matches(f, <<>>)
  BY <1>2, <1>4, MatchesNone
<1>7. IsABag(EmptyBag) /\ BagToSet(EmptyBag) = {}
  BY DEF EmptyBag, SetToBag, IsABag, BagToSet
<1>8. Legal(f, EmptyBag, <<>>)
  BY <1>4, <1>5, <1>6, <1>7 DEF Legal
<1> QED
  BY <1>1, <1>8, Now, PumpKeeps DEF f

-----------------------------------------------------------------------------
(* The invariant.                                                             *)

LEMMA InitHolds ==
  ASSUME Init
  PROVE  IInv
<1>1. PICK live \in Initial :
         engine = [wants |-> [p \in Path |-> NoWant], released |-> [p \in Path |-> 0],
                   live |-> live, tiers |-> [q \in Peer |-> "lan"], diskFull |-> FALSE,
                   window |-> FALSE, asks |-> {}, jobs |-> <<>>]
  BY DEF Init
<1>2. 0 \in 0..MaxVersion /\ live \in SUBSET Path /\ {} \in SUBSET Asks /\ <<>> \in Seq(Jobs)
  BY WantsAssumption
<1>3. engine \in Engines
  BY <1>1, <1>2 DEF Engines, Tiers
<1>4. \A p \in Path : engine.wants[p] = NoWant /\ engine.released[p] = 0
  BY <1>1
<1>5. EngineOK(engine) /\ engine.asks = {} /\ engine.jobs = <<>>
  BY <1>1, <1>3, <1>4, NoWantOK DEF EngineOK
<1>6. Matches(engine, commits)
  <2>1. commits = <<>>
    BY DEF Init
  <2> QED
    BY <1>4, <2>1, NoWantOK, MatchesNone
<1>7. IsABag(fetches) /\ BagToSet(fetches) \subseteq Asks
  BY DEF Init, EmptyBag, SetToBag, IsABag, BagToSet
<1>8. latest \in [Path -> 0..MaxVersion]
  BY <1>2 DEF Init
<1>9. NeverHeldBehind
  BY <1>4, NoWantOK DEF NeverHeldBehind
<1> QED
  BY <1>5, <1>6, <1>7, <1>8, <1>9 DEF IInv

LEMMA StepHolds ==
  ASSUME IInv, [Next]_vars
  PROVE  IInv'
<1>1. CASE \E b \in Batches, sources \in Sources : Receive(b, sources)
  BY <1>1, ReceiveKeeps
<1>2. CASE \E r \in Reverts : Revert(r)
  BY <1>2, RevertKeeps
<1>3. CASE \E f \in BagToSet(fetches) : FetchReported(f)
  <2>1. PICK f \in BagToSet(fetches) : FetchReported(f)
    BY <1>3
  <2> QED
    BY <2>1, LateKeeps, FetchedKeeps, NotAvailableKeeps, MismatchKeeps, FetchFailsKeeps
    DEF FetchReported
<1>4. CASE ReleasedReported \/ Applied \/ ChangedUnderneath \/ CommitFails
  BY <1>4, ReleasedReportedKeeps, AppliedKeeps, ChangedUnderneathKeeps, CommitFailsKeeps
<1>5. CASE \E p \in Path : Rederive(p) \/ Stall(p) \/ RetryEnds(p) \/ Reevaluated(p)
  BY <1>5, RederiveKeeps, StallKeeps, RetryEndsKeeps, ReevaluatedKeeps
<1>6. CASE \E p \in Path, q \in Peer : Announced(p, q) \/ ExclusionEnds(p, q) \/ RefusalEnds(p, q)
  BY <1>6, AnnouncedKeeps, ExclusionEndsKeeps, RefusalEndsKeeps
<1>7. CASE \E q \in Peer : Connected(q) \/ Relayed(q) \/ PeerGone(q)
  BY <1>7, ConnectedKeeps, RelayedKeeps, PeerGoneKeeps
<1>8. CASE SpaceRecovered \/ Tick \/ Restart
  BY <1>8, SpaceRecoveredKeeps, TickKeeps, RestartKeeps
<1>9. CASE UNCHANGED vars
  BY <1>9 DEF vars, IInv, NeverHeldBehind
<1> QED
  BY <1>1, <1>2, <1>3, <1>4, <1>5, <1>6, <1>7, <1>8, <1>9 DEF Next

\* Whatever is accepted, fails, stalls, disconnects or restarts, the list and
\* the host agree on the commits that are under way, and the next dispatch
\* finds the list in order.
THEOREM Invariance == Spec => []IInv
<1> QED
  BY InitHolds, StepHolds, PTL DEF Spec

LEMMA Typed ==
  ASSUME IInv
  PROVE  TypeOK
<1>1. /\ engine.wants \in [Path -> Wants \cup {NoWant}]
      /\ engine.released \in [Path -> 0..MaxVersion] /\ engine.live \subseteq Path
      /\ engine.tiers \in [Peer -> {"lan", "relay", "away"}]
      /\ {engine.diskFull, engine.window} \subseteq BOOLEAN
  BY Now DEF Engines, Tiers
<1>2. \A p \in Path : LET w == engine.wants[p] IN Wanted(w) =>
          /\ w.on \in CASE w.state = "fetching"    -> Peer
                       [] w.state = "waiting for" -> Path \ {p}
                       [] OTHER                   -> {0}
          /\ w.state = "gave up" <=> Cardinality(w.excluded) >= 2
  BY Now DEF WantOK
<1> QED
  BY <1>1, <1>2 DEF TypeOK, IInv, Matches, Asks, Jobs

\* Every reachable state of the list is of its type: a fetch names a source, a
\* wait names another path, and a want has given up exactly while two sources
\* of wrong content are excluded from it.
THEOREM TypeCorrect == Spec => []TypeOK
<1> QED
  BY Invariance, Typed, PTL

\* No want is held in flight, where the scanner's changes to its path would
\* not be looked at, behind one that may back off for long: the dispatch parks
\* it as waiting for that one.
THEOREM NothingHeldBehind == Spec => []NeverHeldBehind
<1>1. IInv => NeverHeldBehind
  BY DEF IInv
<1> QED
  BY <1>1, Invariance, PTL

\* While the host moves a directory to the trash it makes nothing in it: what
\* is to be made there waits for the move, and the move is dropped where
\* something is being made already.
THEOREM TrashStaysEmpty == Spec => []NothingLandsInTrash
<1>1. ASSUME IInv PROVE NothingLandsInTrash
  <2> SUFFICES ASSUME NEW i \in 1..Len(commits), NEW j \in 1..Len(commits),
                      commits[i].op = "trash", ~IsDelete(commits[j]),
                      commits[i].path \in Above[commits[j].path]
               PROVE  FALSE
    BY DEF NothingLandsInTrash
  <2>1. Matches(engine, commits)
    BY <1>1 DEF IInv
  <2>2. IsTrash(engine.wants[commits[i].path])
    BY <2>1 DEF Matches
  <2>3. ~IsTrash(engine.wants[commits[i].path])
    BY <2>1 DEF Matches
  <2> QED
    BY <2>2, <2>3
<1> QED
  BY <1>1, Invariance, PTL

\* The host is never at two commits of one path, and it is at exactly those the
\* list knows of: its own wants that are committing and those a rule took.
THEOREM OneCommit == Spec => []OneCommitPerPath
<1>1. IInv => OneCommitPerPath
  BY DEF IInv, Matches, OneCommitPerPath
<1> QED
  BY <1>1, Invariance, PTL
=============================================================================
