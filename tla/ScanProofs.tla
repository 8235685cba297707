------------------------------ MODULE ScanProofs ------------------------------
(* Proofs about Scan: what the engine records of a path was there when it was *)
(* looked at, and was whole; its bracket is the scan's; it is never known     *)
(* from an older look, and a commit is never taken for the user, but where a  *)
(* look was dated after it was done.  For any contents, lengths of queues and *)
(* numbers of looks, edits and commits.                                       *)
EXTENDS Scan, FiniteSetTheorems, SequenceTheorems, WellFoundedInduction, TLAPS

Founds  == {"none", "absent", "unchanged", "observed", "hash", "skipped"}
News == {"seen", "ok", "failed"}
Kinds   == News \cup {"started"} \cup Ends
States  == [holds : Maybe, by : {"user", "host"}, calm : BOOLEAN]

Engines == [record : Maybe, seen : Nat, flight : SUBSET Maybe,
            bracket : {"closed", "open", "seen"}, reported : Nat, observed : Nat, written : Nat]
Looks == [pc : {"none", "stated", "hashing", "ready"}, found : Founds, saw : Nat, at : Nat,
          compared : Maybe]
Msgs  == [kind : Kinds, found : Founds, saw : Nat, at : Nat, compared : Maybe]
Jobs  == [job : {"record", "commit"}, expected : Maybe, leaves : Maybe]

Typed ==
    /\ disk \in Seq(States) /\ disk # <<>>
    /\ engine \in Engines /\ engine.seen \in DOMAIN disk
    /\ \A b, c \in engine.flight : b = c
    /\ copy \in Maybe /\ released \in Seq(Jobs)
    /\ commit \in [pc : {"none", "placing", "landed", "failed"}, expected : Maybe, leaves : Maybe]
    /\ scan \in [pc : {"none", "walking", "walked"}, copy : Maybe, missing : Nat]
    /\ look \in [Observers -> Looks]
    /\ inputs \in Seq(Msgs) /\ Len(inputs) <= MaxInputs
    /\ spent \in [looks : Nat, edits : Nat, commits : Nat, faults : Nat]

\* A thread is at one thing at a time: the executor looks, but for nothing when
\* it is about to tell that a commit landed.
Busy ==
    /\ look["scan"].pc # "none" => scan.pc = "walking" /\ look["scan"].found # "none"
    /\ look["executor"].pc # "none" =>
           IF look["executor"].found = "none" THEN commit.pc = "landed"
           ELSE commit.pc \in {"none", "failed"}

\* What is found was so in the state that was seen, and no state is forgotten.
Found(d, l) ==
    /\ l.saw \in DOMAIN d
    /\ l.found = "absent"    => d[l.saw].holds = None
    /\ l.found = "unchanged" => d[l.saw].holds = l.compared
    /\ l.found \in {"hash", "observed"} => d[l.saw].holds \in Links \/ d[l.saw].calm

Gone(d, saw) == saw # 0 => saw \in DOMAIN d /\ d[saw].holds = None

LookTrue(d, l) ==
    l.pc # "none" => /\ Found(d, l)
                     /\ l.pc = "ready" => l.found # "hash"
                     /\ l.pc = "hashing" => l.found = "hash"
                     /\ l.found = "none" => l.pc = "ready"

MsgTrue(d, m) ==
    /\ m.kind \in {"seen", "failed"} => Found(d, m) /\ m.found \notin {"hash", "none"}
    /\ m.kind = "finished" => Gone(d, m.saw)

LooksTrue ==
    /\ \A o \in Observers : LookTrue(disk, look[o])
    /\ \A i \in DOMAIN inputs : MsgTrue(disk, inputs[i])
    /\ Gone(disk, scan.missing)

CommitJobs == {i \in DOMAIN released : released[i].job = "commit"}
Outcomes   == {i \in DOMAIN inputs : inputs[i].kind \in {"ok", "failed"}}

\* A path that is in flight is so for one commit, on its way, at work or reported.
OneFlight ==
    /\ \A i, j \in CommitJobs : i = j
    /\ \A i, j \in Outcomes : i = j
    /\ commit.pc # "none" => CommitJobs = {} /\ Outcomes = {} /\ engine.flight = {commit.leaves}
    /\ \A i \in CommitJobs : /\ Outcomes = {} /\ engine.flight = {released[i].leaves}
                             /\ released[i].expected # released[i].leaves
    /\ \A i \in Outcomes :
           /\ engine.flight # {}
           /\ inputs[i].kind = "ok" =>
                  inputs[i].saw \in DOMAIN disk /\ engine.flight = {disk[inputs[i].saw].holds}

\* The last that the host did, which left c.
LastDone(i, c) ==
    /\ i \in DOMAIN disk /\ disk[i].by = "host" /\ disk[i].holds = c
    /\ \A j \in DOMAIN disk : disk[j].by = "host" => j <= i

\* What a commit that landed left is the last that the host did, and told of.
Left ==
    commit.pc = "landed" =>
        \E i \in DOMAIN disk : /\ LastDone(i, commit.leaves)
                               /\ look["executor"].pc # "none" => look["executor"].saw = i

\* A scan's first report waits before its last, and the next scan's after that.
Ordered ==
    /\ \A i, j \in DOMAIN inputs :
           /\ inputs[i].kind = "started" /\ inputs[j].kind = "started" => i = j
           /\ inputs[i].kind \in Ends /\ inputs[j].kind \in Ends => i = j
           /\ inputs[i].kind = "started" /\ inputs[j].kind \in Ends => i < j
    /\ Waits(Ends) => scan.pc = "none"
    /\ Waits({"started"}) => scan.pc # "none" \/ Waits(Ends)

\* A scan that saw the path has told of it before it tells that it finished.
ToldBy(n) ==
    \/ engine.bracket = "seen"
    \/ \E j \in 1..n : /\ inputs[j].kind \in News
                       /\ \A k \in DOMAIN inputs : inputs[k].kind = "started" => k < j

Told ==
    /\ scan.pc = "walked" /\ scan.missing = 0 => ToldBy(Len(inputs))
    /\ \A i \in DOMAIN inputs :
           inputs[i].kind = "finished" /\ inputs[i].saw = 0 => ToldBy(i - 1)

Bounded == \E b \in Nat : \A t \in TimesOf(engine, look, inputs) : t <= b

IInv == /\ Typed /\ Bounded /\ Busy /\ LooksTrue /\ OneFlight /\ Left /\ Ordered /\ Told
        /\ BracketIsScan /\ RecordTruthful

-----------------------------------------------------------------------------
(* Times, and the largest of some numbers.                                    *)

LEMMA Greatest ==
  ASSUME NEW S \in SUBSET Nat, S # {}, NEW b \in Nat, \A s \in S : s <= b
  PROVE  Max(S) \in S /\ \A s \in S : s <= Max(S)
<1> DEFINE D == {d \in Nat : b - d \in S}
<1>1. PICK s \in S : TRUE
  OBVIOUS
<1>2. b - s \in D
  BY <1>1
<1>3. PICK d \in D : \A c \in D : ~(<<c, d>> \in OpToRel(<, Nat))
  BY <1>2, NatLessThanWellFounded, WFMin
<1>4. ASSUME NEW c \in D PROVE d <= c
  <2>1. c < d => <<c, d>> \in OpToRel(<, Nat)
    BY DEF OpToRel
  <2>2. c \in Nat /\ d \in Nat /\ ~(c < d)
    BY <1>3, <2>1
  <2> QED
    BY <2>2
<1>5. \A r \in S : b - r \in D
  OBVIOUS
<1>6. b - d \in S /\ \A r \in S : r <= b - d
  BY <1>4, <1>5
<1> QED
  BY <1>6 DEF Max

\* Reports and looks as they are but for their times.
SameBut(m, n) == m.found = n.found /\ m.saw = n.saw /\ m.compared = n.compared
SameMsg(m, n) == m.kind = n.kind /\ SameBut(m, n)

SameLooks(ls) == \A o \in Observers : look'[o].pc = ls[o].pc /\ SameBut(look'[o], ls[o])

SameQueue(q) ==
    /\ Len(inputs') = Len(q)
    /\ \A i \in 1..Len(q) : SameMsg(inputs'[i], q[i])

SameEngine(e) ==
    /\ engine'.record = e.record /\ engine'.seen = e.seen
    /\ engine'.flight = e.flight /\ engine'.bracket = e.bracket

LEMMA TimedSays ==
  ASSUME NEW e \in Engines, NEW ls \in [Observers -> Looks], NEW q \in Seq(Msgs),
         NEW b \in Nat, \A t \in TimesOf(e, ls, q) : t <= b, Timed(e, ls, q)
  PROVE  /\ engine' \in Engines /\ look' \in [Observers -> Looks] /\ inputs' \in Seq(Msgs)
         /\ Bounded' /\ SameEngine(e) /\ SameLooks(ls) /\ SameQueue(q)
<1> DEFINE noted   == Noted(e, ls, q)
           used    == TimesOf(noted, ls, q)
           Rank(t) == Cardinality({u \in used : u < t})
           c       == Cardinality(used)
<1>0. DOMAIN q = 1..Len(q) /\ Len(q) \in Nat /\ \A i \in 1..Len(q) : q[i] \in Msgs
  OBVIOUS
<1>1. /\ noted \in Engines /\ noted.record = e.record /\ noted.seen = e.seen
      /\ noted.flight = e.flight /\ noted.bracket = e.bracket
      /\ {noted.reported, noted.observed, noted.written}
             \subseteq {0, e.reported, e.observed, e.written}
  BY DEF Engines, Noted
<1>2. used \subseteq TimesOf(e, ls, q)
  BY <1>1 DEF TimesOf
<1>3. TimesOf(e, ls, q) \subseteq Nat
  BY <1>0 DEF TimesOf, Engines, Looks, Msgs
<1>4. IsFiniteSet(used) /\ used \in SUBSET Nat
  BY <1>2, <1>3, FS_BoundedSetOfNaturals
<1>5. \A t : Rank(t) \in Nat /\ Rank(t) <= c
  <2> TAKE t
  <2>1. {u \in used : u < t} \in SUBSET used
    OBVIOUS
  <2> HIDE DEF used
  <2> QED
    BY <1>4, <2>1, FS_Subset, FS_CardinalityType
<1>6. c \in Nat
  BY <1>4, FS_CardinalityType
<1>7. /\ engine' = [noted EXCEPT !.reported = Rank(@), !.observed = Rank(@), !.written = Rank(@)]
      /\ look'   = [o \in Observers |-> [ls[o] EXCEPT !.at = Rank(@)]]
      /\ inputs' = [i \in DOMAIN q |-> [q[i] EXCEPT !.at = Rank(@)]]
  BY DEF Timed
<1> HIDE DEF c, Rank, used, noted
<1>8. /\ engine' \in Engines /\ SameEngine(e)
      /\ engine'.reported <= c /\ engine'.observed <= c /\ engine'.written <= c
  BY <1>1, <1>5, <1>7 DEF Engines, SameEngine
<1>9. look' \in [Observers -> Looks] /\ SameLooks(ls) /\ \A o \in Observers : look'[o].at <= c
  BY <1>5, <1>7 DEF Looks, SameLooks, SameBut
<1>10. /\ inputs' \in [1..Len(q) -> Msgs]
       /\ \A i \in 1..Len(q) : SameMsg(inputs'[i], q[i]) /\ inputs'[i].at <= c
  BY <1>0, <1>5, <1>7 DEF Msgs, SameMsg, SameBut
<1>11. inputs' \in Seq(Msgs) /\ Len(inputs') = Len(q)
  BY <1>0, <1>10
<1>12. SameQueue(q)
  BY <1>10, <1>11 DEF SameQueue
<1>13. \A t \in TimesOf(engine, look, inputs)' : t <= c
  BY <1>0, <1>6, <1>8, <1>9, <1>10, <1>11 DEF TimesOf
<1>14. Bounded'
  BY <1>6, <1>13 DEF Bounded
<1> QED
  BY <1>8, <1>9, <1>11, <1>12, <1>14

\* The clock reads more than any time in use.
LEMMA NowSays ==
  ASSUME Typed, Bounded
  PROVE  Now \in Nat /\ \A t \in TimesOf(engine, look, inputs) : t <= Now
<1>1. DOMAIN inputs = 1..Len(inputs) /\ \A i \in 1..Len(inputs) : inputs[i] \in Msgs
  BY DEF Typed
<1>2. TimesOf(engine, look, inputs) \in SUBSET Nat /\ 0 \in TimesOf(engine, look, inputs)
  BY <1>1 DEF TimesOf, Typed, Engines, Looks, Msgs
<1>3. /\ Max(TimesOf(engine, look, inputs)) \in TimesOf(engine, look, inputs)
      /\ \A t \in TimesOf(engine, look, inputs) : t <= Max(TimesOf(engine, look, inputs))
  BY <1>2, Greatest DEF Bounded
<1> QED
  BY <1>2, <1>3 DEF Now

-----------------------------------------------------------------------------
(* The forms of the steps, but for their times.                               *)

\* The queue gets a report, or loses its first.
Adds(m) ==
    /\ Len(inputs') = Len(inputs) + 1
    /\ \A i \in 1..Len(inputs) : SameMsg(inputs'[i], inputs[i])
    /\ SameMsg(inputs'[Len(inputs) + 1], m)

Drops ==
    /\ Len(inputs) > 0 /\ Len(inputs') = Len(inputs) - 1
    /\ \A i \in 1..Len(inputs') : SameMsg(inputs'[i], inputs[i + 1])

\* The parts of Typed and Bounded that Timed is about.
TimedTyped == /\ engine' \in Engines /\ look' \in [Observers -> Looks] /\ inputs' \in Seq(Msgs)
              /\ Len(inputs') <= MaxInputs /\ Bounded'

LEMMA Domains ==
  ASSUME Typed
  PROVE  /\ DOMAIN inputs = 1..Len(inputs) /\ Len(inputs) \in Nat
         /\ \A i \in 1..Len(inputs) : inputs[i] \in Msgs
         /\ DOMAIN disk = 1..Last /\ Last \in Nat \ {0}
         /\ \A i \in 1..Last : disk[i] \in States
         /\ DOMAIN released = 1..Len(released) /\ Len(released) \in Nat
         /\ \A i \in 1..Len(released) : released[i] \in Jobs
BY DEF Typed, Last

LEMMA SendsSays ==
  ASSUME Typed, Bounded, NEW ls \in [Observers -> Looks], NEW m \in Msgs, Sends(ls, m),
         \A o \in Observers : ls[o].at <= Now, m.at <= Now
  PROVE  TimedTyped /\ SameEngine(engine) /\ SameLooks(ls) /\ Adds(m)
<1> DEFINE q == Append(inputs, m)
<1>1. /\ q \in Seq(Msgs) /\ Len(q) = Len(inputs) + 1 /\ q[Len(inputs) + 1] = m
      /\ \A i \in 1..Len(inputs) : q[i] = inputs[i]
      /\ DOMAIN q = 1..Len(inputs) + 1
  BY DEF Typed
<1>2. Timed(engine, ls, q) /\ Len(inputs) < MaxInputs
  BY DEF Sends
<1> HIDE DEF q
<1>3. \A t \in TimesOf(engine, look, inputs) : t <= Now /\ Now \in Nat
  BY NowSays
<1>4. Now \in Nat
  BY NowSays
<1>5. \A t \in TimesOf(engine, ls, q) : t <= Now
  <2>1. /\ 0 <= Now /\ engine.reported <= Now /\ engine.observed <= Now /\ engine.written <= Now
        /\ \A i \in 1..Len(inputs) : inputs[i].at <= Now
    BY <1>3, Domains DEF TimesOf
  <2>2. \A i \in 1..Len(inputs) + 1 : q[i].at <= Now
    BY <1>1, <2>1, Domains
  <2> QED
    BY <1>1, <2>1, <2>2 DEF TimesOf
<1>6. engine \in Engines
  BY DEF Typed
<1>7. /\ engine' \in Engines /\ look' \in [Observers -> Looks] /\ inputs' \in Seq(Msgs)
      /\ Bounded' /\ SameEngine(engine) /\ SameLooks(ls) /\ SameQueue(q)
  BY <1>1, <1>2, <1>4, <1>5, <1>6, TimedSays
<1>8. Len(inputs') = Len(inputs) + 1 /\ Len(inputs') <= MaxInputs
  BY <1>1, <1>2, <1>7, Domains, ScanAssumption DEF SameQueue
<1> QED
  BY <1>1, <1>7, <1>8, Domains DEF SameQueue, Adds, TimedTyped

LEMMA RetimeSays ==
  ASSUME Typed, Bounded, NEW ls \in [Observers -> Looks], Timed(engine, ls, inputs),
         \A o \in Observers : ls[o].at <= Now
  PROVE  TimedTyped /\ SameEngine(engine) /\ SameLooks(ls) /\ SameQueue(inputs)
<1>1. \A t \in TimesOf(engine, look, inputs) : t <= Now
  BY NowSays
<1>2. Now \in Nat
  BY NowSays
<1>3. \A t \in TimesOf(engine, ls, inputs) : t <= Now
  BY <1>1 DEF TimesOf
<1>4. engine \in Engines /\ inputs \in Seq(Msgs) /\ Len(inputs) <= MaxInputs
  BY DEF Typed
<1>5. /\ engine' \in Engines /\ look' \in [Observers -> Looks] /\ inputs' \in Seq(Msgs)
      /\ Bounded' /\ SameEngine(engine) /\ SameLooks(ls) /\ SameQueue(inputs)
  BY <1>2, <1>3, <1>4, TimedSays
<1> QED
  BY <1>4, <1>5 DEF TimedTyped, SameQueue

LEMMA LookTimes ==
  ASSUME Typed, Bounded
  PROVE  /\ Now \in Nat /\ 0 <= Now
         /\ \A o \in Observers : look[o].at <= Now
         /\ \A i \in 1..Len(inputs) : inputs[i].at <= Now
         /\ engine.reported <= Now /\ engine.observed <= Now /\ engine.written <= Now
BY NowSays, Domains DEF TimesOf

\* What is known of the disk is never lost.
Grown(d, e) ==
    /\ DOMAIN d \subseteq DOMAIN e
    /\ \A i \in DOMAIN d : /\ e[i].holds = d[i].holds /\ e[i].by = d[i].by
                           /\ d[i].calm => e[i].calm

LEMMA FoundStays ==
  ASSUME NEW d, NEW e, Grown(d, e), NEW l, NEW m, SameBut(m, l), Found(d, l)
  PROVE  Found(e, m)
BY DEF Grown, SameBut, Found

LEMMA GoneStays ==
  ASSUME NEW d, NEW e, Grown(d, e), NEW saw, Gone(d, saw)
  PROVE  Gone(e, saw)
BY DEF Grown, Gone

LEMMA BecomesSays ==
  ASSUME Typed, NEW holds \in Maybe, NEW by \in {"user", "host"}, Becomes(holds, by)
  PROVE  /\ disk' \in Seq(States) /\ disk' # <<>> /\ Grown(disk, disk') /\ Last' = Last + 1
         /\ DOMAIN disk' = 1..Last + 1
         /\ \A i \in 1..Last : disk'[i] = disk[i]
         /\ disk'[Last + 1] = State(holds, by)
<1>1. State(holds, by) \in States
  BY DEF State, States
<1>2. disk \in Seq(States)
  BY DEF Typed
<1>3. disk' = Append(disk, State(holds, by))
  BY DEF Becomes
<1> DEFINE s == State(holds, by)
<1> HIDE DEF s
<1>4. /\ disk' \in Seq(States) /\ Len(disk') = Len(disk) + 1 /\ disk'[Len(disk) + 1] = s
      /\ \A i \in 1..Len(disk) : disk'[i] = disk[i]
      /\ DOMAIN disk' = 1..Len(disk) + 1 /\ DOMAIN disk = 1..Len(disk) /\ Len(disk) \in Nat
  BY <1>1, <1>2, <1>3 DEF s
<1> QED
  BY <1>4 DEF s, Grown, Last

LEMMA GrownSame == ASSUME disk' = disk PROVE Grown(disk, disk')
BY DEF Grown

LEMMA CalmSays ==
  ASSUME Typed, Calm
  PROVE  /\ disk' \in Seq(States) /\ disk' # <<>> /\ Grown(disk, disk') /\ DOMAIN disk' = DOMAIN disk
         /\ UNCHANGED <<engine, copy, released, commit, scan, look, inputs, spent>>
<1>1. disk' = [disk EXCEPT ![Last].calm = TRUE]
  BY DEF Calm
<1> DEFINE d == [disk[Last] EXCEPT !.calm = TRUE]
<1>2. Last \in 1..Last
  BY Domains
<1>3. d \in States /\ d.holds = disk[Last].holds /\ d.by = disk[Last].by /\ d.calm = TRUE
  BY <1>2, Domains DEF States
<1>4. disk' = [disk EXCEPT ![Last] = d]
  BY <1>1
<1> HIDE DEF d
<1>5. DOMAIN disk' = DOMAIN disk /\ \A i \in 1..Last : disk'[i] = IF i = Last THEN d ELSE disk[i]
  BY <1>4, Domains
<1>6. disk' \in Seq(States) /\ disk' # <<>>
  BY <1>3, <1>4, <1>2, Domains DEF Typed
<1>7. \A i \in 1..Last : /\ disk'[i].holds = disk[i].holds /\ disk'[i].by = disk[i].by
                         /\ disk[i].calm => disk'[i].calm
  BY <1>3, <1>5
<1>8. Grown(disk, disk')
  BY <1>5, <1>7, Domains DEF Grown
<1> QED
  BY <1>5, <1>6, <1>8 DEF Calm, Untimed

\* What a stat says is so of the state the path is in.
LEMMA StatedSays ==
  ASSUME NEW compared
  PROVE  /\ Stated(compared) \in {"absent", "unchanged", "observed", "hash", "skipped"}
         /\ Stated(compared) = "absent" => Holds = None
         /\ Stated(compared) = "unchanged" => Holds = compared
         /\ Stated(compared) = "observed" => Holds \in Links
         /\ Stated(compared) = "hash" => disk[Last].calm
BY DEF Stated

LEMMA StatSays ==
  ASSUME Typed, Bounded, NEW o \in Observers, Stat(o)
  PROVE  /\ look' \in [Observers -> Looks] /\ Bounded' /\ MayLook(o)
         /\ \A p \in Observers \ {o} : look'[p] = look[p]
         /\ LookTrue(disk, look'[o]) /\ look'[o].pc = "stated" /\ look'[o].found # "none"
         /\ look'[o].saw = Last /\ look'[o].at = 0
         /\ look'[o].found \in {"absent", "unchanged", "observed", "hash", "skipped"}
         /\ look'[o].found = "observed" => Holds \in Links
         /\ UNCHANGED <<disk, engine, copy, released, commit, scan, inputs>>
         /\ spent' \in [looks : Nat, edits : Nat, commits : Nat, faults : Nat]
<1> DEFINE compared == IF o = "scan" THEN scan.copy ELSE copy
<1>1. PICK found \in {Stated(compared), "skipped"} :
        /\ spent' = [spent EXCEPT !.faults = @ + (IF found # Stated(compared) THEN 1 ELSE 0),
                                  !.looks = @ + (IF o = "executor" /\ commit.pc = "none" THEN 1 ELSE 0)]
        /\ look' = [look EXCEPT ![o] = [pc |-> "stated", found |-> found, saw |-> Last, at |-> 0,
                                        compared |-> IF found = "unchanged"
                                                     THEN compared ELSE None]]
  BY DEF Stat
<1>2. compared \in Maybe /\ None \in Maybe
  BY DEF Typed, Maybe
<1> HIDE DEF compared
<1>3. found \in {"absent", "unchanged", "observed", "hash", "skipped"}
  BY <1>1, StatedSays
<1> DEFINE l == [pc |-> "stated", found |-> found, saw |-> Last, at |-> 0,
                 compared |-> IF found = "unchanged" THEN compared ELSE None]
<1>4. l \in Looks /\ l.at = 0
  BY <1>2, <1>3, Domains DEF Looks, Founds
<1>5. LookTrue(disk, l) /\ l.pc = "stated" /\ l.found = found /\ l.saw = Last
  <2>1. Last \in DOMAIN disk
    BY Domains
  <2>2. /\ l.saw = Last /\ l.found = found /\ l.pc = "stated"
        /\ found = "unchanged" => l.compared = compared
    OBVIOUS
  <2> HIDE DEF l
  <2>3. /\ found = "absent" => Holds = None
        /\ found = "unchanged" => Holds = compared
        /\ found = "observed" => Holds \in Links
        /\ found = "hash" => disk[Last].calm
    BY <1>1, StatedSays
  <2>4. Found(disk, l)
    BY <1>3, <2>1, <2>2, <2>3 DEF Found, Holds
  <2> QED
    BY <1>3, <2>2, <2>4 DEF LookTrue
<1>6. look' = [look EXCEPT ![o] = l]
  BY <1>1
<1> HIDE DEF l
<1>7. look' \in [Observers -> Looks] /\ look'[o] = l /\ \A p \in Observers \ {o} : look'[p] = look[p]
  BY <1>4, <1>6 DEF Typed
<1>8. Bounded'
  <2>1. PICK b \in Nat : \A t \in TimesOf(engine, look, inputs) : t <= b
    BY DEF Bounded
  <2>2. \A p \in Observers : look'[p].at <= b
    BY <1>4, <1>7, <2>1 DEF TimesOf
  <2>3. \A t \in TimesOf(engine, look, inputs)' : t <= b
    BY <2>1, <2>2 DEF TimesOf, Stat
  <2> QED
    BY <2>3 DEF Bounded
<1>9. found = "observed" => Holds \in Links
  BY <1>1, StatedSays
<1>12. spent' \in [looks : Nat, edits : Nat, commits : Nat, faults : Nat]
  <2> DEFINE f == IF found # Stated(compared) THEN 1 ELSE 0
             n == IF o = "executor" /\ commit.pc = "none" THEN 1 ELSE 0
  <2>1. f \in Nat /\ n \in Nat
    OBVIOUS
  <2>2. spent' = [spent EXCEPT !.faults = @ + f, !.looks = @ + n]
    BY <1>1
  <2> HIDE DEF f, n
  <2> DEFINE t == [spent EXCEPT !.faults = @ + f]
  <2>3. t \in [looks : Nat, edits : Nat, commits : Nat, faults : Nat] /\ t.looks = spent.looks
    <3>1. spent \in [looks : Nat, edits : Nat, commits : Nat, faults : Nat]
      BY DEF Typed
    <3>2. spent.faults + f \in Nat
      BY <2>1, <3>1
    <3> QED
      BY <3>1, <3>2
  <2>4. spent' = [t EXCEPT !.looks = t.looks + n]
    BY <2>2, <2>3
  <2> HIDE DEF t
  <2> QED
    BY <2>1, <2>3, <2>4
<1> QED
  BY <1>3, <1>4, <1>5, <1>7, <1>8, <1>9, <1>12 DEF Stat

\* A look is dated as it is.
LEMMA DatedSays ==
  ASSUME Typed, Bounded, LooksTrue, NEW o \in Observers, Dated(o)
  PROVE  /\ TimedTyped /\ SameEngine(engine) /\ SameQueue(inputs) /\ look[o].pc = "stated"
         /\ \A p \in Observers \ {o} : look'[p].pc = look[p].pc /\ SameBut(look'[p], look[p])
         /\ LookTrue(disk, look'[o]) /\ SameBut(look'[o], look[o])
         /\ look'[o].pc = (IF look[o].found = "hash" THEN "hashing" ELSE "ready")
         /\ UNCHANGED <<disk, copy, released, commit, scan, spent>>
<1> DEFINE pc == IF look[o].found = "hash" THEN "hashing" ELSE "ready"
           l  == [look[o] EXCEPT !.at = Now, !.pc = pc]
           ls == [look EXCEPT ![o] = l]
<1>1. look[o].pc = "stated" /\ look[o] \in Looks /\ Found(disk, look[o]) /\ look[o].found # "none"
  BY DEF Dated, Typed, LooksTrue, LookTrue
<1>2. pc \in {"hashing", "ready"}
  OBVIOUS
<1>3. Timed(engine, ls, inputs)
  <2>1. [look EXCEPT ![o].at = Now, ![o].pc = pc] = ls
    BY DEF Typed
  <2> QED
    BY <2>1 DEF Dated
<1>4. l \in Looks /\ l.at = Now /\ l.pc = pc /\ SameBut(l, look[o])
  <2> HIDE DEF pc
  <2> QED
    BY <1>1, <1>2, LookTimes DEF Looks, SameBut
<1> HIDE DEF l
<1>5. ls \in [Observers -> Looks] /\ ls[o] = l /\ \A p \in Observers \ {o} : ls[p] = look[p]
  BY <1>4 DEF Typed
<1> HIDE DEF ls
<1>6. \A p \in Observers : ls[p].at <= Now
  BY <1>4, <1>5, LookTimes
<1>7. TimedTyped /\ SameEngine(engine) /\ SameLooks(ls) /\ SameQueue(inputs)
  BY <1>3, <1>5, <1>6, RetimeSays
<1>8. look'[o].pc = pc /\ SameBut(look'[o], look[o])
  BY <1>4, <1>5, <1>7 DEF SameLooks, SameBut
<1>9. LookTrue(disk, look'[o])
  BY <1>1, <1>8 DEF LookTrue, Found, SameBut
<1> QED
  BY <1>1, <1>5, <1>7, <1>8, <1>9 DEF SameLooks, Dated

LEMMA HashSays ==
  ASSUME Typed, Bounded, LooksTrue, NEW o \in Observers, Hash(o)
  PROVE  /\ look' \in [Observers -> Looks] /\ Bounded' /\ look[o].pc = "hashing"
         /\ \A p \in Observers \ {o} : look'[p] = look[p]
         /\ LookTrue(disk, look'[o]) /\ look'[o].pc = "ready" /\ look'[o].found # "none"
         /\ UNCHANGED <<disk, engine, copy, released, commit, scan, inputs, spent>>
<1> DEFINE l == [Hashed(look[o]) EXCEPT !.pc = "ready"]
<1>1. look[o] \in Looks /\ LookTrue(disk, look[o]) /\ look[o].pc = "hashing"
  BY DEF Typed, LooksTrue, Hash
<1>2. Last \in DOMAIN disk /\ Last \in Nat
  BY Domains
<1>3. /\ l \in Looks /\ l.pc = "ready" /\ l.at = look[o].at
      /\ \/ l.saw = look[o].saw /\ l.found = "observed"
         \/ l.saw = Last /\ l.found = "absent" /\ Holds = None
         \/ l.saw = look[o].saw /\ l.found = "skipped"
  BY <1>1, <1>2 DEF Looks, Hashed, Founds
<1> HIDE DEF l
<1>4. LookTrue(disk, l)
  BY <1>1, <1>2, <1>3 DEF LookTrue, Found, Holds
<1>5. look' = [look EXCEPT ![o] = l]
  BY DEF Hash, l
<1>6. /\ look' \in [Observers -> Looks] /\ look'[o] = l
      /\ \A p \in Observers \ {o} : look'[p] = look[p]
  BY <1>3, <1>5 DEF Typed
<1>7. TimesOf(engine, look, inputs)' = TimesOf(engine, look, inputs)
  <2>1. \A p \in Observers : look'[p].at = look[p].at
    BY <1>3, <1>6
  <2>2. {look'[p].at : p \in Observers} = {look[p].at : p \in Observers}
    BY <2>1
  <2> QED
    BY <2>2 DEF TimesOf, Hash
<1>8. Bounded'
  BY <1>7 DEF Bounded
<1> QED
  BY <1>1, <1>3, <1>4, <1>6, <1>8 DEF Hash

\* What the sending of a report leaves of the looks.
LookOver(o) ==
    /\ look'[o].pc = "none"
    /\ \A p \in Observers \ {o} : look'[p].pc = look[p].pc /\ SameBut(look'[p], look[p])

LEMMA NoLookSays ==
  ASSUME Typed, Bounded, NEW o \in Observers
  PROVE  /\ [look EXCEPT ![o] = NoLook] \in [Observers -> Looks]
         /\ \A p \in Observers : [look EXCEPT ![o] = NoLook][p].at <= Now
         /\ SameLooks([look EXCEPT ![o] = NoLook]) => LookOver(o)
<1>1. NoLook \in Looks /\ NoLook.at = 0 /\ NoLook.pc = "none"
  BY DEF NoLook, Looks, Founds, Maybe
<1> DEFINE ls == [look EXCEPT ![o] = NoLook]
<1>2. ls \in [Observers -> Looks] /\ ls[o] = NoLook /\ \A p \in Observers \ {o} : ls[p] = look[p]
  BY <1>1 DEF Typed
<1>3. \A p \in Observers : ls[p].at <= Now
  BY <1>1, <1>2, LookTimes
<1>4. SameLooks(ls) => LookOver(o)
  BY <1>1, <1>2 DEF SameLooks, LookOver
<1> QED
  BY <1>2, <1>3, <1>4

LEMMA MsgSays ==
  ASSUME Typed, NEW o \in Observers, NEW kind \in Kinds
  PROVE  Msg(kind, look[o]) \in Msgs /\ Msg(kind, look[o]).kind = kind
         /\ SameBut(Msg(kind, look[o]), look[o]) /\ Msg(kind, look[o]).at = look[o].at
BY DEF Typed, Msg, Msgs, Looks, SameBut

LEMMA NoteSays ==
  ASSUME NEW kind \in Kinds, NEW saw \in Nat
  PROVE  Note(kind, saw) \in Msgs /\ Note(kind, saw).kind = kind /\ Note(kind, saw).saw = saw
         /\ Note(kind, saw).at = 0
BY DEF Note, Msgs, Founds, Maybe

LEMMA WalkedSays ==
  ASSUME Typed, Bounded, Busy, LooksTrue, Walked
  PROVE  /\ TimedTyped /\ SameEngine(engine) /\ LookOver("scan")
         /\ \/ SameQueue(inputs) /\ scan'.missing # 0
            \/ \E m \in Msgs : /\ Adds(m) /\ m.kind = "seen" /\ MsgTrue(disk, m)
         /\ look["scan"].pc = "ready" /\ scan'.pc = "walked" /\ Gone(disk, scan'.missing)
         /\ scan' \in [pc : {"none", "walking", "walked"}, copy : Maybe, missing : Nat]
         /\ UNCHANGED <<disk, copy, released, commit, spent>>
<1> DEFINE l == look["scan"]
           ls == [look EXCEPT !["scan"] = NoLook]
<1>0. "scan" \in Observers
  BY DEF Observers
<1>1. l \in Looks /\ LookTrue(disk, l) /\ l.pc = "ready"
  BY <1>0 DEF Typed, LooksTrue, Walked
<1>2. l.saw \in DOMAIN disk /\ l.saw \in Nat \ {0} /\ l.found \notin {"hash", "none"}
  BY <1>1, Domains DEF LookTrue, Found, Busy
<1>3. /\ ls \in [Observers -> Looks] /\ \A p \in Observers : ls[p].at <= Now
      /\ SameLooks(ls) => LookOver("scan")
  BY <1>0, NoLookSays
<1>4. scan' = [scan EXCEPT !.pc = "walked", !.missing = IF l.found = "absent" THEN l.saw ELSE 0]
  BY DEF Walked
<1>5. /\ scan' \in [pc : {"none", "walking", "walked"}, copy : Maybe, missing : Nat]
      /\ scan'.pc = "walked" /\ scan'.missing = IF l.found = "absent" THEN l.saw ELSE 0
  <2>1. (IF l.found = "absent" THEN l.saw ELSE 0) \in Nat
    BY <1>2
  <2> QED
    BY <1>4, <2>1 DEF Typed
<1>6. Gone(disk, scan'.missing)
  BY <1>1, <1>2, <1>5 DEF Gone, LookTrue, Found
<1>7. CASE l.found = "absent"
  <2>1. Timed(engine, ls, inputs)
    BY <1>7 DEF Walked
  <2> HIDE DEF ls
  <2>2. TimedTyped /\ SameEngine(engine) /\ SameLooks(ls) /\ SameQueue(inputs)
    BY <1>3, <2>1, RetimeSays
  <2>3. scan'.missing # 0
    BY <1>2, <1>5, <1>7
  <2> QED
    BY <1>1, <1>3, <1>5, <1>6, <2>2, <2>3 DEF Walked
<1>8. CASE l.found # "absent"
  <2> DEFINE m == Msg("seen", l)
  <2>1. Sends(ls, m)
    BY <1>8 DEF Walked
  <2>2. m \in Msgs /\ m.kind = "seen" /\ SameBut(m, l) /\ m.at = l.at
    BY <1>0, MsgSays DEF Kinds, News
  <2>3. m.at <= Now
    BY <1>0, <2>2, LookTimes
  <2> HIDE DEF ls, m
  <2>4. TimedTyped /\ SameEngine(engine) /\ SameLooks(ls) /\ Adds(m)
    BY <1>3, <2>1, <2>2, <2>3, SendsSays
  <2>5. MsgTrue(disk, m)
    BY <1>1, <1>2, <2>2 DEF MsgTrue, LookTrue, Found, SameBut
  <2> QED
    BY <1>1, <1>3, <1>5, <1>6, <2>2, <2>4, <2>5 DEF Walked
<1> QED
  BY <1>7, <1>8

\* What the executor's report is.
Kind == CASE commit.pc = "failed" -> "failed" [] commit.pc = "landed" -> "ok" [] OTHER -> "seen"

LEMMA LookedSays ==
  ASSUME Typed, Bounded, Busy, LooksTrue, Left, Looked
  PROVE  /\ TimedTyped /\ SameEngine(engine) /\ LookOver("executor")
         /\ \E m \in Msgs : /\ Adds(m) /\ MsgTrue(disk, m) /\ m.kind = Kind /\ SameBut(m, look["executor"])
                            /\ m.kind = "ok" => LastDone(m.saw, commit.leaves)
         /\ look["executor"].pc = "ready" /\ commit' = NoCommit
         /\ UNCHANGED <<disk, copy, released, scan, spent>>
<1> DEFINE l == look["executor"]
           ls == [look EXCEPT !["executor"] = NoLook]
           m == Msg(Kind, l)
<1>0. "executor" \in Observers /\ Kind \in {"seen", "failed", "ok"} /\ Kind \in Kinds
      /\ (Kind = "ok" <=> commit.pc = "landed")
  BY DEF Observers, Kinds, News, Kind
<1>1. l \in Looks /\ LookTrue(disk, l) /\ l.pc = "ready"
  BY <1>0 DEF Typed, LooksTrue, Looked
<1>2. /\ ls \in [Observers -> Looks] /\ \A p \in Observers : ls[p].at <= Now
      /\ SameLooks(ls) => LookOver("executor")
  BY <1>0, NoLookSays
<1>3. Sends(ls, m)
  BY DEF Looked, Kind
<1>4. m \in Msgs /\ m.kind = Kind /\ SameBut(m, l) /\ m.at = l.at
  BY <1>0, MsgSays
<1>5. m.at <= Now
  BY <1>0, <1>4, LookTimes
<1> HIDE DEF ls, m
<1>6. TimedTyped /\ SameEngine(engine) /\ SameLooks(ls) /\ Adds(m)
  BY <1>2, <1>3, <1>4, <1>5, SendsSays
<1>7. MsgTrue(disk, m)
  BY <1>0, <1>1, <1>4 DEF MsgTrue, LookTrue, Found, SameBut, Busy
<1>8. m.kind = "ok" => LastDone(m.saw, commit.leaves)
  BY <1>0, <1>1, <1>4 DEF Left, SameBut
<1> QED
  BY <1>1, <1>2, <1>4, <1>6, <1>7, <1>8 DEF Looked

\* A scan's own reports.
LEMMA NotesSay ==
  ASSUME Typed, Bounded, NEW kind \in Kinds, NEW saw \in Nat, Sends(look, Note(kind, saw))
  PROVE  /\ TimedTyped /\ SameEngine(engine) /\ SameLooks(look)
         /\ \E m \in Msgs : Adds(m) /\ m.kind = kind /\ m.saw = saw
<1> DEFINE m == Note(kind, saw)
<1>1. m \in Msgs /\ m.kind = kind /\ m.saw = saw /\ m.at = 0
  BY NoteSays
<1>2. m.at <= Now /\ look \in [Observers -> Looks] /\ \A o \in Observers : look[o].at <= Now
  BY <1>1, LookTimes DEF Typed
<1>3. Sends(look, m)
  OBVIOUS
<1> HIDE DEF m
<1> QED
  BY <1>1, <1>2, <1>3, SendsSays

\* A commit that landed is to be told of by what it left.
LEMMA LandedSays ==
  ASSUME Typed, Bounded, Left, Landed
  PROVE  /\ TimedTyped /\ SameEngine(engine) /\ SameQueue(inputs)
         /\ look'["scan"].pc = look["scan"].pc /\ SameBut(look'["scan"], look["scan"])
         /\ look'["executor"].pc = "ready" /\ look'["executor"].found = "none"
         /\ LastDone(look'["executor"].saw, commit.leaves) /\ LookTrue(disk, look'["executor"])
         /\ commit.pc = "landed" /\ look["executor"].pc = "none"
         /\ UNCHANGED <<disk, copy, released, commit, scan, spent>>
<1> DEFINE S == {i \in DOMAIN disk : disk[i].by = "host"} \cup {1}
           made == Max(S)
<1>0. "executor" \in Observers /\ "scan" \in Observers
  BY DEF Observers
<1>1. DOMAIN disk = 1..Last /\ Last \in Nat \ {0}
  BY Domains
<1>2. S \in SUBSET Nat /\ 1 \in S /\ \A i \in S : i <= Last /\ i \in DOMAIN disk
  BY <1>1
<1>3. made \in S /\ \A i \in S : i <= made
  <2> HIDE DEF S
  <2> QED
    BY <1>1, <1>2, Greatest
<1>4. PICK i \in DOMAIN disk : LastDone(i, commit.leaves)
  BY DEF Left, Landed
<1>5. made = i
  <2>1. i \in S /\ \A j \in S : j <= i
    BY <1>1, <1>4 DEF LastDone
  <2> HIDE DEF S
  <2>2. made \in S /\ i <= made /\ made <= i
    BY <1>3, <2>1
  <2>3. made \in Nat /\ i \in Nat
    BY <1>2, <2>1, <2>2
  <2> HIDE DEF made
  <2> QED
    BY <2>2, <2>3
<1> DEFINE l == [NoLook EXCEPT !.pc = "ready", !.saw = made, !.at = Now]
           ls == [look EXCEPT !["executor"] = l]
<1>6. Timed(engine, ls, inputs)
  BY DEF Landed
<1> HIDE DEF made, ls
<1>13. NoLook \in Looks /\ NoLook.found = "none"
  BY DEF NoLook, Looks, Founds, Maybe
<1>14. made \in Nat /\ Now \in Nat
  BY <1>1, <1>5, LookTimes
<1>7. /\ l \in Looks /\ l.pc = "ready" /\ l.found = "none" /\ l.saw = i /\ l.at = Now
  BY <1>5, <1>13, <1>14 DEF Looks
<1> HIDE DEF l
<1>8. ls \in [Observers -> Looks] /\ ls["executor"] = l /\ ls["scan"] = look["scan"]
  BY <1>0, <1>7 DEF Typed, ls
<1>9. \A o \in Observers : ls[o].at <= Now
  BY <1>7, <1>8, LookTimes DEF Observers
<1>10. TimedTyped /\ SameEngine(engine) /\ SameLooks(ls) /\ SameQueue(inputs)
  BY <1>6, <1>8, <1>9, RetimeSays
<1>11. /\ look'["executor"].pc = "ready" /\ SameBut(look'["executor"], l)
       /\ look'["scan"].pc = look["scan"].pc /\ SameBut(look'["scan"], look["scan"])
  BY <1>0, <1>7, <1>8, <1>10 DEF SameLooks
<1>12. LookTrue(disk, look'["executor"])
  BY <1>4, <1>7, <1>11 DEF LookTrue, Found, SameBut
<1> QED
  BY <1>4, <1>7, <1>10, <1>11, <1>12 DEF Landed, SameBut

-----------------------------------------------------------------------------
(* What the engine takes from a report.                                       *)

\* The last state known to have held what is recorded.
Known(e, content, saw) == IF content = e.record THEN Max({e.seen, saw}) ELSE saw

LEMMA KnownSays ==
  ASSUME NEW e, e.seen \in Nat, NEW content, NEW saw \in Nat
  PROVE  /\ Known(e, content, saw) \in {e.seen, saw} /\ saw <= Known(e, content, saw)
         /\ content = e.record => e.seen <= Known(e, content, saw)
         /\ content # e.record => Known(e, content, saw) = saw
<1> DEFINE S == {e.seen, saw}
<1>1. PICK b \in Nat : e.seen <= b /\ saw <= b
  <2>1. CASE e.seen <= saw
    BY <2>1
  <2>2. CASE saw <= e.seen
    BY <2>2
  <2> QED
    BY <2>1, <2>2
<1>2. S \in SUBSET Nat /\ S # {} /\ \A t \in S : t <= b
  BY <1>1
<1> HIDE DEF S
<1>3. Max(S) \in S /\ \A t \in S : t <= Max(S)
  BY <1>2, Greatest
<1> QED
  BY <1>3 DEF Known, S

LEMMA RecordedSays ==
  ASSUME NEW e \in Engines, NEW content \in Maybe, NEW saw \in Nat, Now \in Nat
  PROVE  /\ Recorded(e, content, saw) \in Engines
         /\ Recorded(e, content, saw).record = content
         /\ Recorded(e, content, saw).seen = Known(e, content, saw)
         /\ Recorded(e, content, saw).flight = e.flight
         /\ Recorded(e, content, saw).bracket = e.bracket
         /\ Recorded(e, content, saw).reported = e.reported
         /\ Recorded(e, content, saw).observed = e.observed
         /\ Recorded(e, content, saw).written \in {e.written, Now}
<1> DEFINE k == Known(e, content, saw)
<1>1. k \in Nat
  BY KnownSays DEF Engines
<1>2. Recorded(e, content, saw) = [e EXCEPT !.record = content, !.seen = k,
                                          !.written = IF content = e.record THEN @ ELSE Now]
  BY DEF Recorded, Known, Engines
<1> HIDE DEF k
<1>3. /\ Recorded(e, content, saw) \in Engines /\ Recorded(e, content, saw).seen = k
      /\ Recorded(e, content, saw).record = content
      /\ Recorded(e, content, saw).flight = e.flight /\ Recorded(e, content, saw).bracket = e.bracket
      /\ Recorded(e, content, saw).reported = e.reported
      /\ Recorded(e, content, saw).observed = e.observed
      /\ Recorded(e, content, saw).written \in {e.written, Now}
  BY <1>1, <1>2 DEF Engines
<1> QED
  BY <1>3 DEF k

\* The engine's times are no later than the clock.
Timely(e) == e \in Engines /\ e.reported <= Now /\ e.observed <= Now /\ e.written <= Now

\* The engine's record is what the path held, and its bracket and what is in
\* flight are these.
Became(e, record, seen, flight, bracket) ==
    /\ Timely(e) /\ e.record = record /\ e.seen = seen /\ e.flight = flight /\ e.bracket = bracket

Opened(bracket) == IF bracket = "open" THEN "seen" ELSE bracket

LEMMA InBracketSays ==
  ASSUME NEW e, Timely(e)
  PROVE  Became(InBracket(e), e.record, e.seen, e.flight, Opened(e.bracket))
<1>1. Opened(e.bracket) \in {"closed", "open", "seen"}
  BY DEF Opened, Timely, Engines
<1>2. InBracket(e) = [e EXCEPT !.bracket = Opened(e.bracket)]
  BY DEF InBracket, Opened
<1> QED
  BY <1>1, <1>2 DEF Timely, Became, Engines

\* What is observed is recorded, or nothing is.
LEMMA ObservedSays ==
  ASSUME Typed, Bounded, NEW e, Timely(e), NEW m \in Msgs, m.at <= Now, Found(disk, m),
         m.found \notin {"hash", "none"}, m.found = "unchanged" => m.compared = e.record
  PROVE  \/ Became(Observed(e, m), e.record, e.seen, e.flight, Opened(e.bracket))
         \/ /\ Became(Observed(e, m), disk[m.saw].holds, Known(e, disk[m.saw].holds, m.saw),
                      e.flight, Opened(e.bracket))
            /\ m.found \in {"absent", "unchanged", "observed"} /\ Current(e, m) /\ e.flight = {}
<1> DEFINE o == Max({e.observed, m.at})
           u == InBracket(e)
           taken == [u EXCEPT !.observed = Max({@, m.at})]
<1>1. Became(u, e.record, e.seen, e.flight, Opened(e.bracket))
  BY InBracketSays
<1>2. Now \in Nat
  BY LookTimes
<1>3. o \in {e.observed, m.at}
  <2>1. {e.observed, m.at} \in SUBSET Nat /\ \A t \in {e.observed, m.at} : t <= Now
    BY DEF Timely, Engines, Msgs
  <2> QED
    BY <1>2, <2>1, Greatest
<1>4. u.observed = e.observed /\ u \in Engines
  BY <1>1 DEF InBracket, Became, Timely, Engines
<1>5. taken = [u EXCEPT !.observed = o]
  BY <1>4
<1> HIDE DEF o
<1>6. o \in Nat /\ o <= Now
  BY <1>3 DEF Timely, Engines, Msgs
<1>7. Became(taken, e.record, e.seen, e.flight, Opened(e.bracket))
  <2> HIDE DEF u, taken
  <2> QED
    BY <1>1, <1>4, <1>5, <1>6 DEF Became, Timely, Engines
<1>8. Observed(e, m) = IF ~Current(e, m) THEN u
                       ELSE IF e.flight # {} THEN taken
                       ELSE Recorded(taken, Says(e, m), m.saw)
  BY DEF Observed
<1> HIDE DEF u, taken
<1>9. CASE ~Current(e, m)
  BY <1>1, <1>8, <1>9
<1>10. CASE Current(e, m) /\ e.flight # {}
  BY <1>7, <1>8, <1>10
<1>11. CASE Current(e, m) /\ e.flight = {}
  <2>1. m.found \in {"absent", "unchanged", "observed"}
    BY <1>11 DEF Current, Found, Msgs, Founds
  <2>2. Says(e, m) = disk[m.saw].holds
    BY <2>1 DEF Says, Found
  <2>3. m.saw \in Nat /\ disk[m.saw].holds \in Maybe
    BY Domains DEF Found, States
  <2>4. taken \in Engines
    BY <1>7 DEF Became, Timely
  <2> DEFINE r == Recorded(taken, disk[m.saw].holds, m.saw)
  <2>8. Known(taken, disk[m.saw].holds, m.saw) = Known(e, disk[m.saw].holds, m.saw)
    BY <1>7 DEF Known, Became
  <2>5. /\ r \in Engines /\ r.record = disk[m.saw].holds
        /\ r.seen = Known(e, disk[m.saw].holds, m.saw)
        /\ r.flight = taken.flight /\ r.bracket = taken.bracket
        /\ r.reported = taken.reported /\ r.observed = taken.observed
        /\ r.written \in {taken.written, Now}
    BY <1>2, <2>3, <2>4, <2>8, RecordedSays
  <2>6. Observed(e, m) = r
    BY <1>8, <1>11, <2>2
  <2> HIDE DEF r
  <2>7. Became(r, disk[m.saw].holds, Known(e, disk[m.saw].holds, m.saw), e.flight,
               Opened(e.bracket))
    BY <1>2, <1>7, <2>5 DEF Became, Timely
  <2> QED
    BY <1>11, <2>1, <2>6, <2>7
<1> QED
  BY <1>9, <1>10, <1>11

Bracketed(bracket, kind) ==
    IF kind \in News THEN Opened(bracket) ELSE IF kind = "started" THEN "open" ELSE "closed"

Emptied(flight, kind) == IF kind \in {"ok", "failed"} THEN {} ELSE flight

\* What a file is recorded as, but for a commit's own, it was left alone with.
Whole(record, saw) == record = None \/ record \in Links \/ disk[saw].calm

LEMMA RelativeSays ==
  ASSUME NEW e, NEW m \in Msgs
  PROVE  /\ Relative(e, m) \in Msgs /\ Relative(e, m).kind = m.kind /\ Relative(e, m).saw = m.saw
         /\ Relative(e, m).at = m.at
         /\ MsgTrue(disk, m) => MsgTrue(disk, Relative(e, m))
         /\ Relative(e, m).found = "unchanged" => Relative(e, m).compared = e.record
<1>1. CASE m.found = "unchanged" /\ m.compared # e.record
  BY <1>1 DEF Relative, Msgs, Founds, MsgTrue, Found
<1>2. CASE ~(m.found = "unchanged" /\ m.compared # e.record)
  BY <1>2 DEF Relative
<1> QED
  BY <1>1, <1>2

\* What a report leaves of the engine, whatever it tells of.
HandledSo(e, m) ==
    /\ Timely(e) /\ e.seen \in DOMAIN disk /\ e.record = disk[e.seen].holds
    /\ e.flight = Emptied(engine.flight, m.kind) /\ e.bracket = Bracketed(engine.bracket, m.kind)
    /\ e.record # engine.record /\ ~Lands(engine, m) => Whole(e.record, e.seen)

LEMMA ClosedSays ==
  ASSUME NEW e, Timely(e), NEW bracket \in {"closed", "open"}
  PROVE  Became([e EXCEPT !.bracket = bracket], e.record, e.seen, e.flight, bracket)
BY DEF Timely, Became, Engines

\* What landed is recorded.
LEMMA AppliedSays ==
  ASSUME Typed, Bounded, NEW m \in Msgs, m.at <= Now, m.saw \in DOMAIN disk,
         engine.flight = {disk[m.saw].holds}
  PROVE  Became(Applied(engine, m), disk[m.saw].holds, Known(engine, disk[m.saw].holds, m.saw), {},
                Opened(engine.bracket))
<1> DEFINE u == InBracket(engine)
           over == [u EXCEPT !.reported = m.at, !.flight = {}]
           c == disk[m.saw].holds
           k == Known(engine, c, m.saw)
<1>1. Timely(engine) /\ Now \in Nat
  BY LookTimes DEF Typed, Timely
<1>2. Became(u, engine.record, engine.seen, engine.flight, Opened(engine.bracket))
  BY <1>1, InBracketSays
<1>3. m.at \in Nat /\ engine.flight = {c} /\ m.saw \in Nat /\ c \in Maybe
  BY Domains DEF Msgs, States
<1>4. Applied(engine, m) = Recorded(over, c, m.saw)
  <2>1. (CHOOSE b \in engine.flight : TRUE) = c
    BY <1>3
  <2> QED
    BY <2>1 DEF Applied
<1> HIDE DEF u, c
<1>5. Became(over, engine.record, engine.seen, {}, Opened(engine.bracket))
  BY <1>2, <1>3 DEF Became, Timely, Engines
<1> HIDE DEF over
<1> DEFINE r == Recorded(over, c, m.saw)
<1>6. Known(over, c, m.saw) = k
  BY <1>5 DEF Known, Became
<1>7. /\ r \in Engines /\ r.record = c /\ r.seen = k /\ r.flight = over.flight
      /\ r.bracket = over.bracket /\ r.reported = over.reported /\ r.observed = over.observed
      /\ r.written \in {over.written, Now}
  BY <1>1, <1>3, <1>5, <1>6, RecordedSays DEF Became, Timely
<1> HIDE DEF r, k
<1>8. Became(r, c, k, {}, Opened(engine.bracket))
  BY <1>1, <1>5, <1>7 DEF Became, Timely
<1> QED
  BY <1>4, <1>8 DEF r, c, k

LEMMA HandledSays ==
  ASSUME Typed, Bounded, RecordTruthful, NEW m \in Msgs, m.at <= Now, MsgTrue(disk, m),
         m.found = "unchanged" => m.compared = engine.record,
         m.kind = "finished" => m.saw # 0 \/ engine.bracket = "seen",
         m.kind = "ok" => m.saw \in DOMAIN disk /\ engine.flight = {disk[m.saw].holds}
  PROVE  HandledSo(Handled(engine, m), m)
<1>0. Timely(engine) /\ engine.seen \in DOMAIN disk /\ engine.record = disk[engine.seen].holds
  BY LookTimes DEF Typed, Timely, RecordTruthful
<1>1. Now \in Nat
  BY LookTimes
<1>2. m.kind \in {"seen", "ok", "failed", "started", "finished", "aborted"}
  BY DEF Msgs, Kinds, News, Ends
<1>3. CASE m.kind = "seen"
  <2>1. Found(disk, m) /\ m.found \notin {"hash", "none"}
    BY <1>3 DEF MsgTrue
  <2>2. \/ Became(Observed(engine, m), engine.record, engine.seen, engine.flight,
                  Opened(engine.bracket))
        \/ /\ Became(Observed(engine, m), disk[m.saw].holds,
                     Known(engine, disk[m.saw].holds, m.saw), engine.flight,
                     Opened(engine.bracket))
           /\ m.found \in {"absent", "unchanged", "observed"}
    BY <1>0, <2>1, ObservedSays
  <2>3. Handled(engine, m) = Observed(engine, m)
    BY <1>3 DEF Handled
  <2>4. Emptied(engine.flight, m.kind) = engine.flight
        /\ Bracketed(engine.bracket, m.kind) = Opened(engine.bracket)
    BY <1>3 DEF Emptied, Bracketed, News
  <2>5. m.found \in {"absent", "unchanged", "observed"} =>
          disk[m.saw].holds = engine.record \/ Whole(disk[m.saw].holds, m.saw)
    BY <2>1 DEF Found, Whole
  <2>6. m.saw \in DOMAIN disk
    BY <2>1 DEF Found
  <2>7. /\ Known(engine, disk[m.saw].holds, m.saw) \in {engine.seen, m.saw}
        /\ disk[m.saw].holds # engine.record => Known(engine, disk[m.saw].holds, m.saw) = m.saw
    BY <1>0, KnownSays DEF Timely, Engines, Msgs
  <2>8. disk[Known(engine, disk[m.saw].holds, m.saw)].holds = disk[m.saw].holds
    BY <1>0, <2>7
  <2> QED
    BY <1>0, <2>2, <2>3, <2>4, <2>5, <2>6, <2>7, <2>8 DEF Became, HandledSo
<1>4. ASSUME m.saw \in DOMAIN disk, engine.flight = {disk[m.saw].holds}, Lands(engine, m),
             Handled(engine, m) = Applied(engine, m)
      PROVE  HandledSo(Handled(engine, m), m)
  <2> DEFINE k == Known(engine, disk[m.saw].holds, m.saw)
  <2>1. Became(Applied(engine, m), disk[m.saw].holds, k, {}, Opened(engine.bracket))
    BY <1>4, AppliedSays
  <2>2. k \in {engine.seen, m.saw} /\ (disk[m.saw].holds # engine.record => k = m.saw)
    BY <1>0, KnownSays DEF Timely, Engines, Msgs
  <2>3. m.kind \in {"ok", "failed"}
    BY <1>4 DEF Lands
  <2>4. Emptied(engine.flight, m.kind) = {} /\ Bracketed(engine.bracket, m.kind) = Opened(engine.bracket)
    BY <2>3 DEF Emptied, Bracketed, News
  <2> HIDE DEF k
  <2>5. k \in DOMAIN disk /\ disk[k].holds = disk[m.saw].holds
    BY <1>0, <1>4, <2>2
  <2> QED
    BY <1>4, <2>1, <2>4, <2>5 DEF Became, HandledSo
<1>8. CASE m.kind = "ok"
  <2>1. Handled(engine, m) = Applied(engine, m) /\ Lands(engine, m)
    BY <1>8 DEF Handled, Lands
  <2> QED
    BY <1>4, <1>8, <2>1
<1>9. CASE m.kind = "failed" /\ Lands(engine, m)
  <2>1. Found(disk, m) /\ m.found \in {"observed", "absent"} /\ engine.flight = {Says(engine, m)}
    BY <1>9 DEF MsgTrue, Lands
  <2>2. Says(engine, m) = disk[m.saw].holds /\ m.saw \in DOMAIN disk
    BY <2>1 DEF Says, Found
  <2>3. Handled(engine, m) = Applied(engine, m)
    BY <1>9 DEF Handled, Failed
  <2> QED
    BY <1>4, <1>9, <2>1, <2>2, <2>3
<1>5. CASE m.kind = "failed" /\ ~Lands(engine, m)
  <2> DEFINE u == InBracket(engine)
             over == [u EXCEPT !.reported = m.at, !.flight = {}]
             k == Known(engine, disk[m.saw].holds, m.saw)
  <2>1. Became(u, engine.record, engine.seen, engine.flight, Opened(engine.bracket))
    BY <1>0, InBracketSays
  <2>2. m.at \in Nat
    BY DEF Msgs
  <2>3. Handled(engine, m) = IF m.found \in {"skipped", "unchanged"} \/ Says(engine, m) = engine.record
                             THEN over ELSE Observed(over, m)
    BY <1>5 DEF Handled, Failed
  <2> HIDE DEF u
  <2>4. Became(over, engine.record, engine.seen, {}, Opened(engine.bracket))
    BY <2>1, <2>2 DEF Became, Timely, Engines
  <2> HIDE DEF over
  <2>5. Found(disk, m) /\ m.found \notin {"hash", "none"}
    BY <1>5 DEF MsgTrue
  <2>13. Known(over, disk[m.saw].holds, m.saw) = k
    BY <2>4 DEF Known, Became
  <2>14. k \in {engine.seen, m.saw} /\ (disk[m.saw].holds # engine.record => k = m.saw)
    BY <1>0, KnownSays DEF Timely, Engines, Msgs
  <2> HIDE DEF k
  <2>6. \/ Became(Observed(over, m), over.record, over.seen, over.flight, Opened(over.bracket))
        \/ /\ Became(Observed(over, m), disk[m.saw].holds, k, over.flight, Opened(over.bracket))
           /\ m.found \in {"absent", "unchanged", "observed"}
    BY <2>4, <2>5, <2>13, ObservedSays DEF Became
  <2>7. Opened(over.bracket) = Opened(engine.bracket)
    BY <2>4 DEF Became, Opened
  <2>8. Emptied(engine.flight, m.kind) = {} /\ Bracketed(engine.bracket, m.kind) = Opened(engine.bracket)
    BY <1>5 DEF Emptied, Bracketed, News
  <2>9. m.found \in {"absent", "unchanged", "observed"} =>
          disk[m.saw].holds = engine.record \/ Whole(disk[m.saw].holds, m.saw)
    BY <2>5 DEF Found, Whole
  <2>10. m.saw \in DOMAIN disk
    BY <2>5 DEF Found
  <2>15. k \in DOMAIN disk /\ disk[k].holds = disk[m.saw].holds
    BY <1>0, <2>10, <2>14
  <2>11. CASE m.found \in {"skipped", "unchanged"} \/ Says(engine, m) = engine.record
    BY <1>0, <2>3, <2>4, <2>8, <2>11 DEF Became, HandledSo
  <2>12. CASE ~(m.found \in {"skipped", "unchanged"} \/ Says(engine, m) = engine.record)
    <3>1. Handled(engine, m) = Observed(over, m)
      BY <2>3, <2>12
    <3> QED
      BY <1>0, <2>4, <2>6, <2>7, <2>8, <2>9, <2>14, <2>15, <3>1 DEF Became, HandledSo
  <2> QED
    BY <2>11, <2>12
<1>6. CASE m.kind = "finished"
  <2> DEFINE closed == [engine EXCEPT !.bracket = "closed"]
  <2>1. Became(closed, engine.record, engine.seen, engine.flight, "closed")
    BY <1>0, ClosedSays
  <2>2. Emptied(engine.flight, m.kind) = engine.flight /\ Bracketed(engine.bracket, m.kind) = "closed"
    BY <1>6 DEF Emptied, Bracketed, News
  <2>3. Handled(engine, m) =
          IF engine.bracket = "open" /\ engine.flight = {} /\ engine.record # None
          THEN Recorded(closed, None, m.saw) ELSE closed
    BY <1>6 DEF Handled, Finished
  <2> HIDE DEF closed
  <2>4. CASE engine.bracket = "open" /\ engine.flight = {} /\ engine.record # None
    <3> DEFINE r == Recorded(closed, None, m.saw)
    <3>1. m.saw \in Nat \ {0}
      BY <1>6, <2>4 DEF Msgs
    <3>2. m.saw \in DOMAIN disk /\ disk[m.saw].holds = None
      BY <1>6, <3>1 DEF MsgTrue, Gone
    <3>5. closed \in Engines /\ None \in Maybe /\ m.saw \in Nat
      BY <2>1, <3>1 DEF Became, Timely, Maybe
    <3>3. /\ r \in Engines /\ r.record = None /\ r.seen = m.saw /\ r.flight = closed.flight
          /\ r.bracket = closed.bracket /\ r.reported = closed.reported
          /\ r.observed = closed.observed /\ r.written \in {closed.written, Now}
      <4>1. closed.record # None /\ closed.seen \in Nat
        BY <2>1, <2>4 DEF Became, Timely, Engines
      <4>2. Known(closed, None, m.saw) = m.saw
        BY <4>1 DEF Known
      <4> QED
        BY <1>1, <3>5, <4>2, RecordedSays
    <3>4. Handled(engine, m) = r
      BY <2>3, <2>4
    <3> HIDE DEF r
    <3> QED
      BY <1>1, <2>1, <2>2, <2>4, <3>2, <3>3, <3>4 DEF HandledSo, Became, Timely, Whole
  <2>5. CASE ~(engine.bracket = "open" /\ engine.flight = {} /\ engine.record # None)
    BY <1>0, <2>1, <2>2, <2>3, <2>5 DEF HandledSo, Became
  <2> QED
    BY <2>4, <2>5
<1>7. CASE m.kind \in {"started", "aborted"}
  <2> DEFINE b == IF m.kind = "started" THEN "open" ELSE "closed"
  <2>1. Handled(engine, m) = [engine EXCEPT !.bracket = b] /\ b \in {"closed", "open"}
    BY <1>7 DEF Handled, Started, Aborted
  <2>2. Emptied(engine.flight, m.kind) = engine.flight /\ Bracketed(engine.bracket, m.kind) = b
    BY <1>7 DEF Emptied, Bracketed, News
  <2> HIDE DEF b
  <2>3. Became([engine EXCEPT !.bracket = b], engine.record, engine.seen, engine.flight, b)
    BY <1>0, <2>1, ClosedSays
  <2> QED
    BY <1>0, <2>1, <2>2, <2>3 DEF HandledSo, Became
<1> QED
  BY <1>2, <1>3, <1>5, <1>6, <1>7, <1>8, <1>9

LEMMA ReportSays ==
  ASSUME IInv, Report
  PROVE  /\ TimedTyped /\ SameLooks(look) /\ Drops
         /\ engine'.seen \in DOMAIN disk /\ engine'.record = disk[engine'.seen].holds
         /\ engine'.flight = Emptied(engine.flight, inputs[1].kind)
         /\ engine'.bracket = Bracketed(engine.bracket, inputs[1].kind)
         /\ engine'.record # engine.record /\ ~Lands(engine, inputs[1]) =>
                Whole(engine'.record, engine'.seen)
         /\ released' = released \/ \E c \in Maybe : released' = Append(released, Job("record", None, c))
         /\ UNCHANGED <<disk, copy, commit, scan, spent>>
<1> DEFINE m == Relative(engine, Head(inputs))
           e == Handled(engine, m)
           q == Tail(inputs)
<1> USE DEF IInv
<1>1. /\ inputs \in Seq(Msgs) /\ Len(inputs) <= MaxInputs /\ inputs # <<>>
  BY DEF Typed, Report
<1>2. /\ Len(inputs) > 0 /\ Len(inputs) \in Nat /\ Head(inputs) = inputs[1] /\ inputs[1] \in Msgs
      /\ 1 \in DOMAIN inputs
      /\ q \in Seq(Msgs) /\ Len(q) = Len(inputs) - 1 /\ DOMAIN q = 1..Len(inputs) - 1
      /\ \A i \in 1..Len(inputs) - 1 : q[i] = inputs[i + 1]
  BY <1>1
<1>3. /\ m \in Msgs /\ m.kind = inputs[1].kind /\ m.saw = inputs[1].saw /\ m.at = inputs[1].at
  BY <1>2, RelativeSays
<1>4. m.found = "unchanged" => m.compared = engine.record
  BY <1>2, RelativeSays
<1>5. m.at <= Now
  BY <1>2, <1>3, LookTimes
<1>6. m.kind = "finished" => m.saw # 0 \/ engine.bracket = "seen"
  BY <1>2, <1>3 DEF Told, ToldBy
<1>7. m.kind = "ok" => m.saw \in DOMAIN disk /\ engine.flight = {disk[m.saw].holds}
  <2>1. inputs[1].kind = "ok" =>
          inputs[1].saw \in DOMAIN disk /\ engine.flight = {disk[inputs[1].saw].holds}
    BY <1>2 DEF OneFlight, Outcomes
  <2> QED
    BY <2>1, <1>3
<1>8. /\ Timed(e, look, q)
      /\ released' = IF e.record = engine.record THEN released
                     ELSE Append(released, Job("record", None, e.record))
  BY DEF Report
<1> HIDE DEF m
<1>9. MsgTrue(disk, m) /\ (Lands(engine, m) => Lands(engine, inputs[1]))
  <2>1. MsgTrue(disk, m)
    BY <1>2, RelativeSays DEF LooksTrue, m
  <2>2. Lands(engine, m) => Lands(engine, inputs[1])
    BY <1>2, RelativeSays DEF Lands, Relative, m
  <2> QED
    BY <2>1, <2>2
<1>10. HandledSo(e, m)
  BY <1>3, <1>4, <1>5, <1>6, <1>7, <1>9, HandledSays
<1> HIDE DEF e, q
<1>11. e \in Engines /\ look \in [Observers -> Looks] /\ Now \in Nat
  BY <1>10, LookTimes DEF HandledSo, Timely, Typed
<1>12. \A t \in TimesOf(e, look, q) : t <= Now
  <2>1. \A i \in 1..Len(inputs) - 1 : q[i].at <= Now
    <3> TAKE i \in 1..Len(inputs) - 1
    <3>1. i + 1 \in 1..Len(inputs) /\ q[i] = inputs[i + 1]
      BY <1>2
    <3> QED
      BY <3>1, LookTimes
  <2>2. /\ 0 <= Now /\ e.reported <= Now /\ e.observed <= Now /\ e.written <= Now
        /\ \A o \in Observers : look[o].at <= Now
    BY <1>10, LookTimes DEF HandledSo, Timely
  <2> QED
    BY <1>2, <2>1, <2>2 DEF TimesOf
<1>13. /\ engine' \in Engines /\ look' \in [Observers -> Looks] /\ inputs' \in Seq(Msgs)
       /\ Bounded' /\ SameEngine(e) /\ SameLooks(look) /\ SameQueue(q)
  BY <1>2, <1>8, <1>11, <1>12, TimedSays
<1>14. Len(inputs') = Len(inputs) - 1 /\ Drops
  BY <1>2, <1>13 DEF SameQueue, Drops
<1>15. TimedTyped
  BY <1>1, <1>2, <1>13, <1>14, ScanAssumption DEF TimedTyped
<1>16. released' = released \/ \E c \in Maybe : released' = Append(released, Job("record", None, c))
  BY <1>8, <1>11 DEF Engines
<1>17. UNCHANGED <<disk, copy, commit, scan, spent>>
  BY DEF Report
<1> QED
  BY <1>3, <1>9, <1>10, <1>13, <1>14, <1>15, <1>16, <1>17 DEF HandledSo, SameEngine

-----------------------------------------------------------------------------
(* Types.                                                                     *)

Commits == [pc : {"none", "placing", "landed", "failed"}, expected : Maybe, leaves : Maybe]
Scans   == [pc : {"none", "walking", "walked"}, copy : Maybe, missing : Nat]
Spents  == [looks : Nat, edits : Nat, commits : Nat, faults : Nat]

LEMMA UntimedSays ==
  ASSUME Typed, Bounded, Untimed
  PROVE  TimedTyped /\ SameEngine(engine) /\ SameLooks(look) /\ SameQueue(inputs)
BY DEF Untimed, Typed, Bounded, TimesOf, TimedTyped, SameEngine, SameLooks, SameQueue, SameMsg, SameBut

LEMMA SpendSays ==
  ASSUME Typed, NEW what \in {"looks", "edits", "commits", "faults"}, Spend(what)
  PROVE  spent' \in Spents
BY DEF Typed, Spend, Spents

LEMMA NoneTyped == None \in Maybe /\ NoCommit \in Commits /\ NoScan \in Scans
BY DEF NoCommit, Commits, Maybe, NoScan, Scans

LEMMA AppendJob ==
  ASSUME Typed, NEW j \in Jobs, released' = Append(released, j)
  PROVE  /\ released' \in Seq(Jobs) /\ Len(released') = Len(released) + 1
         /\ released'[Len(released) + 1] = j
         /\ \A i \in 1..Len(released) : released'[i] = released[i]
         /\ DOMAIN released' = 1..Len(released) + 1
BY DEF Typed

LEMMA NextJobSays ==
  ASSUME Typed, NextJob
  PROVE  /\ released' \in Seq(Jobs) /\ Head(released) \in Jobs /\ Head(released) = released[1]
         /\ Len(released) > 0 /\ 1 \in DOMAIN released /\ Len(released') = Len(released) - 1
         /\ \A i \in 1..Len(released') : released'[i] = released[i + 1]
         /\ DOMAIN released' = 1..Len(released) - 1
<1>1. released \in Seq(Jobs) /\ released # <<>> /\ released' = Tail(released)
  BY DEF Typed, NextJob
<1> QED
  BY <1>1

\* A commit's steps on the disk.
LEMMA HostSteps ==
  ASSUME Typed, TakeCommit \/ Place \/ PlaceFails
  PROVE  disk' = disk \/ \E c \in Maybe : Becomes(c, "host")
BY NoneTyped DEF TakeCommit, Place, PlaceFails, Typed

LEMMA DiskSays ==
  ASSUME Typed, disk' = disk \/ \E c \in Maybe, by \in {"user", "host"} : Becomes(c, by)
  PROVE  disk' \in Seq(States) /\ disk' # <<>> /\ Grown(disk, disk')
<1>1. CASE disk' = disk
  BY <1>1, GrownSame DEF Typed
<1>2. ASSUME NEW c \in Maybe, NEW by \in {"user", "host"}, Becomes(c, by)
      PROVE  disk' \in Seq(States) /\ disk' # <<>> /\ Grown(disk, disk')
  BY <1>2, BecomesSays
<1> QED
  BY <1>1, <1>2

\* The steps, one by one.
LEMMA Steps ==
  ASSUME [Next]_vars
  PROVE  \/ UserDoes \/ Calm \/ (\E o \in Observers : Stat(o)) \/ (\E o \in Observers : Hash(o))
         \/ (\E o \in Observers : Dated(o)) \/ Walked \/ Looked \/ ScanStarts \/ ScanEnds \/ ScanAborts \/ TakeRecord \/ TakeCommit
         \/ Place \/ PlaceFails \/ Landed \/ Report \/ (\E c \in Maybe : Dispatch(c))
         \/ UNCHANGED vars
BY DEF Next, Scanner, Executor, Observers

LEMMA DispatchSays ==
  ASSUME Typed, Bounded, NEW c \in Maybe, Dispatch(c)
  PROVE  /\ engine.flight = {} /\ c # engine.record /\ TimedTyped
         /\ engine'.flight = {c} /\ engine'.record = engine.record /\ engine'.seen = engine.seen
         /\ engine'.bracket = engine.bracket
         /\ released' = Append(released, Job("commit", engine.record, c))
         /\ Job("commit", engine.record, c) \in Jobs
         /\ SameLooks(look) /\ SameQueue(inputs) /\ UNCHANGED <<disk, copy, commit, scan, inputs>>
<1>1. engine \in Engines /\ engine' = [engine EXCEPT !.flight = {c}]
  BY DEF Typed, Dispatch
<1>2. /\ engine' \in Engines /\ engine'.flight = {c} /\ engine'.record = engine.record
      /\ engine'.seen = engine.seen /\ engine'.bracket = engine.bracket
      /\ engine'.reported = engine.reported /\ engine'.observed = engine.observed
      /\ engine'.written = engine.written
  BY <1>1 DEF Engines
<1>3. UNCHANGED <<disk, copy, commit, scan, look, inputs>>
  BY DEF Dispatch
<1>4. TimesOf(engine, look, inputs)' = TimesOf(engine, look, inputs)
  BY <1>2, <1>3 DEF TimesOf
<1>5. Bounded'
  BY <1>4 DEF Bounded
<1>6. TimedTyped
  BY <1>2, <1>3, <1>5 DEF TimedTyped, Typed
<1>7. Job("commit", engine.record, c) \in Jobs
  BY <1>1 DEF Job, Jobs, Engines
<1> QED
  BY <1>2, <1>3, <1>6, <1>7
     DEF Dispatch, SameLooks, SameQueue, SameMsg, SameBut

\* The rest of a step that leaves the engine's flight and what it saw.
LEMMA TypedAfter ==
  ASSUME Typed, TimedTyped, SameEngine(engine), disk' \in Seq(States), disk' # <<>>,
         Grown(disk, disk'), copy' \in Maybe, released' \in Seq(Jobs), commit' \in Commits,
         scan' \in Scans, spent' \in Spents
  PROVE  Typed'
BY DEF Typed, TimedTyped, SameEngine, Grown, Commits, Scans, Spents

LEMMA StepTyped ==
  ASSUME IInv, [Next]_vars
  PROVE  Typed' /\ Bounded' /\ Grown(disk, disk')
<1> USE DEF IInv
<1>0. /\ disk \in Seq(States) /\ disk # <<>> /\ Grown(disk, disk) /\ copy \in Maybe
      /\ released \in Seq(Jobs) /\ commit \in Commits /\ scan \in Scans /\ spent \in Spents
  BY DEF Typed, Grown, Commits, Scans, Spents
<1>1. CASE UserDoes
  <2>1. PICK c \in Maybe : Becomes(c, "user")
    BY <1>1 DEF UserDoes
  <2>2. disk' \in Seq(States) /\ disk' # <<>> /\ Grown(disk, disk')
    BY <2>1, BecomesSays
  <2>3. spent' \in Spents
    BY <1>1, SpendSays DEF UserDoes
  <2>4. TimedTyped /\ SameEngine(engine)
    BY <1>1, UntimedSays DEF UserDoes
  <2> QED
    BY <1>0, <1>1, <2>2, <2>3, <2>4, TypedAfter DEF UserDoes, TimedTyped
<1>2. CASE Calm
  <2>1. Untimed
    BY <1>2 DEF Calm
  <2>2. TimedTyped /\ SameEngine(engine)
    BY <2>1, UntimedSays
  <2> QED
    BY <1>0, <1>2, <2>2, CalmSays, TypedAfter DEF TimedTyped
<1>3. ASSUME NEW o \in Observers, Stat(o) PROVE Typed' /\ Bounded' /\ Grown(disk, disk')
  <2>1. /\ look' \in [Observers -> Looks] /\ Bounded' /\ spent' \in Spents
        /\ UNCHANGED <<disk, engine, copy, released, commit, scan, inputs>>
    BY <1>3, StatSays DEF Spents
  <2> QED
    BY <1>0, <2>1 DEF Typed, Spents
<1>17. ASSUME NEW o \in Observers, Dated(o) PROVE Typed' /\ Bounded' /\ Grown(disk, disk')
  <2>1. /\ TimedTyped /\ SameEngine(engine)
        /\ UNCHANGED <<disk, copy, released, commit, scan, spent>>
    BY <1>17, DatedSays
  <2> QED
    BY <1>0, <2>1, TypedAfter DEF TimedTyped
<1>4. ASSUME NEW o \in Observers, Hash(o) PROVE Typed' /\ Bounded' /\ Grown(disk, disk')
  <2>1. /\ look' \in [Observers -> Looks] /\ Bounded'
        /\ UNCHANGED <<disk, engine, copy, released, commit, scan, inputs, spent>>
    BY <1>4, HashSays
  <2> QED
    BY <1>0, <2>1 DEF Typed
<1>5. CASE Walked
  <2>1. TimedTyped /\ SameEngine(engine) /\ UNCHANGED <<disk, copy, released, commit, spent>>
        /\ scan' \in Scans
    BY <1>5, WalkedSays DEF Scans
  <2> QED
    BY <1>0, <2>1, TypedAfter DEF TimedTyped
<1>6. CASE Looked
  <2>1. TimedTyped /\ SameEngine(engine) /\ UNCHANGED <<disk, copy, released, scan, spent>>
        /\ commit' \in Commits
    BY <1>6, LookedSays, NoneTyped
  <2> QED
    BY <1>0, <2>1, TypedAfter DEF TimedTyped
<1>7. CASE ScanStarts
  <2>1. Sends(look, Note("started", 0)) /\ "started" \in Kinds /\ 0 \in Nat
    BY <1>7 DEF ScanStarts, Kinds
  <2>2. TimedTyped /\ SameEngine(engine)
    BY <2>1, NotesSay
  <2>3. scan' \in Scans
    BY <1>0, <1>7, NoneTyped DEF ScanStarts, Scans
  <2> QED
    BY <1>0, <1>7, <2>2, <2>3, TypedAfter DEF TimedTyped, ScanStarts
<1>8. CASE ScanEnds
  <2>1. Sends(look, Note("finished", scan.missing)) /\ "finished" \in Kinds /\ scan.missing \in Nat
    BY <1>0, <1>8 DEF ScanEnds, Kinds, Ends, Scans
  <2>2. TimedTyped /\ SameEngine(engine)
    BY <2>1, NotesSay
  <2> QED
    BY <1>0, <1>8, <2>2, NoneTyped, TypedAfter DEF TimedTyped, ScanEnds
<1>9. CASE ScanAborts
  <2>1. Sends(look, Note("aborted", 0)) /\ "aborted" \in Kinds /\ 0 \in Nat
    BY <1>9 DEF ScanAborts, Kinds, Ends
  <2>2. TimedTyped /\ SameEngine(engine)
    BY <2>1, NotesSay
  <2>3. spent' \in Spents
    BY <1>9, SpendSays DEF ScanAborts, Fault
  <2> QED
    BY <1>0, <1>9, <2>2, <2>3, NoneTyped, TypedAfter DEF TimedTyped, ScanAborts
<1>10. CASE TakeRecord
  <2>1. Untimed /\ NextJob /\ copy' = Head(released).leaves
    BY <1>10 DEF TakeRecord
  <2>2. TimedTyped /\ SameEngine(engine)
    BY <2>1, UntimedSays
  <2>3. released' \in Seq(Jobs) /\ Head(released) \in Jobs
    BY <2>1, NextJobSays
  <2>4. copy' \in Maybe
    BY <2>1, <2>3 DEF Jobs
  <2> QED
    BY <1>0, <1>10, <2>2, <2>3, <2>4, TypedAfter DEF TimedTyped, TakeRecord
<1>11. CASE TakeCommit
  <2>1. Untimed /\ NextJob
    BY <1>11 DEF TakeCommit
  <2>2. TimedTyped /\ SameEngine(engine)
    BY <2>1, UntimedSays
  <2>3. released' \in Seq(Jobs) /\ Head(released) \in Jobs
    BY <2>1, NextJobSays
  <2>4. commit' \in Commits
    BY <1>11, <2>3 DEF Jobs, Commits, TakeCommit
  <2>5. disk' \in Seq(States) /\ disk' # <<>> /\ Grown(disk, disk')
    BY <1>11, HostSteps, DiskSays
  <2> QED
    BY <1>0, <1>11, <2>2, <2>3, <2>4, <2>5, TypedAfter DEF TimedTyped, TakeCommit
<1>12. CASE Place \/ PlaceFails
  <2>1. Untimed
    BY <1>12 DEF Place, PlaceFails
  <2>2. TimedTyped /\ SameEngine(engine)
    BY <2>1, UntimedSays
  <2>3. disk' \in Seq(States) /\ disk' # <<>> /\ Grown(disk, disk')
    BY <1>12, HostSteps, DiskSays
  <2>4. commit' \in Commits
    BY <1>0, <1>12 DEF Commits, Place, PlaceFails
  <2>5. spent' \in Spents
    BY <1>0, <1>12, SpendSays DEF Place, PlaceFails, Fault
  <2> QED
    BY <1>0, <1>12, <2>2, <2>3, <2>4, <2>5, TypedAfter DEF TimedTyped, Place, PlaceFails
<1>13. CASE Landed
  <2>1. TimedTyped /\ SameEngine(engine) /\ UNCHANGED <<disk, copy, released, commit, scan, spent>>
    BY <1>13, LandedSays
  <2> QED
    BY <1>0, <2>1, TypedAfter DEF TimedTyped
<1>14. CASE Report
  <2>1. /\ TimedTyped /\ engine'.seen \in DOMAIN disk
        /\ engine'.flight = Emptied(engine.flight, inputs[1].kind)
        /\ UNCHANGED <<disk, copy, commit, scan, spent>>
    BY <1>14, ReportSays
  <2>2. released' \in Seq(Jobs)
    <3>1. CASE released' = released
      BY <1>0, <3>1
    <3>2. ASSUME NEW c \in Maybe, released' = Append(released, Job("record", None, c))
          PROVE  released' \in Seq(Jobs)
      <4>1. Job("record", None, c) \in Jobs
        BY NoneTyped DEF Job, Jobs
      <4> QED
        BY <3>2, <4>1, AppendJob
    <3> QED
      BY <1>14, <3>1, <3>2, ReportSays
  <2>3. \A b, c \in engine'.flight : b = c
    BY <2>1 DEF Emptied, Typed
  <2> QED
    BY <1>0, <2>1, <2>2, <2>3 DEF TimedTyped, Typed
<1>15. ASSUME NEW c \in Maybe, Dispatch(c) PROVE Typed' /\ Bounded' /\ Grown(disk, disk')
  <2>1. /\ TimedTyped /\ engine'.flight = {c} /\ engine'.seen = engine.seen
        /\ released' = Append(released, Job("commit", engine.record, c))
        /\ Job("commit", engine.record, c) \in Jobs
        /\ UNCHANGED <<disk, copy, commit, scan, inputs>>
    BY <1>15, DispatchSays
  <2>2. released' \in Seq(Jobs)
    BY <2>1, AppendJob
  <2>3. spent' \in Spents
    BY <1>15, SpendSays DEF Dispatch
  <2>4. engine'.seen \in DOMAIN disk' /\ \A a, b \in engine'.flight : a = b
    BY <2>1 DEF Typed
  <2> QED
    BY <1>0, <2>1, <2>2, <2>3, <2>4 DEF TimedTyped, Typed, Spents
<1>16. CASE UNCHANGED vars
  BY <1>0, <1>16 DEF vars, Typed, Bounded, TimesOf
<1> QED
  BY <1>1, <1>2, <1>3, <1>4, <1>5, <1>6, <1>7, <1>8, <1>9, <1>10, <1>11, <1>12, <1>13, <1>14,
     <1>15, <1>16, <1>17, Steps

-----------------------------------------------------------------------------
(* What every step but a few leaves alone.                                    *)

NotesOf == ScanStarts \/ ScanEnds \/ ScanAborts
Jobbing == TakeRecord \/ TakeCommit \/ Place \/ PlaceFails

LEMMA QuietLooks ==
  ASSUME IInv, \/ UserDoes \/ Calm \/ NotesOf \/ Jobbing \/ Report
               \/ (\E c \in Maybe : Dispatch(c)) \/ UNCHANGED vars
  PROVE  SameLooks(look)
<1> USE DEF IInv
<1>1. CASE UserDoes \/ Calm \/ Jobbing
  BY <1>1, UntimedSays DEF UserDoes, Calm, Jobbing, TakeRecord, TakeCommit, Place, PlaceFails
<1>2. CASE NotesOf
  <2>1. \/ Sends(look, Note("started", 0)) \/ Sends(look, Note("finished", scan.missing))
        \/ Sends(look, Note("aborted", 0))
    BY <1>2 DEF NotesOf, ScanStarts, ScanEnds, ScanAborts
  <2>2. {"started", "finished", "aborted"} \subseteq Kinds /\ scan.missing \in Nat /\ 0 \in Nat
    BY DEF Kinds, Ends, Typed
  <2> QED
    BY <2>1, <2>2, NotesSay
<1>4. CASE Report
  BY <1>4, ReportSays
<1>5. CASE \E c \in Maybe : Dispatch(c)
  BY <1>5, DispatchSays
<1>6. CASE UNCHANGED vars
  BY <1>6 DEF vars, SameLooks, SameBut
<1> QED
  BY <1>1, <1>2, <1>4, <1>5, <1>6

LEMMA QuietEngine ==
  ASSUME IInv, \/ UserDoes \/ Calm \/ (\E o \in Observers : Stat(o)) \/ (\E o \in Observers : Hash(o))
               \/ (\E o \in Observers : Dated(o)) \/ Walked \/ Looked \/ NotesOf \/ Jobbing \/ Landed \/ UNCHANGED vars
  PROVE  SameEngine(engine)
<1> USE DEF IInv
<1>1. CASE UserDoes \/ Calm \/ Jobbing
  BY <1>1, UntimedSays DEF UserDoes, Calm, Jobbing, TakeRecord, TakeCommit, Place, PlaceFails
<1>2. CASE NotesOf
  <2>1. \/ Sends(look, Note("started", 0)) \/ Sends(look, Note("finished", scan.missing))
        \/ Sends(look, Note("aborted", 0))
    BY <1>2 DEF NotesOf, ScanStarts, ScanEnds, ScanAborts
  <2>2. {"started", "finished", "aborted"} \subseteq Kinds /\ scan.missing \in Nat /\ 0 \in Nat
    BY DEF Kinds, Ends, Typed
  <2> QED
    BY <2>1, <2>2, NotesSay
<1>3. CASE Landed
  BY <1>3, LandedSays
<1>4. CASE \E o \in Observers : Stat(o)
  BY <1>4, StatSays DEF SameEngine
<1>5. CASE \E o \in Observers : Hash(o)
  BY <1>5, HashSays DEF SameEngine
<1>9. CASE \E o \in Observers : Dated(o)
  BY <1>9, DatedSays
<1>6. CASE Walked
  BY <1>6, WalkedSays
<1>7. CASE Looked
  BY <1>7, LookedSays
<1>8. CASE UNCHANGED vars
  BY <1>8 DEF vars, SameEngine
<1> QED
  BY <1>1, <1>2, <1>3, <1>4, <1>5, <1>6, <1>7, <1>8, <1>9

Silent == UserDoes \/ Calm \/ (\E o \in Observers : Stat(o)) \/ (\E o \in Observers : Hash(o))
              \/ (\E o \in Observers : Dated(o)) \/ Jobbing \/ Landed \/ (\E c \in Maybe : Dispatch(c)) \/ UNCHANGED vars

\* What a step does to the queue.
LEMMA QueueForms ==
  ASSUME IInv, [Next]_vars
  PROVE  \/ Silent /\ SameQueue(inputs)
         \/ Walked /\ SameQueue(inputs) /\ scan'.missing # 0
         \/ Walked /\ \E m \in Msgs : Adds(m) /\ m.kind = "seen" /\ MsgTrue(disk, m)
         \/ Looked /\ \E m \in Msgs : /\ Adds(m) /\ MsgTrue(disk, m) /\ m.kind = Kind
                                      /\ m.kind = "ok" => LastDone(m.saw, commit.leaves)
         \/ ScanStarts /\ \E m \in Msgs : Adds(m) /\ m.kind = "started"
         \/ ScanEnds /\ \E m \in Msgs : Adds(m) /\ m.kind = "finished" /\ m.saw = scan.missing
         \/ ScanAborts /\ \E m \in Msgs : Adds(m) /\ m.kind = "aborted"
         \/ Report /\ Drops
<1> USE DEF IInv
<1>0. /\ "started" \in Kinds /\ "finished" \in Kinds /\ "aborted" \in Kinds
      /\ scan.missing \in Nat /\ 0 \in Nat
  BY DEF Kinds, Ends, Typed
<1>1. CASE Walked
  BY <1>1, WalkedSays
<1>2. CASE Looked
  BY <1>2, LookedSays
<1>3. CASE ScanStarts
  <2>1. Sends(look, Note("started", 0))
    BY <1>3 DEF ScanStarts
  <2>2. \E m \in Msgs : Adds(m) /\ m.kind = "started" /\ m.saw = 0
    BY <1>0, <2>1, NotesSay
  <2> QED
    BY <1>3, <2>2
<1>4. CASE ScanEnds
  <2>1. Sends(look, Note("finished", scan.missing))
    BY <1>4 DEF ScanEnds
  <2>2. \E m \in Msgs : Adds(m) /\ m.kind = "finished" /\ m.saw = scan.missing
    BY <1>0, <2>1, NotesSay
  <2> QED
    BY <1>4, <2>2
<1>5. CASE ScanAborts
  <2>1. Sends(look, Note("aborted", 0))
    BY <1>5 DEF ScanAborts
  <2>2. \E m \in Msgs : Adds(m) /\ m.kind = "aborted" /\ m.saw = 0
    BY <1>0, <2>1, NotesSay
  <2> QED
    BY <1>5, <2>2
<1>6. CASE Landed
  BY <1>6, LandedSays DEF Silent
<1>7. CASE Report
  BY <1>7, ReportSays
<1>8. CASE UserDoes \/ Calm \/ Jobbing
  <2>1. SameQueue(inputs)
    BY <1>8, UntimedSays DEF UserDoes, Calm, Jobbing, TakeRecord, TakeCommit, Place, PlaceFails
  <2> QED
    BY <1>8, <2>1 DEF Silent
<1>9. CASE \E o \in Observers : Stat(o)
  BY <1>9, StatSays DEF Silent, SameQueue, SameMsg, SameBut
<1>13. CASE \E o \in Observers : Dated(o)
  BY <1>13, DatedSays DEF Silent
<1>10. CASE \E o \in Observers : Hash(o)
  BY <1>10, HashSays DEF Silent, SameQueue, SameMsg, SameBut
<1>11. CASE \E c \in Maybe : Dispatch(c)
  BY <1>11, DispatchSays DEF Silent
<1>12. CASE UNCHANGED vars
  BY <1>12 DEF Silent, vars, SameQueue, SameMsg, SameBut
<1> QED
  BY <1>1, <1>2, <1>3, <1>4, <1>5, <1>6, <1>7, <1>8, <1>9, <1>10, <1>11, <1>12, <1>13, Steps
     DEF Jobbing

LEMMA LookStays ==
  ASSUME NEW d, NEW e, Grown(d, e), NEW l, NEW k, LookTrue(d, l), k.pc = l.pc, SameBut(k, l)
  PROVE  LookTrue(e, k)
BY FoundStays DEF LookTrue, SameBut

LEMMA MsgStays ==
  ASSUME NEW d, NEW e, Grown(d, e), NEW m, NEW n, MsgTrue(d, m), SameMsg(n, m)
  PROVE  MsgTrue(e, n)
BY FoundStays, GoneStays DEF MsgTrue, SameMsg, SameBut

\* The reports stay true.
LEMMA QueueTrue ==
  ASSUME IInv, [Next]_vars
  PROVE  \A i \in 1..Len(inputs') : MsgTrue(disk', inputs'[i])
<1> USE DEF IInv
<1>0. Grown(disk, disk') /\ Len(inputs) \in Nat /\ DOMAIN inputs = 1..Len(inputs)
  BY StepTyped, Domains
<1>1. \A i \in 1..Len(inputs) : MsgTrue(disk, inputs[i])
  BY <1>0 DEF LooksTrue
<1>2. ASSUME SameQueue(inputs) PROVE \A i \in 1..Len(inputs') : MsgTrue(disk', inputs'[i])
  BY <1>0, <1>1, <1>2, MsgStays DEF SameQueue
<1>3. ASSUME NEW m \in Msgs, Adds(m), MsgTrue(disk, m)
      PROVE  \A i \in 1..Len(inputs') : MsgTrue(disk', inputs'[i])
  <2> SUFFICES ASSUME NEW i \in 1..Len(inputs) + 1 PROVE MsgTrue(disk', inputs'[i])
    BY <1>3 DEF Adds
  <2>1. CASE i \in 1..Len(inputs)
    BY <1>0, <1>1, <1>3, <2>1, MsgStays DEF Adds
  <2>2. CASE i = Len(inputs) + 1
    BY <1>0, <1>3, <2>2, MsgStays DEF Adds
  <2> QED
    BY <1>0, <2>1, <2>2
<1>4. ASSUME Drops PROVE \A i \in 1..Len(inputs') : MsgTrue(disk', inputs'[i])
  <2> SUFFICES ASSUME NEW i \in 1..Len(inputs') PROVE MsgTrue(disk', inputs'[i])
    OBVIOUS
  <2>1. i + 1 \in 1..Len(inputs) /\ SameMsg(inputs'[i], inputs[i + 1])
    BY <1>0, <1>4 DEF Drops
  <2> QED
    BY <1>0, <1>1, <2>1, MsgStays
<1>5. \A m \in Msgs : /\ m.kind \in {"started", "aborted", "ok"} => MsgTrue(disk, m)
                      /\ m.kind = "finished" /\ m.saw = scan.missing => MsgTrue(disk, m)
  BY DEF MsgTrue, LooksTrue
<1> QED
  BY <1>2, <1>3, <1>4, <1>5, QueueForms

\* How each look comes about.
LEMMA LooksForms ==
  ASSUME IInv, [Next]_vars, NEW o \in Observers
  PROVE  \/ look'[o].pc = look[o].pc /\ SameBut(look'[o], look[o])
         \/ look'[o].pc = "none"
         \/ /\ LookTrue(disk, look'[o]) /\ (MayLook(o) \/ look[o].pc \in {"stated", "hashing"})
            /\ look'[o].found # "none" /\ UNCHANGED <<scan, commit>>
         \/ Landed /\ o = "executor"
<1> USE DEF IInv
<1> DEFINE Looks3 == /\ LookTrue(disk, look'[o]) /\ (MayLook(o) \/ look[o].pc \in {"stated", "hashing"})
                     /\ look'[o].found # "none" /\ UNCHANGED <<scan, commit>>
<1>1. ASSUME NEW p \in Observers, Stat(p)
      PROVE  (look'[o].pc = look[o].pc /\ SameBut(look'[o], look[o])) \/ Looks3
  BY <1>1, StatSays DEF SameBut
<1>2. ASSUME NEW p \in Observers, Hash(p)
      PROVE  (look'[o].pc = look[o].pc /\ SameBut(look'[o], look[o])) \/ Looks3
  BY <1>2, HashSays DEF SameBut
<1>6. ASSUME NEW p \in Observers, Dated(p)
      PROVE  (look'[o].pc = look[o].pc /\ SameBut(look'[o], look[o])) \/ Looks3
  <2>1. LookTrue(disk, look[p])
    BY DEF LooksTrue
  <2> QED
    BY <1>6, <2>1, DatedSays DEF SameBut, LookTrue
<1>7. CASE Landed
  BY <1>7, LandedSays DEF Observers
<1>3. CASE Walked
  BY <1>3, WalkedSays DEF LookOver
<1>4. CASE Looked
  BY <1>4, LookedSays DEF LookOver
<1>5. CASE \/ UserDoes \/ Calm \/ NotesOf \/ Jobbing \/ Report
           \/ (\E c \in Maybe : Dispatch(c)) \/ UNCHANGED vars
  BY <1>5, QuietLooks DEF SameLooks
<1> QED
  BY <1>1, <1>2, <1>3, <1>4, <1>5, <1>6, <1>7, Steps DEF NotesOf, Jobbing

\* What each step may change of the rest.
LEMMA Frames ==
  ASSUME [Next]_vars
  PROVE  /\ scan' = scan \/ Walked \/ ScanStarts \/ ScanEnds \/ ScanAborts
         /\ commit' = commit \/ Looked \/ TakeCommit \/ Place \/ PlaceFails
         /\ disk' = disk \/ UserDoes \/ Calm \/ TakeCommit \/ Place \/ PlaceFails
         /\ \/ released' = released \/ TakeRecord \/ TakeCommit \/ Report
            \/ \E c \in Maybe : Dispatch(c)
<1>1. CASE UserDoes
  BY <1>1 DEF UserDoes
<1>2. CASE Calm
  BY <1>2 DEF Calm
<1>3. CASE \E o \in Observers : Stat(o)
  BY <1>3 DEF Stat
<1>4. CASE \E o \in Observers : Hash(o)
  BY <1>4 DEF Hash
<1>5. CASE Walked
  BY <1>5 DEF Walked
<1>6. CASE Looked
  BY <1>6 DEF Looked
<1>7. CASE ScanStarts
  BY <1>7 DEF ScanStarts
<1>8. CASE ScanEnds
  BY <1>8 DEF ScanEnds
<1>9. CASE ScanAborts
  BY <1>9 DEF ScanAborts
<1>10. CASE TakeRecord
  BY <1>10 DEF TakeRecord
<1>11. CASE TakeCommit
  BY <1>11 DEF TakeCommit
<1>12. CASE Place \/ PlaceFails
  BY <1>12 DEF Place, PlaceFails
<1>13. CASE Landed
  BY <1>13 DEF Landed
<1>14. CASE Report
  BY <1>14 DEF Report
<1>15. CASE \E c \in Maybe : Dispatch(c)
  BY <1>15 DEF Dispatch
<1>16. CASE UNCHANGED vars
  BY <1>16 DEF vars
<1>17. CASE \E o \in Observers : Dated(o)
  BY <1>17 DEF Dated
<1> QED
  BY <1>1, <1>2, <1>3, <1>4, <1>5, <1>6, <1>7, <1>8, <1>9, <1>10, <1>11, <1>12, <1>13, <1>14,
     <1>15, <1>16, <1>17, Steps

LEMMA StepLooksTrue ==
  ASSUME IInv, [Next]_vars
  PROVE  LooksTrue'
<1> USE DEF IInv
<1>0. Grown(disk, disk') /\ DOMAIN inputs' = 1..Len(inputs')
  BY StepTyped, Domains DEF Typed
<1>1. ASSUME NEW o \in Observers PROVE LookTrue(disk', look'[o])
  <2>1. LookTrue(disk, look[o])
    BY DEF LooksTrue
  <2>2. look'[o].pc = "none" => LookTrue(disk', look'[o])
    BY DEF LookTrue
  <2>3. LookTrue(disk, look'[o]) => LookTrue(disk', look'[o])
    BY <1>0, LookStays DEF SameBut
  <2>4. look'[o].pc = look[o].pc /\ SameBut(look'[o], look[o]) => LookTrue(disk', look'[o])
    BY <1>0, <2>1, LookStays
  <2>5. Landed /\ o = "executor" => LookTrue(disk, look'[o])
    BY LandedSays
  <2> QED
    BY <2>2, <2>3, <2>4, <2>5, LooksForms
<1>2. \A i \in DOMAIN inputs' : MsgTrue(disk', inputs'[i])
  BY <1>0, QueueTrue
<1>3. Gone(disk', scan'.missing)
  <2>1. ScanStarts \/ ScanEnds \/ ScanAborts => scan'.missing = 0
    <3>1. ScanStarts => scan'.missing = 0
      BY DEF ScanStarts, NoScan
    <3>2. ScanEnds => scan'.missing = 0
      BY DEF ScanEnds, NoScan
    <3>3. ScanAborts => scan'.missing = 0
      BY DEF ScanAborts, NoScan
    <3> QED
      BY <3>1, <3>2, <3>3
  <2>2. scan' = scan \/ Walked \/ ScanStarts \/ ScanEnds \/ ScanAborts
    BY Frames
  <2>3. Gone(disk, scan'.missing)
    BY <2>1, <2>2, WalkedSays DEF Gone, LooksTrue
  <2> QED
    BY <1>0, <2>3, GoneStays
<1> QED
  BY <1>1, <1>2, <1>3 DEF LooksTrue

LEMMA StepRecordTruthful ==
  ASSUME IInv, [Next]_vars
  PROVE  RecordTruthful'
<1> USE DEF IInv
<1>0. Grown(disk, disk') /\ engine.seen \in DOMAIN disk
  BY StepTyped DEF Typed
<1>1. CASE Report
  BY <1>1, ReportSays DEF RecordTruthful
<1>2. CASE \E c \in Maybe : Dispatch(c)
  BY <1>2, DispatchSays DEF RecordTruthful
<1>3. ASSUME SameEngine(engine) PROVE RecordTruthful'
  BY <1>0, <1>3 DEF RecordTruthful, SameEngine, Grown
<1> QED
  BY <1>1, <1>2, <1>3, QuietEngine, Steps DEF NotesOf, Jobbing

LEMMA StepBusy ==
  ASSUME IInv, [Next]_vars
  PROVE  Busy'
<1> USE DEF IInv
<1>0. "scan" \in Observers /\ "executor" \in Observers
  BY DEF Observers
<1>1. look'["scan"].pc # "none" => scan'.pc = "walking" /\ look'["scan"].found # "none"
  <2>1. \/ scan' = scan \/ Walked
        \/ scan.pc \in {"none", "walked"}
        \/ look["scan"].pc = "none" /\ ScanAborts
    BY Frames DEF ScanStarts, ScanEnds, ScanAborts
  <2>2. Walked => look'["scan"].pc = "none"
    BY WalkedSays DEF LookOver
  <2>3. ScanAborts => look'["scan"].pc = look["scan"].pc
    BY <1>0, QuietLooks DEF NotesOf, SameLooks
  <2>5. \/ look'["scan"].pc = look["scan"].pc /\ look'["scan"].found = look["scan"].found
        \/ look'["scan"].pc = "none"
        \/ /\ MayLook("scan") \/ look["scan"].pc \in {"stated", "hashing"}
           /\ look'["scan"].found # "none" /\ scan' = scan
    BY <1>0, LooksForms DEF SameBut
  <2>4. look'["scan"].pc # "none" =>
          /\ look["scan"].pc # "none" \/ (scan.pc = "walking" /\ scan' = scan)
          /\ look'["scan"].found # "none"
    BY <2>5 DEF MayLook, Busy
  <2> QED
    BY <2>1, <2>2, <2>3, <2>4 DEF Busy
<1>2. look'["executor"].pc # "none" =>
          IF look'["executor"].found = "none" THEN commit'.pc = "landed"
          ELSE commit'.pc \in {"none", "failed"}
  <2>1. CASE Landed
    BY <2>1, LandedSays
  <2>2. CASE Looked
    BY <2>2, LookedSays DEF LookOver
  <2>3. CASE Jobbing
    <3>1. look'["executor"].pc = look["executor"].pc /\ look'["executor"].found = look["executor"].found
      BY <1>0, <2>3, QuietLooks DEF SameLooks, SameBut
    <3>2. commit' = commit \/ Idle \/ commit.pc = "placing"
      BY <2>3 DEF Jobbing, TakeRecord, TakeCommit, NextJob, Place, PlaceFails
    <3> QED
      BY <3>1, <3>2 DEF Busy, Idle
  <2>4. CASE ~Landed /\ ~Looked /\ ~Jobbing
    <3>1. commit' = commit
      BY <2>4, Frames DEF Jobbing
    <3>2. \/ /\ look'["executor"].pc = look["executor"].pc
             /\ look'["executor"].found = look["executor"].found
          \/ look'["executor"].pc = "none"
          \/ /\ MayLook("executor") \/ look["executor"].pc \in {"stated", "hashing"}
             /\ look'["executor"].found # "none"
      BY <1>0, <2>4, LooksForms DEF SameBut
    <3>3. look["executor"].pc \in {"stated", "hashing"} => look["executor"].found # "none"
      BY <1>0 DEF LooksTrue, LookTrue
    <3> QED
      BY <3>1, <3>2, <3>3 DEF Busy, MayLook
  <2> QED
    BY <2>1, <2>2, <2>3, <2>4
<1> QED
  BY <1>1, <1>2 DEF Busy

LEMMA StepLeft ==
  ASSUME IInv, [Next]_vars
  PROVE  Left'
<1> USE DEF IInv
<1>0. DOMAIN disk = 1..Last /\ Last \in Nat \ {0}
  BY Domains
<1> SUFFICES ASSUME commit'.pc = "landed" PROVE Left'
  BY DEF Left
<1>1. \/ commit' = commit \/ TakeCommit \/ Place
  <2>1. Looked => commit' = NoCommit
    BY DEF Looked
  <2>2. PlaceFails => commit'.pc = "failed"
    BY DEF PlaceFails, Typed
  <2> QED
    BY <2>1, <2>2, Frames DEF NoCommit
<1>2. CASE Place \/ (TakeCommit /\ Holds # None)
  <2>1. Becomes(commit'.leaves, "host") /\ commit'.leaves \in Maybe
    <3>1. CASE Place
      BY <3>1 DEF Place, Typed
    <3>2. CASE TakeCommit /\ Holds # None
      BY <3>2, NoneTyped DEF TakeCommit
    <3> QED
      BY <1>2, <3>1, <3>2
  <2>2. /\ DOMAIN disk' = 1..Last + 1 /\ disk'[Last + 1] = State(commit'.leaves, "host")
    BY <2>1, BecomesSays
  <2>3. disk'[Last + 1].by = "host" /\ disk'[Last + 1].holds = commit'.leaves
    BY <2>2 DEF State
  <2>5. look'["executor"].pc = "none"
    <3>1. look["executor"].pc = "none"
      BY <1>2 DEF Place, TakeCommit, NextJob, Idle, Busy
    <3>2. SameLooks(look)
      BY <1>2, QuietLooks DEF Jobbing
    <3> QED
      BY <3>1, <3>2 DEF SameLooks, Observers
  <2>6. \A j \in DOMAIN disk' : disk'[j].by = "host" => j <= Last + 1
    BY <1>0, <2>2
  <2>7. Last + 1 \in DOMAIN disk'
    BY <1>0, <2>2
  <2> QED
    BY <2>3, <2>5, <2>6, <2>7 DEF Left, LastDone
<1>3. CASE commit' = commit
  <2>1. \/ disk' = disk \/ UserDoes \/ Calm
    BY <1>3, Frames DEF TakeCommit, Place, PlaceFails, NextJob, Idle, Busy
  <2>2. PICK i \in DOMAIN disk : /\ LastDone(i, commit.leaves)
                                 /\ look["executor"].pc # "none" => look["executor"].saw = i
    BY <1>3 DEF Left
  <2>3. /\ \A j \in DOMAIN disk' : disk'[j].by = "host" => j \in DOMAIN disk
        /\ Grown(disk, disk')
    <3>1. CASE UserDoes
      <4>1. PICK c \in Maybe : Becomes(c, "user")
        BY <3>1 DEF UserDoes
      <4>2. /\ DOMAIN disk' = 1..Last + 1 /\ disk'[Last + 1] = State(c, "user")
            /\ Grown(disk, disk')
        BY <4>1, BecomesSays
      <4>3. disk'[Last + 1].by = "user"
        BY <4>2 DEF State
      <4> QED
        BY <1>0, <4>2, <4>3
    <3>2. CASE Calm
      BY <3>2, CalmSays
    <3>3. CASE disk' = disk
      BY <3>3, GrownSame
    <3> QED
      BY <2>1, <3>1, <3>2, <3>3
  <2>4. LastDone(i, commit.leaves)'
    BY <1>3, <2>2, <2>3 DEF LastDone, Grown
  <2>5. CASE Landed
    <3>1. LastDone(look'["executor"].saw, commit.leaves) /\ look'["executor"].saw \in Nat
      BY <2>5, LandedSays, Domains DEF LastDone
    <3>2. look'["executor"].saw = i
      BY <1>0, <2>2, <3>1 DEF LastDone
    <3> QED
      BY <2>4, <3>2 DEF Left, LastDone
  <2>6. CASE ~Landed
    <3>1. \/ look'["executor"].pc = look["executor"].pc /\ look'["executor"].saw = look["executor"].saw
          \/ look'["executor"].pc = "none"
      <4>1. ~MayLook("executor") /\ look["executor"].pc \notin {"stated", "hashing"}
        <5>1. commit.pc = "landed"
          BY <1>3
        <5> QED
          BY <5>1 DEF MayLook, Busy, LooksTrue, LookTrue, Observers
      <4> QED
        BY <2>6, <4>1, LooksForms DEF SameBut, Observers
    <3> QED
      BY <2>2, <2>4, <3>1 DEF Left, LastDone
  <2> QED
    BY <2>5, <2>6
<1>4. CASE TakeCommit /\ Holds = None
  \* A commit is of something else than the path is taken to hold.
  <2>1. NextJob /\ Head(released).job = "commit"
    BY <1>4 DEF TakeCommit
  <2>2. 1 \in CommitJobs /\ Head(released) = released[1]
    BY <2>1, NextJobSays DEF CommitJobs
  <2>3. Head(released).expected # Head(released).leaves
    BY <2>2 DEF OneFlight
  <2> QED
    BY <1>4, <2>3 DEF TakeCommit
<1> QED
  BY <1>1, <1>2, <1>3, <1>4

-----------------------------------------------------------------------------
(* One commit at a time.                                                      *)

\* The outcomes that wait, and what is kept of them.
OutcomesKept ==
    \A i \in Outcomes : i \in DOMAIN inputs' /\ SameMsg(inputs'[i], inputs[i])

LEMMA OutcomesForms ==
  ASSUME Typed, Typed'
  PROVE  /\ SameQueue(inputs) => Outcomes' = Outcomes /\ OutcomesKept
         /\ \A m \in Msgs : Adds(m) /\ m.kind \notin {"ok", "failed"} =>
                Outcomes' = Outcomes /\ OutcomesKept
         /\ \A m \in Msgs : Adds(m) /\ m.kind \in {"ok", "failed"} =>
                /\ Outcomes' = Outcomes \cup {Len(inputs) + 1}
                /\ SameMsg(inputs'[Len(inputs) + 1], m)
         /\ Drops => \A i \in Outcomes' : i + 1 \in Outcomes /\ SameMsg(inputs'[i], inputs[i + 1])
<1>0. /\ DOMAIN inputs = 1..Len(inputs) /\ Len(inputs) \in Nat
      /\ DOMAIN inputs' = 1..Len(inputs') /\ Len(inputs') \in Nat
  BY SMTT(30) DEF Typed
<1>1. ASSUME SameQueue(inputs) PROVE Outcomes' = Outcomes /\ OutcomesKept
  BY <1>0, <1>1 DEF SameQueue, Outcomes, OutcomesKept, SameMsg
<1>2. ASSUME NEW m \in Msgs, Adds(m), m.kind \notin {"ok", "failed"}
      PROVE  Outcomes' = Outcomes /\ OutcomesKept
  <2>1. OutcomesKept
    BY <1>0, <1>2 DEF Adds, Outcomes, OutcomesKept
  <2>2. ASSUME NEW i \in Outcomes' PROVE i \in Outcomes
    <3>1. i \in 1..Len(inputs) + 1 /\ inputs'[i].kind \in {"ok", "failed"}
      BY <1>0, <1>2 DEF Adds, Outcomes
    <3>2. i # Len(inputs) + 1
      BY <1>2, <3>1 DEF Adds, SameMsg
    <3>3. i \in 1..Len(inputs)
      BY <1>0, <3>1, <3>2
    <3> QED
      BY <1>0, <1>2, <3>1, <3>3 DEF Adds, SameMsg, Outcomes
  <2>3. Outcomes \subseteq Outcomes'
    BY <1>0, <2>1 DEF Outcomes, OutcomesKept, SameMsg
  <2> QED
    BY <2>1, <2>2, <2>3
<1>3. ASSUME NEW m \in Msgs, Adds(m), m.kind \in {"ok", "failed"}
      PROVE  /\ Outcomes' = Outcomes \cup {Len(inputs) + 1}
             /\ SameMsg(inputs'[Len(inputs) + 1], m)
  <2>1. ASSUME NEW i \in Outcomes' PROVE i \in Outcomes \cup {Len(inputs) + 1}
    <3>1. i \in 1..Len(inputs) + 1 /\ inputs'[i].kind \in {"ok", "failed"}
      BY <1>0, <1>3 DEF Adds, Outcomes
    <3> QED
      BY <1>0, <1>3, <3>1 DEF Adds, SameMsg, Outcomes
  <2>2. ASSUME NEW i \in Outcomes PROVE i \in Outcomes'
    BY <1>0, <1>3 DEF Adds, SameMsg, Outcomes
  <2>3. Len(inputs) + 1 \in Outcomes'
    BY <1>0, <1>3 DEF Adds, SameMsg, Outcomes
  <2> QED
    BY <1>3, <2>1, <2>2, <2>3 DEF Adds
<1>4. ASSUME Drops, NEW i \in Outcomes'
      PROVE  i + 1 \in Outcomes /\ SameMsg(inputs'[i], inputs[i + 1])
  <2>1. i \in 1..Len(inputs') /\ inputs'[i].kind \in {"ok", "failed"}
    BY <1>0 DEF Outcomes
  <2>2. i + 1 \in 1..Len(inputs) /\ SameMsg(inputs'[i], inputs[i + 1])
    BY <1>0, <1>4, <2>1 DEF Drops
  <2> QED
    BY <1>0, <2>1, <2>2 DEF Outcomes, SameMsg
<1> QED
  BY <1>1, <1>2, <1>3, <1>4

\* The commits released.
LEMMA JobsForms ==
  ASSUME Typed
  PROVE  /\ released' = released => CommitJobs' = CommitJobs
         /\ \A c \in Maybe : released' = Append(released, Job("record", None, c)) =>
                /\ CommitJobs' = CommitJobs
                /\ \A i \in CommitJobs : released'[i] = released[i]
         /\ \A e, c \in Maybe : released' = Append(released, Job("commit", e, c)) =>
                /\ CommitJobs' = CommitJobs \cup {Len(released) + 1}
                /\ released'[Len(released) + 1] = Job("commit", e, c)
         /\ NextJob => \A i \in CommitJobs' : i + 1 \in CommitJobs /\ released'[i] = released[i + 1]
<1>0. DOMAIN released = 1..Len(released) /\ Len(released) \in Nat
  BY DEF Typed
<1>1. released' = released => CommitJobs' = CommitJobs
  BY DEF CommitJobs
<1>2. ASSUME NEW c \in Maybe, released' = Append(released, Job("record", None, c))
      PROVE  CommitJobs' = CommitJobs /\ \A i \in CommitJobs : released'[i] = released[i]
  <2>1. Job("record", None, c) \in Jobs /\ Job("record", None, c).job = "record"
    BY NoneTyped DEF Job, Jobs
  <2>2. /\ released'[Len(released) + 1].job = "record"
        /\ \A i \in 1..Len(released) : released'[i] = released[i]
        /\ DOMAIN released' = 1..Len(released) + 1
    BY <1>2, <2>1, AppendJob
  <2> QED
    BY <1>0, <2>2 DEF CommitJobs
<1>3. ASSUME NEW e \in Maybe, NEW c \in Maybe, released' = Append(released, Job("commit", e, c))
      PROVE  /\ CommitJobs' = CommitJobs \cup {Len(released) + 1}
             /\ released'[Len(released) + 1] = Job("commit", e, c)
  <2>1. Job("commit", e, c) \in Jobs /\ Job("commit", e, c).job = "commit"
    BY DEF Job, Jobs
  <2>2. /\ released'[Len(released) + 1] = Job("commit", e, c)
        /\ \A i \in 1..Len(released) : released'[i] = released[i]
        /\ DOMAIN released' = 1..Len(released) + 1
    BY <1>3, <2>1, AppendJob
  <2> QED
    BY <1>0, <2>1, <2>2 DEF CommitJobs
<1>4. ASSUME NextJob, NEW i \in CommitJobs'
      PROVE  i + 1 \in CommitJobs /\ released'[i] = released[i + 1]
  <2>1. i \in 1..Len(released) - 1 /\ released'[i].job = "commit"
        /\ released'[i] = released[i + 1]
    BY <1>0, <1>4, NextJobSays DEF CommitJobs
  <2> QED
    BY <1>0, <2>1 DEF CommitJobs
<1> QED
  BY <1>1, <1>2, <1>3, <1>4

LEMMA StepOneFlight ==
  ASSUME IInv, [Next]_vars
  PROVE  OneFlight'
<1> USE DEF IInv
<1>0. Typed' /\ Grown(disk, disk') /\ NoCommit.pc = "none"
  BY StepTyped DEF NoCommit
<1>11. Outcomes' \subseteq Nat \ {0} /\ CommitJobs' \subseteq Nat \ {0}
  <2>1. DOMAIN inputs' = 1..Len(inputs') /\ DOMAIN released' = 1..Len(released')
    BY <1>0 DEF Typed
  <2> QED
    BY <2>1 DEF Outcomes, CommitJobs
<1>1. CASE UNCHANGED vars
  BY <1>1 DEF vars, OneFlight, CommitJobs, Outcomes
<1>2. ASSUME SameEngine(engine), released' = released, commit' = commit,
             Outcomes' = Outcomes, OutcomesKept
      PROVE  OneFlight'
  <2>1. CommitJobs' = CommitJobs
    BY <1>2 DEF CommitJobs
  <2>2. \A i \in Outcomes : inputs[i].saw \in DOMAIN disk =>
            inputs[i].saw \in DOMAIN disk' /\ disk'[inputs[i].saw].holds = disk[inputs[i].saw].holds
    BY <1>0 DEF Grown
  <2>3. \A i \in Outcomes : inputs'[i].kind = inputs[i].kind /\ inputs'[i].saw = inputs[i].saw
    BY <1>2 DEF OutcomesKept, SameMsg, SameBut
  <2> QED
    BY <1>2, <2>1, <2>2, <2>3 DEF SameEngine, OneFlight
<1>3. CASE UserDoes \/ Calm \/ Landed \/ \E o \in Observers : Stat(o) \/ Hash(o) \/ Dated(o)
  <2>1. SameEngine(engine) /\ SameQueue(inputs)
    <3>1. CASE UserDoes
      BY <3>1, UntimedSays DEF UserDoes
    <3>2. CASE Calm
      BY <3>2, UntimedSays DEF Calm
    <3>3. CASE \E o \in Observers : Stat(o)
      BY <3>3, StatSays DEF SameEngine, SameQueue, SameMsg, SameBut
    <3>4. CASE \E o \in Observers : Hash(o)
      BY <3>4, HashSays DEF SameEngine, SameQueue, SameMsg, SameBut
    <3>5. CASE \E o \in Observers : Dated(o)
      BY <3>5, DatedSays
    <3>6. CASE Landed
      BY <3>6, LandedSays
    <3> QED
      BY <1>3, <3>1, <3>2, <3>3, <3>4, <3>5, <3>6
  <2>2. released' = released /\ commit' = commit
    BY <1>3 DEF UserDoes, Calm, Stat, Hash, Dated, Landed
  <2> QED
    BY <1>0, <1>2, <2>1, <2>2, OutcomesForms
<1>4. CASE Walked
  <2>1. SameEngine(engine) /\ released' = released /\ commit' = commit
    BY <1>4, WalkedSays
  <2>2. SameQueue(inputs) \/ \E m \in Msgs : Adds(m) /\ m.kind = "seen"
    BY <1>4, WalkedSays
  <2> QED
    BY <1>0, <1>2, <2>1, <2>2, OutcomesForms
<1>5. CASE NotesOf
  <2>1. SameEngine(engine)
    BY <1>5, QuietEngine
  <2>2. released' = released /\ commit' = commit
    BY <1>5 DEF NotesOf, ScanStarts, ScanEnds, ScanAborts
  <2>3. \E m \in Msgs : Adds(m) /\ m.kind \in {"started", "finished", "aborted"}
    <3>1. \/ Sends(look, Note("started", 0)) \/ Sends(look, Note("finished", scan.missing))
          \/ Sends(look, Note("aborted", 0))
      BY <1>5 DEF NotesOf, ScanStarts, ScanEnds, ScanAborts
    <3>2. {"started", "finished", "aborted"} \subseteq Kinds /\ scan.missing \in Nat /\ 0 \in Nat
      BY DEF Kinds, Ends, Typed
    <3> QED
      BY <3>1, <3>2, NotesSay
  <2> QED
    BY <1>0, <1>2, <2>1, <2>2, <2>3, OutcomesForms
<1>6. CASE Jobbing
  <2>1. SameEngine(engine)
    BY <1>6, QuietEngine
  <2>2. SameQueue(inputs)
    BY <1>6, UntimedSays DEF Jobbing, TakeRecord, TakeCommit, Place, PlaceFails
  <2>3. Outcomes' = Outcomes /\ OutcomesKept
    BY <1>0, <2>2, OutcomesForms
  <2>4. \A i \in Outcomes :
          /\ inputs'[i].kind = inputs[i].kind
          /\ inputs[i].saw \in DOMAIN disk =>
                inputs'[i].saw \in DOMAIN disk' /\ disk'[inputs'[i].saw].holds = disk[inputs[i].saw].holds
    BY <1>0, <2>3 DEF Grown, OutcomesKept, SameMsg, SameBut
  <2>5. CASE TakeRecord
    <3>1. NextJob /\ commit' = commit /\ commit.pc = "none"
      BY <2>5 DEF TakeRecord, NextJob, Idle
    <3>2. \A i \in CommitJobs' : i + 1 \in CommitJobs /\ released'[i] = released[i + 1]
      BY <3>1, JobsForms
    <3>3. \A i, j \in CommitJobs' : i = j
      <4>1. CommitJobs' \subseteq Nat
        BY <1>0, Domains, SMTT(30) DEF CommitJobs, Typed
      <4>2. \A i, j \in CommitJobs : i = j
        BY DEF OneFlight
      <4> QED
        BY <3>2, <4>1, <4>2
    <3> QED
      BY <2>1, <2>3, <2>4, <3>1, <3>2, <3>3 DEF SameEngine, OneFlight
  <2>6. CASE TakeCommit
    <3>1. /\ NextJob /\ commit'.leaves = Head(released).leaves /\ Head(released).job = "commit"
      BY <2>6 DEF TakeCommit
    <3>2. 1 \in CommitJobs /\ Head(released) = released[1]
      BY <3>1, NextJobSays DEF CommitJobs
    <3>3. CommitJobs' = {}
      <4>1. \A i \in CommitJobs' : i + 1 \in CommitJobs /\ i \in Nat \ {0}
        BY <1>0, <1>11, <3>1, JobsForms
      <4>2. \A i \in CommitJobs' : i + 1 = 1
        BY <3>2, <4>1 DEF OneFlight
      <4> QED
        BY <4>1, <4>2
    <3>4. Outcomes = {} /\ engine.flight = {released[1].leaves}
      BY <3>2 DEF OneFlight
    <3> QED
      BY <2>1, <2>3, <3>1, <3>2, <3>3, <3>4 DEF SameEngine, OneFlight
  <2>7. CASE Place \/ PlaceFails
    <3>1. /\ released' = released /\ commit.pc = "placing" /\ commit'.leaves = commit.leaves
      BY <2>7 DEF Place, PlaceFails, Typed
    <3>2. CommitJobs' = CommitJobs
      BY <3>1, JobsForms
    <3> QED
      BY <2>1, <2>3, <3>1, <3>2 DEF SameEngine, OneFlight
  <2> QED
    BY <1>6, <2>5, <2>6, <2>7 DEF Jobbing
<1>7. CASE Looked
  <2>1. /\ SameEngine(engine) /\ released' = released /\ commit' = NoCommit
        /\ look["executor"].pc = "ready"
    BY <1>7, LookedSays
  <2>2. CommitJobs' = CommitJobs /\ commit'.pc = "none"
    BY <1>0, <2>1, JobsForms
  <2>3. PICK m \in Msgs : /\ Adds(m) /\ m.kind = Kind
                          /\ m.kind = "ok" => LastDone(m.saw, commit.leaves)
    BY <1>7, LookedSays
  <2>4. CASE commit.pc \in {"failed", "landed"}
    <3>1. Outcomes = {} /\ CommitJobs = {} /\ engine.flight = {commit.leaves}
      BY <2>4 DEF OneFlight
    <3>4. m.kind \in {"ok", "failed"}
      BY <2>3, <2>4 DEF Kind
    <3>2. Outcomes' = {Len(inputs) + 1} /\ SameMsg(inputs'[Len(inputs) + 1], m)
      BY <1>0, <2>3, <3>1, <3>4, OutcomesForms
    <3>3. \A i \in Outcomes' : inputs'[i].kind = m.kind /\ inputs'[i].saw = m.saw
      BY <3>2 DEF SameMsg, SameBut
    <3>5. m.kind = "ok" => m.saw \in DOMAIN disk' /\ disk'[m.saw].holds = commit.leaves
      BY <1>0, <2>3 DEF LastDone, Grown
    <3> QED
      BY <2>1, <2>2, <3>1, <3>2, <3>3, <3>5 DEF SameEngine, OneFlight
  <2>5. CASE commit.pc \notin {"failed", "landed"}
    <3>1. commit.pc = "none" /\ m.kind = "seen"
      BY <2>1, <2>3, <2>5 DEF Busy, Kind
    <3>2. Outcomes' = Outcomes /\ OutcomesKept
      BY <1>0, <2>3, <3>1, OutcomesForms
    <3>3. \A i \in Outcomes :
          /\ inputs'[i].kind = inputs[i].kind
          /\ inputs[i].saw \in DOMAIN disk =>
                inputs'[i].saw \in DOMAIN disk' /\ disk'[inputs'[i].saw].holds = disk[inputs[i].saw].holds
      BY <1>0, <3>2 DEF Grown, OutcomesKept, SameMsg, SameBut
    <3> QED
      BY <2>1, <2>2, <3>2, <3>3 DEF SameEngine, OneFlight
  <2> QED
    BY <2>4, <2>5
<1>9. CASE Report
  <2>1. /\ Drops /\ engine'.flight = Emptied(engine.flight, inputs[1].kind)
        /\ disk' = disk /\ commit' = commit
    BY <1>9, ReportSays
  <2>2. /\ CommitJobs' = CommitJobs /\ \A i \in CommitJobs : released'[i] = released[i]
    <3>1. released' = released \/ \E c \in Maybe : released' = Append(released, Job("record", None, c))
      BY <1>9, ReportSays
    <3> QED
      BY <3>1, JobsForms
  <2>3. \A i \in Outcomes' : /\ i + 1 \in Outcomes /\ SameMsg(inputs'[i], inputs[i + 1])
                             /\ i \in Nat \ {0}
    BY <1>0, <1>11, <2>1, OutcomesForms
  <2>4. CASE inputs[1].kind \in {"ok", "failed"}
    <3>1. 1 \in Outcomes
      BY <2>1, <2>4, Domains DEF Outcomes, Drops
    <3>2. Outcomes' = {}
      <4>1. \A i \in Outcomes' : i + 1 = 1
        BY <2>3, <3>1 DEF OneFlight
      <4> QED
        BY <2>3, <4>1
    <3>3. commit.pc = "none" /\ CommitJobs = {}
      BY <3>1 DEF OneFlight
    <3> QED
      BY <2>1, <2>2, <3>2, <3>3 DEF OneFlight
  <2>5. CASE inputs[1].kind \notin {"ok", "failed"}
    <3>1. engine'.flight = engine.flight
      BY <2>1, <2>5 DEF Emptied
    <3>2. \A i \in Outcomes' : inputs'[i].kind = inputs[i + 1].kind /\ inputs'[i].saw = inputs[i + 1].saw
      BY <2>3 DEF SameMsg, SameBut
    <3>3. \A i, j \in Outcomes' : i = j
      <4>1. \A i, j \in Outcomes : i = j
        BY DEF OneFlight
      <4> QED
        BY <2>3, <4>1
    <3>4. Outcomes = {} => Outcomes' = {}
      BY <2>3
    <3> QED
      BY <2>1, <2>2, <2>3, <3>1, <3>2, <3>3, <3>4 DEF OneFlight
  <2> QED
    BY <2>4, <2>5
<1>10. ASSUME NEW c \in Maybe, Dispatch(c) PROVE OneFlight'
  <2>1. /\ engine.flight = {} /\ c # engine.record /\ engine'.flight = {c}
        /\ released' = Append(released, Job("commit", engine.record, c))
        /\ UNCHANGED <<disk, commit, inputs>> /\ engine.record \in Maybe
    BY <1>10, DispatchSays DEF Typed, Engines
  <2>2. commit.pc = "none" /\ Outcomes = {} /\ CommitJobs = {}
    BY <2>1 DEF OneFlight
  <2>3. /\ CommitJobs' = {Len(released) + 1}
        /\ released'[Len(released) + 1] = Job("commit", engine.record, c)
    BY <2>1, <2>2, JobsForms
  <2>4. Outcomes' = {}
    BY <2>1, <2>2 DEF Outcomes
  <2> QED
    BY <2>1, <2>2, <2>3, <2>4 DEF OneFlight, Job
<1> QED
  BY <1>1, <1>3, <1>4, <1>5, <1>6, <1>7, <1>9, <1>10, Steps DEF NotesOf, Jobbing

-----------------------------------------------------------------------------
(* The scan's reports.                                                        *)

\* The queue by its positions.
LEMMA Positions ==
  ASSUME Typed, Typed'
  PROVE  /\ DOMAIN inputs = 1..Len(inputs) /\ Len(inputs) \in Nat
         /\ DOMAIN inputs' = 1..Len(inputs') /\ Len(inputs') \in Nat
         /\ SameQueue(inputs) =>
                /\ DOMAIN inputs' = DOMAIN inputs
                /\ \A i \in DOMAIN inputs : inputs'[i].kind = inputs[i].kind
                                            /\ inputs'[i].saw = inputs[i].saw
         /\ \A m \in Msgs : Adds(m) =>
                /\ DOMAIN inputs' = DOMAIN inputs \cup {Len(inputs) + 1}
                /\ Len(inputs) + 1 \notin DOMAIN inputs
                /\ inputs'[Len(inputs) + 1].kind = m.kind /\ inputs'[Len(inputs) + 1].saw = m.saw
                /\ \A i \in DOMAIN inputs : inputs'[i].kind = inputs[i].kind
                                            /\ inputs'[i].saw = inputs[i].saw
         /\ Drops => /\ 1 \in DOMAIN inputs
                     /\ \A i \in DOMAIN inputs : i = 1 \/ i - 1 \in DOMAIN inputs'
                     /\ \A i \in DOMAIN inputs' : /\ i + 1 \in DOMAIN inputs
                                                  /\ inputs'[i].kind = inputs[i + 1].kind
                                                  /\ inputs'[i].saw = inputs[i + 1].saw
<1>0. /\ DOMAIN inputs = 1..Len(inputs) /\ Len(inputs) \in Nat
      /\ DOMAIN inputs' = 1..Len(inputs') /\ Len(inputs') \in Nat
  BY SMTT(30) DEF Typed
<1>1. SameQueue(inputs) =>
         /\ DOMAIN inputs' = DOMAIN inputs
         /\ \A i \in DOMAIN inputs : inputs'[i].kind = inputs[i].kind /\ inputs'[i].saw = inputs[i].saw
  BY <1>0 DEF SameQueue, SameMsg, SameBut
<1>2. ASSUME NEW m \in Msgs, Adds(m)
      PROVE  /\ DOMAIN inputs' = DOMAIN inputs \cup {Len(inputs) + 1}
             /\ Len(inputs) + 1 \notin DOMAIN inputs
             /\ inputs'[Len(inputs) + 1].kind = m.kind /\ inputs'[Len(inputs) + 1].saw = m.saw
             /\ \A i \in DOMAIN inputs : inputs'[i].kind = inputs[i].kind
                                         /\ inputs'[i].saw = inputs[i].saw
  BY <1>0, <1>2 DEF Adds, SameMsg, SameBut
<1>3. ASSUME Drops
      PROVE  /\ 1 \in DOMAIN inputs
             /\ \A i \in DOMAIN inputs : i = 1 \/ i - 1 \in DOMAIN inputs'
             /\ \A i \in DOMAIN inputs' : /\ i + 1 \in DOMAIN inputs
                                          /\ inputs'[i].kind = inputs[i + 1].kind
                                          /\ inputs'[i].saw = inputs[i + 1].saw
  BY <1>0, <1>3 DEF Drops, SameMsg, SameBut
<1> QED
  BY <1>0, <1>1, <1>2, <1>3

LEMMA Naturals ==
  ASSUME Typed, Typed'
  PROVE  DOMAIN inputs \subseteq Nat \ {0} /\ DOMAIN inputs' \subseteq Nat \ {0}
<1>1. DOMAIN inputs = 1..Len(inputs) /\ DOMAIN inputs' = 1..Len(inputs')
  BY Positions
<1> QED
  BY <1>1

\* What waits.
LEMMA WaitsForms ==
  ASSUME Typed, Typed', NEW K
  PROVE  /\ SameQueue(inputs) => (Waits(K)' <=> Waits(K))
         /\ \A m \in Msgs : Adds(m) => (Waits(K)' <=> Waits(K) \/ m.kind \in K)
         /\ Drops => (Waits(K) <=> Waits(K)' \/ inputs[1].kind \in K)
<1>1. SameQueue(inputs) => (Waits(K)' <=> Waits(K))
  BY Positions DEF Waits
<1>2. ASSUME NEW m \in Msgs, Adds(m) PROVE Waits(K)' <=> Waits(K) \/ m.kind \in K
  <2>1. Waits(K)' => Waits(K) \/ m.kind \in K
    BY <1>2, Positions DEF Waits
  <2>2. Waits(K) => Waits(K)'
    BY <1>2, Positions DEF Waits
  <2>3. m.kind \in K => Waits(K)'
    BY <1>2, Positions DEF Waits
  <2> QED
    BY <2>1, <2>2, <2>3
<1>3. ASSUME Drops PROVE Waits(K) <=> Waits(K)' \/ inputs[1].kind \in K
  <2>1. Waits(K)' => Waits(K)
    BY <1>3, Positions DEF Waits
  <2>2. inputs[1].kind \in K => Waits(K)
    BY <1>3, Positions DEF Waits
  <2>3. Waits(K) /\ inputs[1].kind \notin K => Waits(K)'
    <3> SUFFICES ASSUME NEW i \in DOMAIN inputs, inputs[i].kind \in K, inputs[1].kind \notin K
                 PROVE  Waits(K)'
      BY DEF Waits
    <3>1. i # 1 /\ i \in Nat
      BY Naturals
    <3>4. \A j \in DOMAIN inputs : j = 1 \/ j - 1 \in DOMAIN inputs'
      BY <1>3, Positions
    <3>2. i - 1 \in DOMAIN inputs' /\ i = (i - 1) + 1
      BY <3>1, <3>4
    <3>3. inputs'[i - 1].kind = inputs[i].kind
      BY <1>3, <3>2, Positions
    <3> QED
      BY <3>2, <3>3 DEF Waits
  <2> QED
    BY <2>1, <2>2, <2>3
<1> QED
  BY <1>1, <1>2, <1>3

\* The first of what waits: there is one beginning and one end.
LEMMA HeadSays ==
  ASSUME Typed, Typed', Ordered, Drops
  PROVE  /\ inputs[1].kind \in Ends => ~Waits(Ends)' /\ ~Waits({"started"})' /\ scan.pc = "none"
         /\ inputs[1].kind = "started" =>
                ~Waits({"started"})' /\ (scan.pc # "none" \/ Waits(Ends)')
<1>0. /\ 1 \in DOMAIN inputs
      /\ \A i \in DOMAIN inputs' : i + 1 \in DOMAIN inputs /\ inputs'[i].kind = inputs[i + 1].kind
                                   /\ i \in Nat \ {0}
  <2>1. /\ 1 \in DOMAIN inputs
        /\ \A i \in DOMAIN inputs' : i + 1 \in DOMAIN inputs /\ inputs'[i].kind = inputs[i + 1].kind
    BY Positions
  <2> QED
    BY <2>1, Naturals
<1>1. ASSUME inputs[1].kind \in Ends
      PROVE  ~Waits(Ends)' /\ ~Waits({"started"})' /\ scan.pc = "none"
  <2>1. \A i \in DOMAIN inputs : /\ inputs[i].kind \in Ends => i = 1
                                 /\ inputs[i].kind = "started" => i < 1
    BY <1>0, <1>1 DEF Ordered
  <2>2. ~Waits(Ends)' /\ ~Waits({"started"})'
    BY <1>0, <2>1 DEF Waits
  <2>3. Waits(Ends)
    BY <1>0, <1>1 DEF Waits
  <2> QED
    BY <2>2, <2>3 DEF Ordered
<1>2. ASSUME inputs[1].kind = "started"
      PROVE  ~Waits({"started"})' /\ (scan.pc # "none" \/ Waits(Ends)')
  <2>1. \A i \in DOMAIN inputs : inputs[i].kind = "started" => i = 1
    BY <1>0, <1>2 DEF Ordered
  <2>2. ~Waits({"started"})'
    BY <1>0, <2>1 DEF Waits
  <2>3. Waits({"started"})
    BY <1>0, <1>2 DEF Waits
  <2>4. Waits(Ends) => Waits(Ends)'
    BY <1>2, WaitsForms DEF Ends
  <2> QED
    BY <2>2, <2>3, <2>4 DEF Ordered
<1> QED
  BY <1>1, <1>2

\* A scan starts when nothing of an earlier one waits.
LEMMA StartSays ==
  ASSUME IInv, ScanStarts
  PROVE  /\ scan.pc = "none" /\ scan'.pc = "walking" /\ ~Waits(Ends) /\ ~Waits({"started"})
         /\ engine.bracket = "closed"
<1> USE DEF IInv
<1>1. scan.pc = "none" /\ scan'.pc = "walking" /\ ~Waits(Ends)
  <2>1. scan' = [NoScan EXCEPT !.pc = "walking", !.copy = copy]
    BY DEF ScanStarts
  <2>2. scan'.pc = "walking"
    BY <2>1 DEF NoScan
  <2> QED
    BY <2>2 DEF ScanStarts
<1> QED
  BY <1>1 DEF Ordered, BracketIsScan

\* What the scan is at.
LEMMA ScanSays ==
  ASSUME IInv, [Next]_vars
  PROVE  \/ scan' = scan
         \/ Walked /\ scan.pc = "walking" /\ scan'.pc = "walked"
         \/ ScanStarts
         \/ (ScanEnds \/ ScanAborts) /\ scan.pc \in {"walking", "walked"} /\ scan' = NoScan
<1> USE DEF IInv
<1>1. Walked => scan.pc = "walking" /\ scan'.pc = "walked"
  BY WalkedSays DEF Busy
<1> QED
  BY <1>1, Frames DEF ScanEnds, ScanAborts

LEMMA StepBracket ==
  ASSUME IInv, [Next]_vars
  PROVE  BracketIsScan'
<1> USE DEF IInv
<1>0. Typed'
  BY StepTyped
<1>1. CASE Report
  <2>1. /\ Drops /\ engine'.bracket = Bracketed(engine.bracket, inputs[1].kind)
        /\ scan' = scan /\ inputs[1] \in Msgs /\ engine.bracket \in {"closed", "open", "seen"}
    BY <1>1, ReportSays, Domains, SMTT(30) DEF Drops, Typed, Engines
  <2>2. /\ Waits(Ends) <=> Waits(Ends)' \/ inputs[1].kind \in Ends
        /\ Waits({"started"}) <=> Waits({"started"})' \/ inputs[1].kind \in {"started"}
    BY <1>0, <2>1, WaitsForms
  <2>3. CASE inputs[1].kind \in News
    <3>1. engine'.bracket # "closed" <=> engine.bracket # "closed"
      BY <2>1, <2>3 DEF Bracketed, Opened
    <3> QED
      BY <2>1, <2>2, <2>3, <3>1 DEF News, Ends, BracketIsScan
  <2>4. CASE inputs[1].kind = "started"
    <3>1. engine'.bracket = "open"
      BY <2>1, <2>4 DEF Bracketed, News
    <3>2. ~Waits({"started"})' /\ (scan.pc # "none" \/ Waits(Ends)')
      BY <1>0, <2>1, <2>4, HeadSays
    <3>3. scan.pc \in {"none", "walking", "walked"}
      BY DEF Typed
    <3> QED
      BY <2>1, <3>1, <3>2, <3>3 DEF BracketIsScan
  <2>5. CASE inputs[1].kind \in Ends
    <3>1. engine'.bracket = "closed"
      BY <2>1, <2>5 DEF Bracketed, News, Ends
    <3>2. ~Waits(Ends)' /\ scan.pc = "none"
      BY <1>0, <2>1, <2>5, HeadSays
    <3> QED
      BY <2>1, <3>1, <3>2 DEF BracketIsScan
  <2> QED
    BY <2>1, <2>3, <2>4, <2>5 DEF Msgs, Kinds
<1>2. CASE ~Report
  <2>1. engine'.bracket = engine.bracket
    BY <1>2, QuietEngine, DispatchSays, Steps DEF NotesOf, Jobbing, SameEngine
  <2>2. CASE ScanStarts
    <3>1. \E m \in Msgs : Adds(m) /\ m.kind = "started"
      <4>1. Sends(look, Note("started", 0)) /\ "started" \in Kinds /\ 0 \in Nat
        BY <2>2 DEF ScanStarts, Kinds
      <4> QED
        BY <4>1, NotesSay
    <3>2. Waits({"started"})'
      BY <1>0, <3>1, WaitsForms
    <3> QED
      BY <2>1, <2>2, <3>2, StartSays DEF BracketIsScan
  <2>3. CASE ScanEnds \/ ScanAborts
    <3>1. \E m \in Msgs : Adds(m) /\ m.kind \in Ends
      <4>1. Sends(look, Note("finished", scan.missing)) \/ Sends(look, Note("aborted", 0))
        BY <2>3 DEF ScanEnds, ScanAborts
      <4>2. {"finished", "aborted"} \subseteq Kinds /\ scan.missing \in Nat /\ 0 \in Nat
        BY DEF Kinds, Ends, Typed
      <4> QED
        BY <4>1, <4>2, NotesSay DEF Ends
    <3>2. Waits(Ends)' /\ (Waits({"started"})' <=> Waits({"started"}))
      BY <1>0, <3>1, WaitsForms DEF Ends
    <3>3. scan.pc \in {"walking", "walked"}
      BY <2>3 DEF ScanEnds, ScanAborts
    <3> QED
      BY <2>1, <3>2, <3>3 DEF BracketIsScan
  <2>4. CASE ~ScanStarts /\ ~ScanEnds /\ ~ScanAborts
    <3>1. scan'.pc \in {"walking", "walked"} <=> scan.pc \in {"walking", "walked"}
      BY <2>4, ScanSays
    <3>2. SameQueue(inputs) \/ \E m \in Msgs : Adds(m) /\ m.kind \in News
      BY <1>2, <2>4, QueueForms DEF News, Kind
    <3>3. (Waits(Ends)' <=> Waits(Ends)) /\ (Waits({"started"})' <=> Waits({"started"}))
      BY <1>0, <3>2, WaitsForms DEF News, Ends
    <3> QED
      BY <2>1, <3>1, <3>3 DEF BracketIsScan
  <2> QED
    BY <2>2, <2>3, <2>4
<1> QED
  BY <1>1, <1>2

LEMMA StepOrdered ==
  ASSUME IInv, [Next]_vars
  PROVE  Ordered'
<1> USE DEF IInv
<1>0. Typed' /\ DOMAIN inputs \subseteq Nat \ {0} /\ DOMAIN inputs' \subseteq Nat \ {0}
  BY StepTyped, Naturals
<1> DEFINE InOrder == \A i, j \in DOMAIN inputs :
                        /\ inputs[i].kind = "started" /\ inputs[j].kind = "started" => i = j
                        /\ inputs[i].kind \in Ends /\ inputs[j].kind \in Ends => i = j
                        /\ inputs[i].kind = "started" /\ inputs[j].kind \in Ends => i < j
<1>1. InOrder
  BY DEF Ordered
<1>2. CASE Report
  <2>1. Drops /\ scan' = scan
    BY <1>2, ReportSays
  <2>2. \A i \in DOMAIN inputs' : i + 1 \in DOMAIN inputs /\ inputs'[i].kind = inputs[i + 1].kind
    BY <1>0, <2>1, Positions
  <2>3. InOrder'
    BY <1>0, <1>1, <2>2
  <2>4. /\ Waits(Ends)' => Waits(Ends)
        /\ Waits({"started"})' => Waits({"started"})
        /\ Waits(Ends) <=> Waits(Ends)' \/ inputs[1].kind \in Ends
    BY <1>0, <2>1, WaitsForms
  <2>5. inputs[1].kind \in Ends => ~Waits({"started"})'
    BY <1>0, <2>1, HeadSays
  <2> HIDE DEF InOrder
  <2>6. /\ Waits(Ends)' => scan'.pc = "none"
        /\ Waits({"started"})' => scan'.pc # "none" \/ Waits(Ends)'
    BY <2>1, <2>4, <2>5 DEF Ordered
  <2> QED
    BY <2>3, <2>6 DEF Ordered, InOrder
<1>3. ASSUME SameQueue(inputs) PROVE InOrder'
  BY <1>0, <1>1, <1>3, Positions
<1>4. ASSUME NEW m \in Msgs, Adds(m), m.kind = "started" => ~Waits({"started"}) /\ ~Waits(Ends),
             m.kind \in Ends => ~Waits(Ends)
      PROVE  InOrder'
  <2> DEFINE n == Len(inputs) + 1
  <2>1. /\ DOMAIN inputs' = DOMAIN inputs \cup {n} /\ inputs'[n].kind = m.kind
        /\ \A i \in DOMAIN inputs : i < n /\ inputs'[i].kind = inputs[i].kind
    <3>1. /\ DOMAIN inputs' = DOMAIN inputs \cup {n} /\ inputs'[n].kind = m.kind
          /\ \A i \in DOMAIN inputs : inputs'[i].kind = inputs[i].kind
      BY <1>0, <1>4, Positions
    <3>2. \A i \in DOMAIN inputs : i < n
      BY Domains
    <3> QED
      BY <3>1, <3>2
  <2>2. /\ m.kind = "started" => \A i \in DOMAIN inputs : /\ inputs[i].kind # "started"
                                                          /\ inputs[i].kind \notin Ends
        /\ m.kind \in Ends => \A i \in DOMAIN inputs : inputs[i].kind \notin Ends
    BY <1>4 DEF Waits
  <2>3. m.kind = "started" => m.kind \notin Ends
    BY DEF Ends
  <2> HIDE DEF n
  <2> QED
    BY <1>1, <2>1, <2>2, <2>3
<1> HIDE DEF InOrder
<1>5. CASE ScanStarts
  <2>1. \E m \in Msgs : Adds(m) /\ m.kind = "started"
    <3>1. Sends(look, Note("started", 0)) /\ "started" \in Kinds /\ 0 \in Nat
      BY <1>5 DEF ScanStarts, Kinds
    <3> QED
      BY <3>1, NotesSay
  <2>2. scan'.pc = "walking" /\ ~Waits(Ends) /\ ~Waits({"started"})
    BY <1>5, StartSays
  <2>3. Waits(Ends)' <=> Waits(Ends)
    BY <1>0, <2>1, WaitsForms DEF Ends
  <2>4. InOrder'
    BY <1>4, <2>1, <2>2 DEF Ends
  <2> QED
    BY <2>2, <2>3, <2>4 DEF Ordered, InOrder
<1>6. CASE ScanEnds \/ ScanAborts
  <2>1. \E m \in Msgs : Adds(m) /\ m.kind \in Ends
    <3>1. Sends(look, Note("finished", scan.missing)) \/ Sends(look, Note("aborted", 0))
      BY <1>6 DEF ScanEnds, ScanAborts
    <3>2. {"finished", "aborted"} \subseteq Kinds /\ scan.missing \in Nat /\ 0 \in Nat
      BY DEF Kinds, Ends, Typed
    <3> QED
      BY <3>1, <3>2, NotesSay DEF Ends
  <2>2. scan.pc # "none" /\ scan'.pc = "none"
    BY <1>6 DEF ScanEnds, ScanAborts, NoScan
  <2>3. ~Waits(Ends)
    BY <2>2 DEF Ordered
  <2>4. Waits(Ends)'
    BY <1>0, <2>1, WaitsForms
  <2>5. InOrder'
    BY <1>4, <2>1, <2>3 DEF Ends
  <2> QED
    BY <2>2, <2>4, <2>5 DEF Ordered, InOrder
<1>7. CASE ~Report /\ ~ScanStarts /\ ~ScanEnds /\ ~ScanAborts
  <2>1. scan'.pc = scan.pc \/ (scan.pc = "walking" /\ scan'.pc = "walked")
    BY <1>7, ScanSays
  <2>2. SameQueue(inputs) \/ \E m \in Msgs : Adds(m) /\ m.kind \in News
    BY <1>7, QueueForms DEF News, Kind
  <2>3. (Waits(Ends)' <=> Waits(Ends)) /\ (Waits({"started"})' <=> Waits({"started"}))
    BY <1>0, <2>2, WaitsForms DEF News, Ends
  <2>4. InOrder'
    BY <1>3, <1>4, <2>2 DEF News, Ends
  <2>5. /\ Waits(Ends)' => scan'.pc = "none"
        /\ Waits({"started"})' => scan'.pc # "none" \/ Waits(Ends)'
    BY <2>1, <2>3 DEF Ordered
  <2> QED
    BY <2>4, <2>5 DEF Ordered, InOrder
<1> QED
  BY <1>2, <1>5, <1>6, <1>7

\* What was told stays told as the queue gets reports, and as it is worked off.
LEMMA ToldKept ==
  ASSUME Typed, Typed', engine'.bracket = engine.bracket, NEW n \in Nat, n <= Len(inputs), ToldBy(n),
         SameQueue(inputs) \/ \E m \in Msgs : Adds(m) /\ m.kind # "started"
  PROVE  ToldBy(n)'
<1>1. CASE engine.bracket = "seen"
  BY <1>1 DEF ToldBy
<1>2. CASE engine.bracket # "seen"
  <2>1. PICK j \in 1..n : /\ inputs[j].kind \in News
                          /\ \A k \in DOMAIN inputs : inputs[k].kind = "started" => k < j
    BY <1>2 DEF ToldBy
  <2>2. j \in DOMAIN inputs
    BY Domains
  <2>3. inputs'[j].kind = inputs[j].kind
        /\ \A k \in DOMAIN inputs' : inputs'[k].kind = "started" =>
              k \in DOMAIN inputs /\ inputs[k].kind = "started"
    BY <2>2, Positions
  <2> QED
    BY <2>1, <2>3 DEF ToldBy
<1> QED
  BY <1>1, <1>2

LEMMA ToldOff ==
  ASSUME Typed, Typed', Ordered, BracketIsScan, Drops, NEW n \in Nat \ {0}, n <= Len(inputs),
         engine'.bracket = Bracketed(engine.bracket, inputs[1].kind), ToldBy(n),
         inputs[1].kind \notin Ends, scan.pc \in {"walking", "walked"} \/ Waits(Ends)
  PROVE  ToldBy(n - 1)'
<1>0. 1 \in DOMAIN inputs /\ inputs[1] \in Msgs
  BY Domains DEF Drops
<1>1. CASE engine.bracket = "seen"
  <2>1. ~Waits({"started"})
    BY <1>1 DEF BracketIsScan
  <2>2. inputs[1].kind \in News
    BY <1>0, <2>1 DEF Waits, Msgs, Kinds
  <2>3. engine'.bracket = "seen"
    BY <1>1, <2>2 DEF Bracketed, Opened
  <2> QED
    BY <2>3 DEF ToldBy
<1>2. CASE engine.bracket # "seen"
  <2>1. PICK j \in 1..n : /\ inputs[j].kind \in News
                          /\ \A k \in DOMAIN inputs : inputs[k].kind = "started" => k < j
    BY <1>2 DEF ToldBy
  <2>2. CASE j = 1
    <3>1. ~Waits({"started"})
      BY <2>1, <2>2, Naturals DEF Waits
    <3>2. engine.bracket = "open"
      BY <1>2, <3>1 DEF BracketIsScan, Typed, Engines
    <3>3. engine'.bracket = "seen"
      BY <2>1, <2>2, <3>2 DEF Bracketed, Opened
    <3> QED
      BY <3>3 DEF ToldBy
  <2>3. CASE j # 1
    <3>1. j \in DOMAIN inputs /\ j \in Nat
      BY Domains
    <3>2. /\ \A i \in DOMAIN inputs : i = 1 \/ i - 1 \in DOMAIN inputs'
          /\ \A i \in DOMAIN inputs' : i + 1 \in DOMAIN inputs /\ inputs'[i].kind = inputs[i + 1].kind
                                       /\ i \in Nat
      <4>1. /\ \A i \in DOMAIN inputs : i = 1 \/ i - 1 \in DOMAIN inputs'
            /\ \A i \in DOMAIN inputs' : i + 1 \in DOMAIN inputs
                                         /\ inputs'[i].kind = inputs[i + 1].kind
        BY Positions
      <4> QED
        BY <4>1, Naturals
    <3>3. j - 1 \in DOMAIN inputs' /\ j - 1 \in 1..n - 1 /\ (j - 1) + 1 = j
      BY <2>3, <3>1, <3>2
    <3>4. inputs'[j - 1].kind \in News
      BY <2>1, <3>2, <3>3
    <3>5. \A k \in DOMAIN inputs' : inputs'[k].kind = "started" => k < j - 1
      BY <2>1, <3>1, <3>2
    <3> QED
      BY <3>3, <3>4, <3>5 DEF ToldBy
  <2> QED
    BY <2>2, <2>3
<1> QED
  BY <1>1, <1>2

LEMMA StepTold ==
  ASSUME IInv, [Next]_vars
  PROVE  Told'
<1> USE DEF IInv
<1>0. /\ Typed' /\ Len(inputs) \in Nat /\ DOMAIN inputs = 1..Len(inputs)
      /\ DOMAIN inputs' = 1..Len(inputs') /\ Len(inputs') \in Nat
  BY StepTyped, Positions
<1>1. CASE Report
  <2>1. /\ Drops /\ engine'.bracket = Bracketed(engine.bracket, inputs[1].kind) /\ scan' = scan
    BY <1>1, ReportSays
  <2>2. CASE inputs[1].kind \in Ends
    <3>1. ~Waits(Ends)' /\ scan'.pc = "none"
      BY <1>0, <2>1, <2>2, HeadSays
    <3> QED
      BY <3>1 DEF Told, Waits, Ends
  <2>3. CASE inputs[1].kind \notin Ends
    <3>1. /\ Len(inputs) > 0 /\ Len(inputs') = Len(inputs) - 1
      BY <2>1 DEF Drops
    <3>2. scan'.pc = "walked" /\ scan'.missing = 0 => ToldBy(Len(inputs))'
      <4>0. Len(inputs) \in Nat \ {0}
        BY <1>0, <3>1
      <4>1. PICK n \in Nat \ {0} : n = Len(inputs)
        BY <4>0
      <4>2. scan.pc = "walked" /\ scan.missing = 0 => ToldBy(n)
        BY <4>1 DEF Told
      <4>3. scan'.pc = "walked" /\ scan'.missing = 0 => ToldBy(n - 1)'
        BY <1>0, <2>1, <2>3, <4>1, <4>2, ToldOff
      <4>4. Len(inputs') = n - 1
        BY <3>1, <4>1
      <4> QED
        BY <4>3, <4>4 DEF ToldBy
    <3>3. ASSUME NEW i \in DOMAIN inputs', inputs'[i].kind = "finished", inputs'[i].saw = 0
          PROVE  ToldBy(i - 1)'
      <4>1. i + 1 \in DOMAIN inputs /\ inputs[i + 1].kind = "finished" /\ inputs[i + 1].saw = 0
        BY <1>0, <2>1, <3>3, Positions
      <4>2. i \in Nat \ {0} /\ i <= Len(inputs) /\ (i + 1) - 1 = i
        BY <1>0, <3>1
      <4>3. ToldBy(i)
        BY <4>1, <4>2 DEF Told
      <4>4. Waits(Ends)
        BY <4>1 DEF Waits, Ends
      <4> QED
        BY <1>0, <2>1, <2>3, <4>2, <4>3, <4>4, ToldOff
    <3> QED
      BY <3>2, <3>3 DEF Told
  <2> QED
    BY <2>2, <2>3
<1>2. CASE ~Report
  <2>1. engine'.bracket = engine.bracket
    BY <1>2, QuietEngine, DispatchSays, Steps DEF NotesOf, Jobbing, SameEngine
  <2>2. CASE ScanStarts
    <3>1. /\ ~Waits(Ends) /\ scan'.pc = "walking"
      BY <2>2, StartSays
    <3>2. \E m \in Msgs : Adds(m) /\ m.kind = "started"
      <4>1. Sends(look, Note("started", 0)) /\ "started" \in Kinds /\ 0 \in Nat
        BY <2>2 DEF ScanStarts, Kinds
      <4> QED
        BY <4>1, NotesSay
    <3>3. ~Waits(Ends)'
      BY <1>0, <3>1, <3>2, WaitsForms DEF Ends
    <3> QED
      BY <3>1, <3>3 DEF Told, Waits, Ends
  <2>3. CASE ~ScanStarts
    <3>1. SameQueue(inputs) \/ \E m \in Msgs : Adds(m) /\ m.kind # "started"
      BY <1>2, <2>3, QueueForms DEF Kind
    <3>2. \A n \in Nat : n <= Len(inputs) /\ ToldBy(n) => ToldBy(n)'
      BY <1>0, <2>1, <3>1, ToldKept
    <3>3. ASSUME NEW i \in DOMAIN inputs, inputs[i].kind = "finished", inputs[i].saw = 0
          PROVE  ToldBy(i - 1)'
      <4>1. ToldBy(i - 1) /\ i - 1 \in Nat /\ i - 1 <= Len(inputs)
        BY <1>0, <3>3 DEF Told
      <4> QED
        BY <3>2, <4>1
    <3>10. PICK n \in Nat : n = Len(inputs)
      BY <1>0
    <3>4. scan.pc = "walked" /\ scan.missing = 0 => ToldBy(n)'
      BY <3>2, <3>10 DEF Told
    <3>6. ASSUME SameQueue(inputs) \/ \E m \in Msgs : Adds(m) /\ m.kind # "finished"
          PROVE  \A i \in DOMAIN inputs' :
                     inputs'[i].kind = "finished" /\ inputs'[i].saw = 0 => ToldBy(i - 1)'
      <4> TAKE i \in DOMAIN inputs'
      <4> HAVE inputs'[i].kind = "finished" /\ inputs'[i].saw = 0
      <4>1. i \in DOMAIN inputs /\ inputs[i].kind = "finished" /\ inputs[i].saw = 0
        BY <1>0, <3>6, Positions, ZenonT(60)
      <4> QED
        BY <3>3, <4>1
    <3>7. CASE scan' = scan
      <4>1. SameQueue(inputs) \/ \E m \in Msgs : Adds(m) /\ m.kind # "finished"
        <5>1. ~(ScanEnds \/ ScanAborts)
          BY <3>7 DEF ScanEnds, ScanAborts, NoScan
        <5> QED
          BY <1>2, <2>3, <5>1, QueueForms DEF Kind
      <4>2. n <= Len(inputs')
        <5>1. Len(inputs') = n \/ Len(inputs') = n + 1
          BY <3>1, <3>10 DEF SameQueue, Adds
        <5> QED
          BY <5>1
      <4>3. scan'.pc = "walked" /\ scan'.missing = 0 => ToldBy(Len(inputs))'
        BY <3>4, <3>7, <3>10, <4>2 DEF ToldBy
      <4>4. \A i \in DOMAIN inputs' :
                inputs'[i].kind = "finished" /\ inputs'[i].saw = 0 => ToldBy(i - 1)'
        BY <3>6, <4>1
      <4> QED
        BY <4>3, <4>4 DEF Told
    <3>8. CASE Walked
      <4>1. SameQueue(inputs) \/ \E m \in Msgs : Adds(m) /\ m.kind # "finished"
        BY <3>8, WalkedSays
      <4>2. ASSUME NEW m \in Msgs, Adds(m), m.kind = "seen" PROVE ToldBy(Len(inputs))'
        <5>1. /\ DOMAIN inputs' = DOMAIN inputs \cup {Len(inputs) + 1}
              /\ inputs'[Len(inputs) + 1].kind = "seen" /\ Len(inputs') = Len(inputs) + 1
          BY <1>0, <4>2, Positions DEF Adds
        <5>2. \A k \in DOMAIN inputs' : inputs'[k].kind = "started" => k < Len(inputs) + 1
          BY <1>0, <5>1
        <5>3. Len(inputs) + 1 \in 1..Len(inputs')
          BY <1>0, <5>1
        <5> QED
          BY <5>1, <5>2, <5>3 DEF ToldBy, News
      <4>3. scan'.missing = 0 => ToldBy(Len(inputs))'
        BY <3>8, <4>2, WalkedSays
      <4>4. \A i \in DOMAIN inputs' :
                inputs'[i].kind = "finished" /\ inputs'[i].saw = 0 => ToldBy(i - 1)'
        BY <3>6, <4>1
      <4> QED
        BY <4>3, <4>4 DEF Told
    <3>9. CASE ScanEnds \/ ScanAborts
      <4>1. scan'.pc = "none" /\ scan' = NoScan
        BY <3>9 DEF ScanEnds, ScanAborts, NoScan
      <4>2. PICK m \in Msgs : /\ Adds(m)
                              /\ \/ m.kind = "finished" /\ m.saw = scan.missing /\ scan.pc = "walked"
                                 \/ m.kind = "aborted"
        <5>1. CASE ScanEnds
          <6>1. Sends(look, Note("finished", scan.missing)) /\ scan.pc = "walked"
            BY <5>1 DEF ScanEnds
          <6>2. "finished" \in Kinds /\ scan.missing \in Nat
            BY DEF Kinds, Ends, Typed
          <6> QED
            BY <6>1, <6>2, NotesSay
        <5>2. CASE ScanAborts
          <6>1. Sends(look, Note("aborted", 0)) /\ "aborted" \in Kinds /\ 0 \in Nat
            BY <5>2 DEF ScanAborts, Kinds, Ends
          <6> QED
            BY <6>1, NotesSay
        <5> QED
          BY <3>9, <5>1, <5>2
      <4>3. \A i \in DOMAIN inputs' :
                inputs'[i].kind = "finished" /\ inputs'[i].saw = 0 => ToldBy(i - 1)'
        <5> TAKE i \in DOMAIN inputs'
        <5> HAVE inputs'[i].kind = "finished" /\ inputs'[i].saw = 0
        <5>1. CASE i \in DOMAIN inputs
          <6>1. inputs[i].kind = "finished" /\ inputs[i].saw = 0
            BY <1>0, <4>2, <5>1, Positions
          <6> QED
            BY <3>3, <5>1, <6>1
        <5>2. CASE i = Len(inputs) + 1
          <6>1. m.kind = "finished" /\ m.saw = 0
            BY <1>0, <4>2, <5>2, Positions
          <6>2. i - 1 = n
            BY <1>0, <3>10, <5>2
          <6>3. ToldBy(n)'
            BY <3>4, <4>2, <6>1
          <6> QED
            BY <6>2, <6>3
        <5> QED
          BY <1>0, <4>2, <5>1, <5>2, Positions
      <4> QED
        BY <4>1, <4>3 DEF Told
    <3> QED
      BY <2>3, <3>7, <3>8, <3>9, Frames
  <2> QED
    BY <2>2, <2>3
<1> QED
  BY <1>1, <1>2

-----------------------------------------------------------------------------
(* The invariant.                                                             *)

LEMMA InitInvariant == Init => IInv
<1> SUFFICES ASSUME Init PROVE IInv
  OBVIOUS
<1>1. PICK c \in Initially :
        /\ disk = <<State(c, "user")>> /\ copy = c
        /\ engine = [record |-> c, seen |-> 1, flight |-> {}, bracket |-> "closed",
                     reported |-> 0, observed |-> 0, written |-> 0]
  BY DEF Init
<1>2. /\ released = <<>> /\ commit = NoCommit /\ scan = NoScan
      /\ look = [o \in Observers |-> NoLook] /\ inputs = <<>>
      /\ spent = [looks |-> 0, edits |-> 0, commits |-> 0, faults |-> 0]
  BY DEF Init
<1>3. c \in Maybe /\ None \in Maybe
  BY ScanAssumption DEF Maybe
<1>4. State(c, "user") \in States /\ State(c, "user").holds = c
  BY <1>3 DEF State, States
<1>5. NoLook \in Looks /\ NoLook.pc = "none" /\ NoLook.at = 0
  BY <1>3 DEF NoLook, Looks, Founds
<1>6. look \in [Observers -> Looks] /\ \A o \in Observers : look[o].pc = "none" /\ look[o].at = 0
  BY <1>2, <1>5
<1>7. /\ engine \in Engines /\ engine.flight = {} /\ engine.seen = 1 /\ engine.record = c
      /\ engine.bracket = "closed" /\ engine.reported = 0 /\ engine.observed = 0
      /\ engine.written = 0
  BY <1>1, <1>3 DEF Engines
<1>8. /\ disk \in Seq(States) /\ disk # <<>> /\ DOMAIN disk = 1..1 /\ disk[1].holds = c
  BY <1>1, <1>4
<1>9. inputs \in Seq(Msgs) /\ Len(inputs) = 0 /\ DOMAIN inputs = {} /\ released \in Seq(Jobs)
      /\ DOMAIN released = {}
  BY <1>2
<1>10. NoCommit \in Commits /\ NoScan \in Scans /\ NoCommit.pc = "none" /\ NoScan.pc = "none"
       /\ NoScan.missing = 0
  BY NoneTyped DEF NoCommit, NoScan
<1>11. spent \in [looks : Nat, edits : Nat, commits : Nat, faults : Nat]
  BY <1>2
<1>12. Typed
  BY <1>1, <1>2, <1>3, <1>6, <1>7, <1>8, <1>9, <1>10, <1>11, ScanAssumption
     DEF Typed, Commits, Scans
<1>13. Bounded
  <2>1. \A t \in TimesOf(engine, look, inputs) : t <= 0
    BY <1>6, <1>7, <1>9 DEF TimesOf
  <2> QED
    BY <2>1 DEF Bounded
<1>14. ~Waits(Ends) /\ ~Waits({"started"}) /\ CommitJobs = {} /\ Outcomes = {}
  BY <1>9 DEF Waits, CommitJobs, Outcomes
<1>15. Busy /\ LooksTrue /\ OneFlight /\ Left
  BY <1>2, <1>6, <1>9, <1>10, <1>14 DEF Busy, LooksTrue, LookTrue, Gone, OneFlight, Left, Observers
<1>16. Ordered /\ Told /\ BracketIsScan /\ RecordTruthful
  BY <1>2, <1>7, <1>8, <1>9, <1>10, <1>14 DEF Ordered, Told, BracketIsScan, RecordTruthful
<1> QED
  BY <1>12, <1>13, <1>15, <1>16 DEF IInv

LEMMA NextInvariant ==
  ASSUME IInv, [Next]_vars
  PROVE  IInv'
<1>1. Typed' /\ Bounded'
  BY StepTyped
<1>2. Busy' /\ LooksTrue' /\ OneFlight' /\ Left'
  BY StepBusy, StepLooksTrue, StepOneFlight, StepLeft
<1>3. Ordered' /\ Told' /\ BracketIsScan' /\ RecordTruthful'
  BY StepOrdered, StepTold, StepBracket, StepRecordTruthful
<1> QED
  BY <1>1, <1>2, <1>3 DEF IInv

\* What the scanner, the executor and the engine know of a path hangs together
\* at every step.
THEOREM Invariance == Spec => []IInv
<1>1. Init => IInv
  BY InitInvariant
<1>2. IInv /\ [Next]_vars => IInv'
  BY NextInvariant
<1> QED
  BY <1>1, <1>2, PTL DEF Spec

\* The parts of the model keep their types, and there is at most one commit of
\* a path in flight.
THEOREM TypeCorrect == Spec => []TypeOK
<1>1. ASSUME IInv PROVE TypeOK
  <2>1. Typed
    BY <1>1 DEF IInv
  <2>2. Cardinality(engine.flight) <= 1
    <3>1. CASE engine.flight = {}
      BY <3>1, FS_EmptySet
    <3>2. CASE engine.flight # {}
      <4>1. PICK c \in engine.flight : engine.flight = {c}
        BY <2>1, <3>2 DEF Typed
      <4> QED
        BY <4>1, FS_Singleton
    <3> QED
      BY <3>1, <3>2
  <2> QED
    BY <2>1, <2>2 DEF Typed, TypeOK, Engines, Looks, States
<1> QED
  BY <1>1, Invariance, PTL

\* FolderState's scan bracket is open exactly while a scan is on or its reports
\* wait, whatever else waits among them: a scan that ends judges only by what
\* it brought.
THEOREM BracketAlways == Spec => []BracketIsScan
<1>1. IInv => BracketIsScan
  BY DEF IInv
<1> QED
  BY <1>1, Invariance, PTL

\* What the engine records of a path is what the path held in the state it was
\* last seen in, however late the report of it was taken.
THEOREM RecordAlways == Spec => []RecordTruthful
<1>1. IInv => RecordTruthful
  BY DEF IInv
<1> QED
  BY <1>1, Invariance, PTL

\* A local change of a file is recorded only from a state the file was left
\* alone in.
THEOREM OnlyWhole == Spec => WholeFilesOnly
<1> DEFINE A == LocalChange /\ engine'.record \in Contents \ Links => disk[engine'.seen].calm
<1>1. ASSUME IInv, [Next]_vars PROVE [A]_vars
  <2> SUFFICES ASSUME LocalChange, engine'.record \in Contents \ Links
               PROVE  disk[engine'.seen].calm
    OBVIOUS
  <2>1. Report
    <3>1. SameEngine(engine) => ~LocalChange
      BY DEF SameEngine, LocalChange
    <3>2. (\E c \in Maybe : Dispatch(c)) => ~LocalChange
      BY DEF Dispatch, LocalChange
    <3> QED
      BY <1>1, <3>1, <3>2, QuietEngine, Steps DEF NotesOf, Jobbing
  <2>2. Head(inputs) = inputs[1]
    BY <1>1, <2>1 DEF Report, IInv, Typed
  <2>3. Whole(engine'.record, engine'.seen)
    BY <1>1, <2>1, <2>2, ReportSays DEF LocalChange
  <2> QED
    BY <2>3, ScanAssumption DEF Whole
<1> QED
  BY <1>1, Invariance, PTL DEF Spec, WholeFilesOnly

-----------------------------------------------------------------------------
(* The order of what is told.                                                 *)

\* A look whose time was read, or a report of one or of a commit, of time t
\* tells of state s.
Tells(ls, q, t, s, f) ==
    \/ \E o \in Observers : /\ ls[o].pc \in {"hashing", "ready"}
                            /\ ls[o].at = t /\ ls[o].saw = s /\ ls[o].found = f
    \/ \E i \in 1..Len(q) :
           q[i].kind \in News /\ q[i].at = t /\ q[i].saw = s /\ q[i].found = f

\* The outcome of the path's commit, with which look it is told.
Concludes(ls, q, pc, kind, t) ==
    \/ /\ <<pc, kind>> \in {<<"failed", "failed">>, <<"landed", "ok">>}
       /\ ls["executor"].pc \in {"hashing", "ready"} /\ ls["executor"].at = t
    \/ \E i \in 1..Len(q) : q[i].kind = kind /\ kind \in {"ok", "failed"} /\ q[i].at = t

\* What was read after its time is the content of a file, in a state not of L.
Read(f, s, L) == f = "observed" /\ s \notin L

Stamped(ls, q) == \A t, s, f : Tells(ls, q, t, s, f) => t \in Nat \ {0} /\ s \in Nat

\* A file that is read tells of a later state than what has an earlier time; an
\* absence may do so later.
Sorted(ls, q, L) ==
    \A t, s, f, u, r, g :
        /\ Tells(ls, q, t, s, f) /\ Tells(ls, q, u, r, g)
        /\ f # "absent" /\ Read(g, r, L) /\ t <= u
        => s <= r

\* The files read from time t on were so in these states.
From(t, ls, q, L, S) ==
    \A u, s, f : Tells(ls, q, u, s, f) /\ Read(f, s, L) /\ t <= u => s \in S

\* So were those that the engine does not think stale.
FromBoth(e, ls, q, L, S) ==
    \A u, s, f :
        Tells(ls, q, u, s, f) /\ Read(f, s, L) /\ e.reported <= u /\ e.observed <= u => s \in S

\* What waits to be told, in the order of its times.
Book(e, ls, q, pc, L, S, F) ==
    /\ Stamped(ls, q) /\ Sorted(ls, q, L)
    /\ FromBoth(e, ls, q, L, S)
    /\ \A kind, t : Concludes(ls, q, pc, kind, t) => t \in Nat /\ e.reported <= t
    /\ \A t : Concludes(ls, q, pc, "failed", t) => From(t, ls, q, L, F)

Uses(ls, q) == {ls[o].at : o \in Observers} \cup {q[i].at : i \in DOMAIN q}

\* Ranks keep the order.
LEMMA RankOrder ==
  ASSUME NEW U \in SUBSET Nat, IsFiniteSet(U), NEW x \in U, NEW y \in U
  PROVE  Cardinality({u \in U : u < x}) <= Cardinality({u \in U : u < y}) <=> x <= y
<1> DEFINE B(z) == {u \in U : u < z}
<1>0. U \subseteq Nat /\ x \in Nat /\ y \in Nat
  OBVIOUS
<1>1. \A z : IsFiniteSet(B(z)) /\ Cardinality(B(z)) \in Nat
  <2> TAKE z
  <2>1. B(z) \in SUBSET U
    OBVIOUS
  <2> HIDE DEF B
  <2> QED
    BY <2>1, FS_Subset, FS_CardinalityType
<1>2. ASSUME x <= y PROVE Cardinality(B(x)) <= Cardinality(B(y))
  <2>1. B(x) \in SUBSET B(y)
    <3>1. \A u \in U : u < x => u < y
      BY <1>0, <1>2
    <3> QED
      BY <3>1
  <2> HIDE DEF B
  <2> QED
    BY <1>1, <2>1, FS_Subset
<1>3. ASSUME ~(x <= y) PROVE ~(Cardinality(B(x)) <= Cardinality(B(y)))
  <2>1. B(y) \in SUBSET B(x) /\ y \in B(x) /\ y \notin B(y)
    <3>1. y < x /\ ~(y < y) /\ \A u \in U : u < y => u < x
      BY <1>0, <1>3
    <3> QED
      BY <3>1
  <2> HIDE DEF B
  <2>2. Cardinality(B(y)) <= Cardinality(B(x)) /\ Cardinality(B(x)) # Cardinality(B(y))
    BY <1>1, <2>1, FS_Subset
  <2> QED
    BY <1>1, <2>2
<1> QED
  BY <1>2, <1>3

\* R gives the times of the looks and reports anew.
Retimes(R, e, ls, q) ==
    /\ \A o \in Observers : look'[o].at = R[ls[o].at]
    /\ \A i \in 1..Len(q) : inputs'[i].at = R[q[i].at]
    /\ \A x, y \in Uses(ls, q) : R[x] \in Nat /\ (R[x] <= R[y] <=> x <= y)
    /\ \A x \in Uses(ls, q) \ {0} :
           /\ R[x] # 0
           /\ engine'.reported <= R[x] <=> e.reported <= x
           /\ engine'.observed <= R[x] <=> e.observed <= x

LEMMA UsesSays ==
  ASSUME NEW ls \in [Observers -> Looks], NEW q \in Seq(Msgs)
  PROVE  /\ Uses(ls, q) \in SUBSET Nat /\ \A o \in Observers : ls[o].at \in Uses(ls, q)
         /\ \A i \in 1..Len(q) : q[i].at \in Uses(ls, q)
<1>1. DOMAIN q = 1..Len(q) /\ \A i \in 1..Len(q) : q[i] \in Msgs
  OBVIOUS
<1>2. /\ \A o \in Observers : ls[o].at \in Nat
      /\ \A i \in 1..Len(q) : q[i].at \in Nat
  BY <1>1 DEF Looks, Msgs
<1> QED
  BY <1>1, <1>2 DEF Uses

LEMMA TimedOrder ==
  ASSUME NEW e \in Engines, NEW ls \in [Observers -> Looks], NEW q \in Seq(Msgs),
         NEW b \in Nat, \A t \in TimesOf(e, ls, q) : t <= b, Timed(e, ls, q)
  PROVE  \E R : Retimes(R, e, ls, q)
<1> DEFINE coming  == ({ls[o].at : o \in Observers} \cup {q[i].at : i \in DOMAIN q}) \ {0}
           kept(t) == IF \E u \in coming : u < t THEN t ELSE 0
           noted   == Noted(e, ls, q)
           used    == TimesOf(noted, ls, q)
           Rank(t) == Cardinality({u \in used : u < t})
           R       == [t \in Nat |-> Rank(t)]
<1>0. DOMAIN q = 1..Len(q) /\ Len(q) \in Nat /\ \A i \in 1..Len(q) : q[i] \in Msgs
  OBVIOUS
<1>1. /\ noted.reported = kept(e.reported) /\ noted.observed = kept(e.observed)
      /\ {noted.reported, noted.observed, noted.written}
             \subseteq {0, e.reported, e.observed, e.written}
      /\ noted \in Engines
  BY DEF Engines, Noted
<1>2. used \subseteq TimesOf(e, ls, q) /\ TimesOf(e, ls, q) \subseteq Nat
  <2>1. TimesOf(e, ls, q) = {0, e.reported, e.observed, e.written} \cup Uses(ls, q)
    BY DEF TimesOf, Uses
  <2>2. used = {0, noted.reported, noted.observed, noted.written} \cup Uses(ls, q)
    BY DEF TimesOf, Uses
  <2> HIDE DEF noted, used
  <2> QED
    BY <1>1, <2>1, <2>2, UsesSays DEF Engines
<1>3. IsFiniteSet(used) /\ used \in SUBSET Nat
  BY <1>2, FS_BoundedSetOfNaturals
<1>4. Uses(ls, q) \subseteq used /\ 0 \in used /\ noted.reported \in used /\ noted.observed \in used
      /\ coming = Uses(ls, q) \ {0}
  BY DEF TimesOf, Uses
<1>5. \A t : Rank(t) \in Nat
  <2> TAKE t
  <2> HIDE DEF used
  <2>1. {u \in used : u < t} \in SUBSET used
    OBVIOUS
  <2> QED
    BY <1>3, <2>1, FS_Subset, FS_CardinalityType
<1>6. Rank(0) = 0
  <2> HIDE DEF used
  <2>1. \A u \in used : u \in Nat /\ ~(u < 0)
    BY <1>3
  <2>2. {u \in used : u < 0} = {}
    BY <2>1
  <2> QED
    BY <2>2, FS_EmptySet
<1>7. \A x, y \in used : Rank(x) <= Rank(y) <=> x <= y
  <2> HIDE DEF used
  <2> QED
    BY <1>3, RankOrder
<1>8. /\ engine' = [noted EXCEPT !.reported = Rank(@), !.observed = Rank(@), !.written = Rank(@)]
      /\ look'   = [o \in Observers |-> [ls[o] EXCEPT !.at = Rank(@)]]
      /\ inputs' = [i \in DOMAIN q |-> [q[i] EXCEPT !.at = Rank(@)]]
  BY DEF Timed
<1> HIDE DEF Rank, used, noted
<1>9. engine'.reported = Rank(noted.reported) /\ engine'.observed = Rank(noted.observed)
  BY <1>1, <1>5, <1>8 DEF Engines
<1>10. \A o \in Observers : look'[o].at = Rank(ls[o].at) /\ ls[o].at \in Nat
  BY <1>8 DEF Looks
<1>11. \A i \in 1..Len(q) : inputs'[i].at = Rank(q[i].at) /\ q[i].at \in Nat
  BY <1>0, <1>8 DEF Msgs
<1>12. \A t \in Nat : R[t] = Rank(t)
  OBVIOUS
<1> HIDE DEF R
<1>13. Uses(ls, q) \subseteq Nat
  BY UsesSays
<1>14. ASSUME NEW x \in coming, NEW t \in {e.reported, e.observed}
       PROVE  Rank(kept(t)) <= Rank(x) <=> t <= x
  <2>1. x \in used /\ x \in Nat /\ t \in Nat /\ kept(t) \in used
    BY <1>1, <1>4, <1>13 DEF Engines
  <2> HIDE DEF coming
  <2>2. CASE \E u \in coming : u < t
    <3>1. kept(t) = t
      BY <2>2
    <3> QED
      BY <1>7, <2>1, <3>1
  <2>3. CASE ~(\E u \in coming : u < t)
    <3>1. kept(t) = 0 /\ ~(x < t)
      BY <2>3
    <3> QED
      BY <1>5, <1>6, <2>1, <3>1
  <2> QED
    BY <2>2, <2>3
<1>15. \A x \in coming : Rank(x) # 0
  <2> TAKE x \in coming
  <2>1. x \in used /\ 0 \in used /\ x \in Nat /\ x # 0
    BY <1>4, <1>13
  <2>2. ~(Rank(x) <= Rank(0))
    BY <1>7, <2>1
  <2> QED
    BY <1>6, <2>2
<1>16. /\ \A x, y \in Uses(ls, q) : R[x] \in Nat /\ (R[x] <= R[y] <=> x <= y)
       /\ \A x \in Uses(ls, q) \ {0} :
            /\ R[x] # 0
            /\ engine'.reported <= R[x] <=> e.reported <= x
            /\ engine'.observed <= R[x] <=> e.observed <= x
  BY <1>1, <1>4, <1>5, <1>7, <1>9, <1>12, <1>13, <1>14, <1>15
<1>17. Retimes(R, e, ls, q)
  BY <1>10, <1>11, <1>12, <1>16 DEF Retimes
<1> QED
  BY <1>17

\* Times as ranks keep the book.
LEMMA RetimedBook ==
  ASSUME NEW e, NEW ls \in [Observers -> Looks], NEW q \in Seq(Msgs), NEW pc, NEW L, NEW S, NEW F,
         Book(e, ls, q, pc, L, S, F), NEW R, Retimes(R, e, ls, q),
         SameLooks(ls), SameQueue(q)
  PROVE  Book(engine', look', inputs', pc, L, S, F)
<1> DEFINE U == Uses(ls, q)
<1>0. /\ U \in SUBSET Nat /\ \A o \in Observers : ls[o].at \in U
      /\ \A i \in 1..Len(q) : q[i].at \in U
  BY UsesSays
<1>1. "executor" \in Observers
  BY DEF Observers
<1>2. ASSUME NEW t, NEW s, NEW f, Tells(look', inputs', t, s, f)
      PROVE  \E u \in U \ {0} : t = R[u] /\ Tells(ls, q, u, s, f)
  <2>1. \E u \in U : t = R[u] /\ Tells(ls, q, u, s, f)
    BY <1>0, <1>2 DEF Tells, Retimes, SameLooks, SameQueue, SameMsg, SameBut
  <2> QED
    BY <2>1 DEF Book, Stamped
<1>3. ASSUME NEW kind, NEW t, Concludes(look', inputs', pc, kind, t)
      PROVE  \E u \in U \ {0} : t = R[u] /\ Concludes(ls, q, pc, kind, u)
  <2>1. PICK u \in U : t = R[u] /\ Concludes(ls, q, pc, kind, u)
    BY <1>0, <1>1, <1>3 DEF Concludes, Retimes, SameLooks, SameQueue, SameMsg, SameBut
  <2>2. \E s, f : Tells(ls, q, u, s, f)
    BY <1>1, <2>1 DEF Concludes, Tells, News
  <2> QED
    BY <2>1, <2>2 DEF Book, Stamped
<1> HIDE DEF U
<1>4. /\ \A x, y \in U : R[x] \in Nat /\ (R[x] <= R[y] <=> x <= y)
      /\ \A x \in U \ {0} : /\ R[x] # 0
                            /\ engine'.reported <= R[x] <=> e.reported <= x
                            /\ engine'.observed <= R[x] <=> e.observed <= x
  BY DEF Retimes, U
<1>5. Stamped(look', inputs')
  BY <1>2, <1>4 DEF Stamped, Book
<1>6. Sorted(look', inputs', L)
  <2> SUFFICES ASSUME NEW t, NEW s, NEW f, NEW u, NEW r, NEW g, Tells(look', inputs', t, s, f),
                      Tells(look', inputs', u, r, g), f # "absent", Read(g, r, L), t <= u
               PROVE  s <= r
    BY DEF Sorted
  <2>1. PICK x \in U \ {0} : t = R[x] /\ Tells(ls, q, x, s, f)
    BY <1>2
  <2>2. PICK y \in U \ {0} : u = R[y] /\ Tells(ls, q, y, r, g)
    BY <1>2
  <2>3. x <= y
    BY <1>4, <2>1, <2>2
  <2> QED
    BY <2>1, <2>2, <2>3 DEF Book, Sorted
<1>7. FromBoth(engine', look', inputs', L, S)
  BY <1>2, <1>4 DEF Book, FromBoth
<1>8. \A kind, t : Concludes(look', inputs', pc, kind, t) => t \in Nat /\ engine'.reported <= t
  BY <1>3, <1>4 DEF Book
<1>9. ASSUME NEW t, Concludes(look', inputs', pc, "failed", t) PROVE From(t, look', inputs', L, F)
  <2>1. PICK x \in U \ {0} : t = R[x] /\ Concludes(ls, q, pc, "failed", x)
    BY <1>3, <1>9
  <2> SUFFICES ASSUME NEW u, NEW s, NEW f, Tells(look', inputs', u, s, f), Read(f, s, L), t <= u
               PROVE  s \in F
    BY DEF From
  <2>2. PICK y \in U \ {0} : u = R[y] /\ Tells(ls, q, y, s, f)
    BY <1>2
  <2>3. x <= y
    BY <1>4, <2>1, <2>2
  <2> QED
    BY <2>1, <2>2, <2>3 DEF Book, From
<1> QED
  BY <1>5, <1>6, <1>7, <1>8, <1>9 DEF Book

\* A report is taken as an observation, as a commit's or as an absence, or it
\* leaves what the engine knows.
Leaves(e, m) ==
    /\ e.record = engine.record /\ e.seen = engine.seen /\ engine.observed <= e.observed
    /\ e.reported = (IF m.kind = "failed" THEN m.at ELSE engine.reported) /\ m.kind # "ok"

Records(e, m) ==
    /\ m.saw \in DOMAIN disk /\ e.record = disk[m.saw].holds
    /\ e.seen = Known(engine, e.record, m.saw)
    /\ m.found = "absent" => e.record = None

Takes(e, m) ==
    /\ m.kind = "failed" \/ (m.kind = "seen" /\ engine.flight = {} /\ engine.reported <= m.at)
    /\ m.found \in {"absent", "unchanged", "observed"} /\ engine.observed <= m.at
    /\ Records(e, m) /\ e.observed = m.at
    /\ e.reported = (IF m.kind = "failed" THEN m.at ELSE engine.reported)
    /\ m.found = "unchanged" => e.record = engine.record

Settles(e, m) ==
    /\ m.kind \in {"ok", "failed"} /\ Lands(engine, m) /\ m.found # "skipped"
    /\ Records(e, m) /\ e.observed = engine.observed /\ e.reported = m.at

Misses(e, m) ==
    /\ m.kind = "finished" /\ engine.bracket = "open" /\ engine.flight = {}
    /\ m.saw # 0 /\ e.record = None /\ e.seen = m.saw
    /\ e.observed = engine.observed /\ e.reported = engine.reported

LEMMA ObservedMoves ==
  ASSUME Typed, Bounded, NEW e, Timely(e), NEW m \in Msgs, m.at <= Now, Found(disk, m),
         m.found \notin {"hash", "none"}, m.found = "unchanged" => m.compared = e.record
  PROVE  /\ Observed(e, m).reported = e.reported
         /\ \/ /\ Observed(e, m).record = e.record /\ Observed(e, m).seen = e.seen
               /\ e.observed <= Observed(e, m).observed
            \/ /\ Current(e, m) /\ e.flight = {} /\ e.observed <= m.at /\ e.reported <= m.at
               /\ Observed(e, m).record = disk[m.saw].holds
               /\ Observed(e, m).seen = Known(e, disk[m.saw].holds, m.saw)
               /\ Observed(e, m).observed = m.at
               /\ m.found \in {"absent", "unchanged", "observed"}
<1> DEFINE o == Max({e.observed, m.at})
           u == InBracket(e)
           taken == [u EXCEPT !.observed = Max({@, m.at})]
<1>0. e \in Engines /\ m.at \in Nat /\ e.observed \in Nat /\ e.reported \in Nat
  BY DEF Timely, Engines, Msgs
<1>1. Became(u, e.record, e.seen, e.flight, Opened(e.bracket))
  BY InBracketSays
<1>2. Now \in Nat
  BY LookTimes
<1>3. o \in {e.observed, m.at} /\ e.observed <= o /\ m.at <= o
  <2>1. {e.observed, m.at} \in SUBSET Nat /\ \A t \in {e.observed, m.at} : t <= Now
    BY DEF Timely, Engines, Msgs
  <2> QED
    BY <1>2, <2>1, Greatest
<1>4. u.observed = e.observed /\ u.reported = e.reported /\ u \in Engines
      /\ u.record = e.record /\ u.seen = e.seen /\ u.flight = e.flight
  BY <1>1 DEF InBracket, Became, Timely, Engines
<1>5. taken = [u EXCEPT !.observed = o]
  BY <1>4
<1> HIDE DEF o
<1>6. o \in Nat
  BY <1>0, <1>3
<1> HIDE DEF u, taken
<1>7. taken \in Engines /\ taken.record = e.record /\ taken.seen = e.seen
      /\ taken.reported = e.reported /\ taken.observed = o
  BY <1>4, <1>5, <1>6 DEF Engines
<1>8. Observed(e, m) = IF ~Current(e, m) THEN u
                       ELSE IF e.flight # {} THEN taken
                       ELSE Recorded(taken, Says(e, m), m.saw)
  BY DEF Observed, u, taken
<1>9. CASE ~Current(e, m)
  BY <1>0, <1>4, <1>8, <1>9
<1>10. CASE Current(e, m) /\ e.flight # {}
  BY <1>0, <1>3, <1>7, <1>8, <1>10
<1>11. CASE Current(e, m) /\ e.flight = {}
  <2>1. m.found \in {"absent", "unchanged", "observed"}
    BY <1>11 DEF Current, Found, Msgs, Founds
  <2>2. Says(e, m) = disk[m.saw].holds
    BY <2>1 DEF Says, Found
  <2>3. m.saw \in Nat /\ disk[m.saw].holds \in Maybe
    BY Domains DEF Found, States
  <2> DEFINE r == Recorded(taken, disk[m.saw].holds, m.saw)
  <2>8. Known(taken, disk[m.saw].holds, m.saw) = Known(e, disk[m.saw].holds, m.saw)
    BY <1>7 DEF Known
  <2>4. /\ r.record = disk[m.saw].holds /\ r.seen = Known(e, disk[m.saw].holds, m.saw)
        /\ r.reported = taken.reported /\ r.observed = taken.observed
    BY <1>2, <1>7, <2>3, <2>8, RecordedSays
  <2>5. Observed(e, m) = r
    BY <1>8, <1>11, <2>2
  <2> HIDE DEF r
  <2>6. e.observed <= m.at /\ e.reported <= m.at
    BY <1>0, <1>11 DEF Current, IsStale
  <2>7. o = m.at
    BY <1>0, <1>3, <2>6
  <2> QED
    BY <1>7, <1>11, <2>1, <2>4, <2>5, <2>6, <2>7
<1> QED
  BY <1>9, <1>10, <1>11

LEMMA AppliedMoves ==
  ASSUME Typed, Bounded, NEW m \in Msgs, m.at <= Now, m.saw \in DOMAIN disk,
         engine.flight = {disk[m.saw].holds}
  PROVE  /\ Applied(engine, m).observed = engine.observed /\ Applied(engine, m).reported = m.at
         /\ Applied(engine, m).record = disk[m.saw].holds
         /\ Applied(engine, m).seen = Known(engine, disk[m.saw].holds, m.saw)
<1> DEFINE u == InBracket(engine)
           over == [u EXCEPT !.reported = m.at, !.flight = {}]
           c == disk[m.saw].holds
<1>0. Timely(engine) /\ engine \in Engines /\ Now \in Nat
  BY LookTimes DEF Typed, Timely
<1>1. Became(u, engine.record, engine.seen, engine.flight, Opened(engine.bracket))
      /\ u.observed = engine.observed
  BY <1>0, InBracketSays DEF InBracket, Engines
<1>2. m.saw \in Nat /\ c \in Maybe
  BY Domains DEF Msgs, States
<1>3. Applied(engine, m) = Recorded(over, c, m.saw)
  <2>1. (CHOOSE b \in engine.flight : TRUE) = c
    OBVIOUS
  <2> QED
    BY <2>1 DEF Applied
<1> HIDE DEF u, c
<1>4. over \in Engines /\ over.reported = m.at /\ over.observed = engine.observed
      /\ over.record = engine.record /\ over.seen = engine.seen
  BY <1>1 DEF Became, Timely, Engines, Msgs
<1> HIDE DEF over
<1>5. Known(over, c, m.saw) = Known(engine, c, m.saw)
  BY <1>4 DEF Known
<1>6. LET r == Recorded(over, c, m.saw) IN
      /\ r.record = c /\ r.seen = Known(over, c, m.saw)
      /\ r.reported = over.reported /\ r.observed = over.observed
  BY <1>0, <1>2, <1>4, RecordedSays
<1> QED
  BY <1>3, <1>4, <1>5, <1>6 DEF c

Moves(e, m) == Leaves(e, m) \/ Takes(e, m) \/ Settles(e, m) \/ Misses(e, m)

LEMMA HandledMoves ==
  ASSUME Typed, Bounded, RecordTruthful, NEW m \in Msgs, m.at <= Now, MsgTrue(disk, m),
         m.found = "unchanged" => m.compared = engine.record,
         m.kind = "finished" => m.saw # 0 \/ engine.bracket = "seen",
         m.kind = "ok" => /\ m.saw \in DOMAIN disk /\ engine.flight = {disk[m.saw].holds}
                          /\ m.found = "none"
  PROVE  Moves(Handled(engine, m), m)
<1> DEFINE h == Handled(engine, m)
<1> SUFFICES Leaves(h, m) \/ Takes(h, m) \/ Settles(h, m) \/ Misses(h, m)
  BY DEF Moves
<1>0. Timely(engine) /\ engine \in Engines /\ engine.observed \in Nat /\ engine.reported \in Nat
  BY LookTimes DEF Typed, Timely, Engines
<1>1. Now \in Nat /\ m.at \in Nat
  BY LookTimes DEF Msgs
<1>2. m.kind \in {"seen", "ok", "failed", "started", "finished", "aborted"}
  BY DEF Msgs, Kinds, News, Ends
<1>3. CASE m.kind = "seen"
  <2>1. Found(disk, m) /\ m.found \notin {"hash", "none"}
    BY <1>3 DEF MsgTrue
  <2>2. h = Observed(engine, m)
    BY <1>3 DEF Handled
  <2>3. m.found = "absent" => disk[m.saw].holds = None
    BY <2>1 DEF Found
  <2>4. m.found = "unchanged" => disk[m.saw].holds = engine.record
    BY <2>1 DEF Found
  <2> HIDE DEF h
  <2> QED
    BY <1>0, <1>3, <2>1, <2>2, <2>3, <2>4, ObservedMoves DEF Leaves, Takes, Records, Found
<1>4. CASE m.kind = "ok"
  <2>1. h = Applied(engine, m)
    BY <1>4 DEF Handled
  <2> HIDE DEF h
  <2> QED
    BY <1>4, <2>1, AppliedMoves DEF Settles, Records, Lands
<1>8. CASE m.kind = "failed" /\ Lands(engine, m)
  <2>1. Found(disk, m) /\ m.found \in {"observed", "absent"} /\ engine.flight = {Says(engine, m)}
    BY <1>8 DEF MsgTrue, Lands
  <2>2. Says(engine, m) = disk[m.saw].holds /\ m.saw \in DOMAIN disk
        /\ (m.found = "absent" => disk[m.saw].holds = None)
    BY <2>1 DEF Says, Found
  <2>3. h = Applied(engine, m)
    BY <1>8 DEF Handled, Failed
  <2> HIDE DEF h
  <2> QED
    BY <1>8, <2>1, <2>2, <2>3, AppliedMoves DEF Settles, Records
<1>5. CASE m.kind = "failed" /\ ~Lands(engine, m)
  <2> DEFINE u == InBracket(engine)
             over == [u EXCEPT !.reported = m.at, !.flight = {}]
  <2>1. Became(u, engine.record, engine.seen, engine.flight, Opened(engine.bracket))
        /\ u.observed = engine.observed
    BY <1>0, InBracketSays DEF InBracket, Engines
  <2>2. h = IF m.found \in {"skipped", "unchanged"} \/ Says(engine, m) = engine.record
            THEN over ELSE Observed(over, m)
    BY <1>5 DEF Handled, Failed
  <2> HIDE DEF u
  <2>3. Timely(over) /\ over.record = engine.record /\ over.seen = engine.seen
        /\ over.reported = m.at /\ over.observed = engine.observed
    BY <1>1, <2>1 DEF Became, Timely, Engines
  <2> HIDE DEF over
  <2>4. Found(disk, m) /\ m.found \notin {"hash", "none"}
    BY <1>5 DEF MsgTrue
  <2>5. m.found = "absent" => disk[m.saw].holds = None
    BY <2>4 DEF Found
  <2>8. m.found = "unchanged" => disk[m.saw].holds = engine.record
    BY <2>4 DEF Found
  <2>9. Known(over, disk[m.saw].holds, m.saw) = Known(engine, disk[m.saw].holds, m.saw)
    BY <2>3 DEF Known
  <2>6. /\ Observed(over, m).reported = over.reported
        /\ \/ /\ Observed(over, m).record = over.record /\ Observed(over, m).seen = over.seen
              /\ over.observed <= Observed(over, m).observed
           \/ /\ over.observed <= m.at
              /\ Observed(over, m).record = disk[m.saw].holds
              /\ Observed(over, m).seen = Known(over, disk[m.saw].holds, m.saw)
              /\ Observed(over, m).observed = m.at
              /\ m.found \in {"absent", "unchanged", "observed"}
    BY <2>3, <2>4, ObservedMoves
  <2>7. h = over \/ h = Observed(over, m)
    BY <2>2
  <2> HIDE DEF h
  <2> QED
    BY <1>0, <1>5, <2>3, <2>4, <2>5, <2>6, <2>7, <2>8, <2>9 DEF Leaves, Takes, Records, Found
<1>6. CASE m.kind = "finished"
  <2> DEFINE closed == [engine EXCEPT !.bracket = "closed"]
  <2>1. /\ closed \in Engines /\ closed.record = engine.record /\ closed.seen = engine.seen
        /\ closed.reported = engine.reported /\ closed.observed = engine.observed
    BY <1>0 DEF Engines
  <2>2. h = IF engine.bracket = "open" /\ engine.flight = {} /\ engine.record # None
            THEN Recorded(closed, None, m.saw) ELSE closed
    BY <1>6 DEF Handled, Finished
  <2> HIDE DEF closed
  <2>3. None \in Maybe /\ m.saw \in Nat
    BY NoneTyped DEF Msgs
  <2>4. LET r == Recorded(closed, None, m.saw) IN
        r.record = None /\ r.seen = Known(closed, None, m.saw) /\ r.reported = closed.reported
        /\ r.observed = closed.observed
    BY <1>1, <2>1, <2>3, RecordedSays
  <2>5. engine.record # None => Known(closed, None, m.saw) = m.saw
    BY <2>1 DEF Known
  <2> HIDE DEF h
  <2> QED
    BY <1>0, <1>6, <2>1, <2>2, <2>4, <2>5 DEF Leaves, Misses
<1>7. CASE m.kind \in {"started", "aborted"}
  <2> DEFINE b == IF m.kind = "started" THEN "open" ELSE "closed"
  <2>1. h = [engine EXCEPT !.bracket = b]
    BY <1>7 DEF Handled, Started, Aborted
  <2>2. h.record = engine.record /\ h.seen = engine.seen /\ h.reported = engine.reported
        /\ h.observed = engine.observed
    BY <1>0, <2>1 DEF Engines
  <2> HIDE DEF h
  <2> QED
    BY <1>0, <1>7, <2>2 DEF Leaves
<1> QED
  BY <1>2, <1>3, <1>4, <1>5, <1>6, <1>7, <1>8

\* The states that held a symlink, and those that the host brought about.
Linked == {s \in DOMAIN disk : disk[s].holds \in Links}
Hosts  == {h \in DOMAIN disk : disk[h].by = "host"}

\* The states that the host is not after.  The last it brought about may still
\* be seen where it is what is recorded, or where a symlink, or nothing, is.
After(s) == \A h \in Hosts :
                h <= s /\ (h = s => \/ engine.record \in Links \cup {None}
                                    \/ disk[h].holds = engine.record)
Afters   == {s \in Nat : After(s)}

\* A file that is not stale is no older than what the engine knows, and is after
\* the last commit once that was told.
Fits == {s \in Nat : /\ engine.seen <= s \/ engine.record = None
                     /\ commit.pc = "none" /\ Outcomes = {} => After(s)}

OnTime == Book(engine, look, inputs, commit.pc, Linked, Fits, Afters)

\* A look whose time is still to be read has read no file.
Unread == \A o \in Observers : look[o].pc = "stated" /\ look[o].found = "observed" =>
                                   disk[look[o].saw].holds \in Links

\* A commit that failed leaves the path as it was, or as the user made it, ...
Settled ==
    commit.pc \in {"none", "failed"} /\ (\A i \in Outcomes : inputs[i].kind # "ok") => After(Last)

\* ... and is told with a look at it as it was then, or later.
FailedAfter ==
    /\ commit.pc = "failed" /\ look["executor"].pc # "none" =>
           After(look["executor"].saw) /\ engine.seen <= look["executor"].saw
    /\ \A i \in Outcomes : inputs[i].kind = "failed" =>
           After(inputs[i].saw) /\ engine.seen <= inputs[i].saw

\* A commit that lands brings about something new.
Ahead ==
    /\ \A i \in Outcomes : inputs[i].kind = "ok" =>
           /\ inputs[i].found = "none" /\ engine.seen <= inputs[i].saw
           /\ \A h \in Hosts : h <= inputs[i].saw
    /\ commit.pc = "landed" => \E h \in Hosts : engine.seen <= h

\* A commit replaces what is recorded.
Expects ==
    /\ \A i \in CommitJobs : released[i].expected = engine.record
    /\ commit.pc # "none" => commit.expected = engine.record
    /\ commit.pc = "placing" /\ Last \in Hosts => commit.expected = None \/ Holds = None

\* A scan that ends with its first n reports has seen the path after all that
\* was told before it began.
Behind(s, n) ==
    ~ToldBy(n) =>
        /\ engine.seen <= s
        /\ \A j \in 1..n : inputs[j].kind \in News => inputs[j].saw <= s
        /\ /\ commit.pc = "none" /\ CommitJobs = {}
           /\ \A i \in Outcomes : i <= n /\ inputs[i].kind = "failed"
           => After(s)

Scanned ==
    /\ look["scan"].pc # "none" => Behind(look["scan"].saw, Len(inputs))
    /\ scan.missing # 0 => scan.pc = "walked" /\ Behind(scan.missing, Len(inputs))
    /\ \A i \in DOMAIN inputs :
           inputs[i].kind = "finished" /\ inputs[i].saw # 0 => Behind(inputs[i].saw, i - 1)

OInv == IInv /\ OnTime /\ Unread /\ Settled /\ FailedAfter /\ Ahead /\ Expects /\ Scanned

\* The clock is past every time in use.
LEMMA NowPast ==
  ASSUME Typed, Bounded
  PROVE  /\ Now \in Nat \ {0} /\ engine.reported < Now /\ engine.observed < Now
         /\ \A o \in Observers : look[o].at < Now
         /\ \A i \in 1..Len(inputs) : inputs[i].at < Now
<1> DEFINE T == TimesOf(engine, look, inputs)
<1>1. DOMAIN inputs = 1..Len(inputs) /\ \A i \in 1..Len(inputs) : inputs[i] \in Msgs
  BY Domains
<1>2. T \in SUBSET Nat /\ 0 \in T
  BY <1>1 DEF TimesOf, Typed, Engines, Looks, Msgs
<1>3. /\ engine.reported \in T /\ engine.observed \in T /\ \A o \in Observers : look[o].at \in T
      /\ \A i \in 1..Len(inputs) : inputs[i].at \in T
  BY <1>1 DEF TimesOf
<1>4. PICK b \in Nat : \A t \in T : t <= b
  BY DEF Bounded
<1> HIDE DEF T
<1>5. Max(T) \in T /\ \A t \in T : t <= Max(T)
  BY <1>2, <1>4, Greatest
<1>6. Now = 1 + Max(T)
  BY DEF Now, T
<1>7. Now \in Nat \ {0} /\ \A t \in T : t < Now
  <2>1. PICK x \in T : x = Max(T)
    BY <1>5
  <2>2. Now = 1 + x /\ x \in Nat /\ \A t \in T : t \in Nat /\ t <= x
    BY <1>2, <1>5, <1>6, <2>1
  <2> QED
    BY <2>2
<1> QED
  BY <1>3, <1>7

\* What tells of the path is older than now, and tells of a state it was in.
LEMMA TellsSays ==
  ASSUME IInv, NEW t, NEW s, NEW f, Tells(look, inputs, t, s, f)
  PROVE  t \in Nat /\ t < Now /\ s \in Nat /\ s <= Last /\ s \in DOMAIN disk
<1> USE DEF IInv
<1>1. CASE \E o \in Observers : /\ look[o].pc \in {"hashing", "ready"}
                                /\ look[o].at = t /\ look[o].saw = s /\ look[o].found = f
  <2>2. PICK o \in Observers : look[o].pc # "none" /\ look[o].at = t /\ look[o].saw = s
    BY <1>1
  <2>3. look[o] \in Looks
    BY DEF Typed
  <2>4. s \in DOMAIN disk
    BY <2>2 DEF LooksTrue, LookTrue, Found
  <2>5. t \in Nat /\ t < Now
    BY <2>2, <2>3, NowPast DEF Looks
  <2>1. s \in DOMAIN disk /\ t < Now /\ t \in Nat
    BY <2>4, <2>5
  <2> QED
    BY <2>1, Domains
<1>2. CASE \E i \in 1..Len(inputs) : inputs[i].kind \in News /\ inputs[i].at = t
                                     /\ inputs[i].saw = s /\ inputs[i].found = f
  <2>1. PICK i \in 1..Len(inputs) : inputs[i].kind \in News /\ inputs[i].at = t
                                    /\ inputs[i].saw = s /\ inputs[i].found = f
    BY <1>2
  <2>2. i \in DOMAIN inputs /\ inputs[i] \in Msgs
    BY Domains
  <2>3. s \in DOMAIN disk
    <3>1. CASE inputs[i].kind = "ok"
      BY <2>1, <2>2, <3>1 DEF OneFlight, Outcomes
    <3>2. CASE inputs[i].kind \in {"seen", "failed"}
      BY <2>1, <2>2, <3>2 DEF LooksTrue, MsgTrue, Found
    <3> QED
      BY <2>1, <3>1, <3>2 DEF News
  <2>4. t < Now /\ t \in Nat
    BY <2>1, <2>2, NowPast DEF Msgs
  <2> QED
    BY <2>3, <2>4, Domains
<1> QED
  BY <1>1, <1>2 DEF Tells

\* A book of which some is told, or where fewer states are read.
LEMMA BookLess ==
  ASSUME NEW e, NEW l, NEW q, NEW p, NEW L, NEW S, NEW F, Book(e, l, q, p, L, S, F),
         NEW d, NEW k, NEW r, NEW c, NEW K, NEW T, NEW G,
         e.observed \in Nat, d.observed \in Nat, d.reported = e.reported,
         e.observed <= d.observed, S \subseteq T, L \subseteq K,
         \A t, s, f : Tells(k, r, t, s, f) => Tells(l, q, t, s, f),
         \A i, t : Concludes(k, r, c, i, t) => Concludes(l, q, p, i, t),
         \A t : Concludes(k, r, c, "failed", t) => F \subseteq G
  PROVE  Book(d, k, r, c, K, T, G)
<1>0. \A f, s : Read(f, s, K) => Read(f, s, L)
  BY DEF Read
<1>1. Stamped(k, r) /\ Sorted(k, r, K)
  BY <1>0 DEF Book, Stamped, Sorted
<1>2. FromBoth(d, k, r, K, T)
  <2> SUFFICES ASSUME NEW u, NEW s, NEW f, Tells(k, r, u, s, f), Read(f, s, K),
                      d.reported <= u, d.observed <= u
               PROVE  s \in T
    BY DEF FromBoth
  <2>1. Tells(l, q, u, s, f) /\ u \in Nat
    BY DEF Book, Stamped
  <2>2. e.reported <= u /\ e.observed <= u
    BY <2>1
  <2> QED
    BY <1>0, <2>1, <2>2 DEF Book, FromBoth
<1>3. \A i, t : Concludes(k, r, c, i, t) => t \in Nat /\ d.reported <= t
  BY DEF Book
<1>4. ASSUME NEW t, Concludes(k, r, c, "failed", t) PROVE From(t, k, r, K, G)
  <2>1. From(t, l, q, L, F)
    BY <1>4 DEF Book
  <2> QED
    BY <1>0, <1>4, <2>1 DEF From
<1> QED
  BY <1>1, <1>2, <1>3, <1>4 DEF Book

\* A book that gets a new line, of no file that was read.
LEMMA BookMore ==
  ASSUME NEW e, NEW l, NEW q, NEW p, NEW L, NEW S, NEW F, Book(e, l, q, p, L, S, F),
         NEW k, NEW r, NEW c, NEW n \in Nat \ {0}, NEW v \in Nat, NEW g, ~Read(g, v, L),
         e.reported <= n,
         \A t, s, f : Tells(l, q, t, s, f) => t < n,
         \A t, s, f : Tells(k, r, t, s, f) =>
             Tells(l, q, t, s, f) \/ (t = n /\ s = v /\ f = g),
         \A i, t : Concludes(k, r, c, i, t) => Concludes(l, q, p, i, t) \/ t = n
  PROVE  Book(e, k, r, c, L, S, F)
<1>0. Stamped(l, q) /\ Sorted(l, q, L) /\ FromBoth(e, l, q, L, S)
  BY DEF Book
<1>1. Stamped(k, r)
  BY <1>0 DEF Stamped
<1>6. \A u, w, h : Tells(k, r, u, w, h) /\ Read(h, w, L) => Tells(l, q, u, w, h) /\ u \in Nat /\ u < n
  BY <1>0 DEF Stamped
<1>2. Sorted(k, r, L)
  <2> SUFFICES ASSUME NEW t, NEW s, NEW f, NEW u, NEW w, NEW h, Tells(k, r, t, s, f),
                      Tells(k, r, u, w, h), f # "absent", Read(h, w, L), t <= u
               PROVE  s <= w
    BY DEF Sorted
  <2>1. Tells(l, q, u, w, h) /\ u \in Nat /\ u < n
    BY <1>6
  <2>2. Tells(l, q, t, s, f)
    BY <2>1
  <2> QED
    BY <1>0, <2>1, <2>2 DEF Sorted
<1>3. FromBoth(e, k, r, L, S)
  BY <1>0, <1>6 DEF FromBoth
<1>4. \A i, t : Concludes(k, r, c, i, t) => t \in Nat /\ e.reported <= t
  BY DEF Book
<1>5. ASSUME NEW t, Concludes(k, r, c, "failed", t) PROVE From(t, k, r, L, F)
  <2> SUFFICES ASSUME NEW u, NEW s, NEW f, Tells(k, r, u, s, f), Read(f, s, L), t <= u
               PROVE  s \in F
    BY DEF From
  <2>1. Tells(l, q, u, s, f) /\ u \in Nat /\ u < n
    BY <1>6
  <2>2. t # n
    BY <2>1
  <2>3. Concludes(l, q, p, "failed", t)
    BY <1>5, <2>2
  <2> QED
    BY <2>1, <2>3 DEF Book, From
<1> QED
  BY <1>1, <1>2, <1>3, <1>4, <1>5 DEF Book

\* The looks and the queue that a step leaves, before their times become ranks.
LEMMA AppendTells ==
  ASSUME NEW ls, NEW q \in Seq(Msgs), NEW m \in Msgs, NEW pc
  PROVE  /\ \A t, s, f : Tells(ls, Append(q, m), t, s, f) =>
              \/ Tells(ls, q, t, s, f)
              \/ m.kind \in News /\ m.at = t /\ m.saw = s /\ m.found = f
         /\ \A kind, t : Concludes(ls, Append(q, m), pc, kind, t) =>
              \/ Concludes(ls, q, pc, kind, t)
              \/ m.kind = kind /\ kind \in {"ok", "failed"} /\ m.at = t
<1> DEFINE r == Append(q, m)
<1>1. /\ Len(r) = Len(q) + 1 /\ r[Len(q) + 1] = m /\ Len(q) \in Nat
      /\ \A i \in 1..Len(q) : r[i] = q[i]
  OBVIOUS
<1> HIDE DEF r
<1>2. \A i \in 1..Len(r) : i \in 1..Len(q) \/ i = Len(q) + 1
  BY <1>1
<1>3. \A t, s, f : Tells(ls, r, t, s, f) =>
        Tells(ls, q, t, s, f) \/ (m.kind \in News /\ m.at = t /\ m.saw = s /\ m.found = f)
  BY <1>1, <1>2 DEF Tells
<1>4. \A kind, t : Concludes(ls, r, pc, kind, t) =>
        \/ Concludes(ls, q, pc, kind, t)
        \/ m.kind = kind /\ kind \in {"ok", "failed"} /\ m.at = t
  BY <1>1, <1>2 DEF Concludes
<1> QED
  BY <1>3, <1>4 DEF r

LEMMA TailTells ==
  ASSUME NEW ls, NEW q \in Seq(Msgs), q # <<>>, NEW pc
  PROVE  /\ \A t, s, f : Tells(ls, Tail(q), t, s, f) => Tells(ls, q, t, s, f)
         /\ \A kind, t : Concludes(ls, Tail(q), pc, kind, t) => Concludes(ls, q, pc, kind, t)
<1> DEFINE r == Tail(q)
<1>1. /\ Len(r) = Len(q) - 1 /\ Len(q) \in Nat /\ \A i \in 1..Len(r) : r[i] = q[i + 1]
  OBVIOUS
<1> HIDE DEF r
<1>2. \A i \in 1..Len(r) : i + 1 \in 1..Len(q) /\ r[i] = q[i + 1]
  BY <1>1
<1>3. \A t, s, f : Tells(ls, r, t, s, f) => Tells(ls, q, t, s, f)
  BY <1>2 DEF Tells
<1>4. \A kind, t : Concludes(ls, r, pc, kind, t) => Concludes(ls, q, pc, kind, t)
  BY <1>2 DEF Concludes
<1> QED
  BY <1>3, <1>4 DEF r

LEMMA LookTells ==
  ASSUME Typed, NEW o \in Observers, NEW l, NEW q, NEW pc
  PROVE  LET ls == [look EXCEPT ![o] = l] IN
         /\ \A t, s, f : Tells(ls, q, t, s, f) =>
              \/ Tells(look, q, t, s, f)
              \/ l.pc \in {"hashing", "ready"} /\ l.at = t /\ l.saw = s /\ l.found = f
         /\ \A kind, t : Concludes(ls, q, pc, kind, t) =>
              \/ Concludes(look, q, pc, kind, t)
              \/ o = "executor" /\ l.pc \in {"hashing", "ready"} /\ l.at = t
<1> DEFINE ls == [look EXCEPT ![o] = l]
<1>1. ls[o] = l /\ \A p \in Observers : p # o => ls[p] = look[p]
  BY DEF Typed
<1>2. "executor" \in Observers
  BY DEF Observers
<1> HIDE DEF ls
<1>3. \A t, s, f : Tells(ls, q, t, s, f) =>
        \/ Tells(look, q, t, s, f)
        \/ l.pc \in {"hashing", "ready"} /\ l.at = t /\ l.saw = s /\ l.found = f
  BY <1>1 DEF Tells
<1>4. \A kind, t : Concludes(ls, q, pc, kind, t) =>
        \/ Concludes(look, q, pc, kind, t)
        \/ o = "executor" /\ l.pc \in {"hashing", "ready"} /\ l.at = t
  BY <1>1, <1>2 DEF Concludes
<1> QED
  BY <1>3, <1>4 DEF ls

\* A step that writes the book anew.
LEMMA TimedBook ==
  ASSUME Typed, Bounded, NEW e, Timely(e), NEW ls \in [Observers -> Looks], NEW q \in Seq(Msgs),
         Timed(e, ls, q), \A o \in Observers : ls[o].at <= Now, \A i \in 1..Len(q) : q[i].at <= Now,
         NEW pc, NEW L, NEW S, NEW F, Book(e, ls, q, pc, L, S, F)
  PROVE  Book(engine', look', inputs', pc, L, S, F)
<1>1. Now \in Nat /\ e \in Engines
  BY LookTimes DEF Timely
<1>2. \A t \in TimesOf(e, ls, q) : t <= Now
  <2>1. DOMAIN q = 1..Len(q) /\ 0 <= Now
    BY <1>1
  <2> QED
    BY <1>1, <2>1 DEF TimesOf, Timely
<1>3. SameLooks(ls) /\ SameQueue(q)
  BY <1>1, <1>2, TimedSays
<1>4. PICK R : Retimes(R, e, ls, q)
  BY <1>1, <1>2, TimedOrder
<1> QED
  BY <1>3, <1>4, RetimedBook

-----------------------------------------------------------------------------
(* What the steps leave of the order.                                         *)

\* The host does nothing to the path.
HostsKept ==
    /\ Hosts' = Hosts /\ \A h \in Hosts : disk'[h].holds = disk[h].holds
    /\ \/ Last' = Last /\ Holds' = Holds
       \/ Last' = Last + 1 /\ Last' \notin Hosts'

LEMMA HostForms ==
  ASSUME IInv, [Next]_vars
  PROVE  \/ HostsKept
         \/ (TakeCommit \/ Place \/ PlaceFails) /\ \E c \in Maybe : Becomes(c, "host")
<1> USE DEF IInv
<1>0. DOMAIN disk = 1..Last /\ Last \in Nat \ {0}
  BY Domains
<1>1. CASE disk' = disk
  BY <1>1 DEF HostsKept, Hosts, Last, Holds
<1>2. CASE UserDoes
  <2>1. PICK c \in Maybe : Becomes(c, "user")
    BY <1>2 DEF UserDoes
  <2>2. /\ DOMAIN disk' = 1..Last + 1 /\ disk'[Last + 1] = State(c, "user") /\ Last' = Last + 1
        /\ \A i \in 1..Last : disk'[i] = disk[i]
    BY <2>1, BecomesSays
  <2>3. disk'[Last + 1].by # "host"
    BY <2>2 DEF State
  <2> QED
    BY <1>0, <2>2, <2>3 DEF HostsKept, Hosts
<1>3. CASE Calm
  <2>1. DOMAIN disk' = DOMAIN disk /\ Grown(disk, disk')
    BY <1>3, CalmSays
  <2>2. Last' = Last
    <3>1. disk' \in Seq(States) /\ disk \in Seq(States)
      BY <1>3, CalmSays DEF Typed
    <3> QED
      BY <2>1, <3>1 DEF Last
  <2> QED
    BY <1>0, <2>1, <2>2 DEF HostsKept, Hosts, Grown, Holds
<1> QED
  BY <1>1, <1>2, <1>3, HostSteps, Frames

LEMMA AfterKept ==
  ASSUME HostsKept, engine'.record = engine.record, NEW s
  PROVE  After(s)' <=> After(s)
BY DEF HostsKept, After

\* A step but a report leaves what the engine knows.
LEMMA Knows ==
  ASSUME IInv, [Next]_vars, ~Report
  PROVE  engine'.record = engine.record /\ engine'.seen = engine.seen
         /\ engine'.bracket = engine.bracket
BY QuietEngine, DispatchSays, Steps DEF NotesOf, Jobbing, SameEngine, IInv

\* The host acts while no outcome is told.
LEMMA HostSilent ==
  ASSUME IInv, [Next]_vars, TakeCommit \/ Place \/ PlaceFails
  PROVE  /\ commit'.pc # "none" /\ look["executor"].pc = "none" /\ commit.pc \in {"none", "placing"}
         /\ UNCHANGED <<look, inputs, engine, scan>> /\ Outcomes' = {} /\ Outcomes = {}
         /\ \A pc, kind, t : ~Concludes(look, inputs, pc, kind, t)
<1> USE DEF IInv
<1>1. commit'.pc # "none" /\ look["executor"].pc = "none" /\ commit.pc \in {"none", "placing"}
  <2>1. CASE TakeCommit
    BY <2>1 DEF TakeCommit, NextJob, Idle
  <2>2. CASE Place \/ PlaceFails
    BY <2>2 DEF Place, PlaceFails, Typed, Busy
  <2> QED
    BY <2>1, <2>2
<1>2. UNCHANGED <<look, inputs, engine, scan>>
  BY DEF TakeCommit, Place, PlaceFails, Untimed
<1>3. Outcomes' = {}
  BY <1>1, StepOneFlight DEF OneFlight
<1>4. Outcomes = {}
  BY <1>2, <1>3 DEF Outcomes
<1>5. ASSUME NEW pc, NEW kind, NEW t, Concludes(look, inputs, pc, kind, t) PROVE FALSE
  <2>1. PICK i \in 1..Len(inputs) : inputs[i].kind \in {"ok", "failed"}
    BY <1>1, <1>5 DEF Concludes
  <2> QED
    BY <1>4, <2>1, Domains DEF Outcomes
<1> QED
  BY <1>1, <1>2, <1>3, <1>4, <1>5

LEMMA OutcomesStay ==
  ASSUME IInv, [Next]_vars, ~Report, commit'.pc = "none", Outcomes' = {}
  PROVE  commit.pc = "none" /\ Outcomes = {}
<1> USE DEF IInv
<1>1. Typed /\ Typed'
  BY StepTyped
<1>2. /\ SameQueue(inputs) => Outcomes' = Outcomes
      /\ \A m \in Msgs : Adds(m) => Outcomes \subseteq Outcomes'
      /\ \A m \in Msgs : Adds(m) /\ m.kind \in {"ok", "failed"} => Outcomes' # {}
  BY <1>1, OutcomesForms
<1>3. Outcomes = {}
  BY <1>2, QueueForms
<1>4. Looked => Kind \notin {"ok", "failed"}
  BY <1>2, LookedSays
<1>5. Looked => commit.pc = "none"
  BY <1>4, LookedSays DEF Busy, Kind
<1> QED
  BY <1>3, <1>5, HostSilent, Frames

LEMMA QuietFits ==
  ASSUME IInv, [Next]_vars, ~Report
  PROVE  /\ Fits \subseteq Fits' /\ Linked \subseteq Linked'
         /\ \A t : Concludes(look', inputs', commit'.pc, "failed", t) => Afters \subseteq Afters'
<1>0. Linked \subseteq Linked'
  BY StepTyped DEF Linked, Grown
<1>1. CASE HostsKept
  <2>1. \A s : After(s)' <=> After(s)
    BY <1>1, AfterKept, Knows
  <2> QED
    BY <1>0, <2>1, Knows, OutcomesStay DEF Fits, Afters
<1>2. CASE TakeCommit \/ Place \/ PlaceFails
  <2>1. commit'.pc # "none" /\ \A t : ~Concludes(look', inputs', commit'.pc, "failed", t)
    BY <1>2, HostSilent
  <2> QED
    BY <1>0, <2>1, Knows DEF Fits
<1> QED
  BY <1>1, <1>2, HostForms

LEMMA LastFits ==
  ASSUME OInv
  PROVE  /\ Last \in Fits /\ Last \in Nat
         /\ \A ls, t : Concludes(ls, inputs, commit.pc, "failed", t) => Last \in Afters
<1> USE DEF OInv, IInv
<1>1. Last \in Nat /\ engine.seen <= Last
  BY Domains DEF Typed
<1>2. commit.pc = "none" /\ Outcomes = {} => After(Last)
  BY DEF Settled
<1>3. ASSUME NEW ls, NEW t, Concludes(ls, inputs, commit.pc, "failed", t) PROVE After(Last)
  <2>1. CASE commit.pc = "failed"
    BY <2>1 DEF Settled, OneFlight
  <2>2. CASE commit.pc # "failed"
    <3>1. PICK i \in 1..Len(inputs) : inputs[i].kind = "failed"
      BY <1>3, <2>2 DEF Concludes
    <3>2. i \in Outcomes
      BY <3>1, Domains DEF Outcomes
    <3>3. commit.pc = "none" /\ \A j \in Outcomes : inputs[j].kind # "ok"
      BY <3>1, <3>2 DEF OneFlight
    <3> QED
      BY <3>3 DEF Settled
  <2> QED
    BY <2>1, <2>2
<1> QED
  BY <1>1, <1>2, <1>3 DEF Fits, Afters

LEMMA EngineTimes ==
  ASSUME Typed, Bounded
  PROVE  Timely(engine) /\ engine.reported \in Nat /\ engine.observed \in Nat /\ Now \in Nat
BY LookTimes DEF Typed, Timely, Engines

\* A step that sends a report, or none.
LEMMA SentBook ==
  ASSUME OInv, NEW ls \in [Observers -> Looks], NEW m \in Msgs, Sends(ls, m),
         \A o \in Observers : ls[o].at <= Now, m.at <= Now, NEW pc,
         Book(engine, ls, Append(inputs, m), pc, Linked, Fits, Afters)
  PROVE  Book(engine', look', inputs', pc, Linked, Fits, Afters)
<1> DEFINE q == Append(inputs, m)
<1> USE DEF OInv, IInv
<1>1. /\ q \in Seq(Msgs) /\ Len(q) = Len(inputs) + 1 /\ q[Len(inputs) + 1] = m
      /\ \A i \in 1..Len(inputs) : q[i] = inputs[i]
  BY DEF Typed
<1>2. Timed(engine, ls, q)
  BY DEF Sends
<1> HIDE DEF q
<1>3. \A i \in 1..Len(q) : q[i].at <= Now
  <2> TAKE i \in 1..Len(q)
  <2>1. i \in 1..Len(inputs) \/ i = Len(inputs) + 1
    BY <1>1, Domains
  <2> QED
    BY <1>1, <2>1, LookTimes
<1>4. Book(engine, ls, q, pc, Linked, Fits, Afters)
  BY DEF q
<1> QED
  BY <1>1, <1>2, <1>3, <1>4, EngineTimes, TimedBook

\* A look that is started has no time yet.
LEMMA StatBook ==
  ASSUME OInv, NEW o \in Observers, Stat(o)
  PROVE  Book(engine', look', inputs', commit.pc, Linked, Fits, Afters)
<1> USE DEF OInv, IInv
<1>1. /\ \A p \in Observers \ {o} : look'[p] = look[p]
      /\ look'[o].pc = "stated" /\ UNCHANGED <<engine, inputs>>
  BY StatSays
<1>2. "executor" \in Observers
  BY DEF Observers
<1>3. /\ \A t, s, f : Tells(look', inputs', t, s, f) => Tells(look, inputs, t, s, f)
      /\ \A i, t : Concludes(look', inputs', commit.pc, i, t) =>
                       Concludes(look, inputs, commit.pc, i, t)
  BY <1>1, <1>2 DEF Tells, Concludes
<1>4. Book(engine, look, inputs, commit.pc, Linked, Fits, Afters) /\ engine.observed \in Nat
      /\ engine.observed <= engine.observed
  BY EngineTimes DEF OnTime
<1>5. Book(engine, look', inputs', commit.pc, Linked, Fits, Afters)
  BY <1>3, <1>4, BookLess
<1> QED
  BY <1>1, <1>5

\* The clock is read for a look, or a commit that landed.
LEMMA ClockBook ==
  ASSUME OInv, NEW o \in Observers, NEW l \in Looks, l.pc \in {"hashing", "ready"}, l.at = Now,
         ~Read(l.found, l.saw, Linked), Timed(engine, [look EXCEPT ![o] = l], inputs)
  PROVE  Book(engine', look', inputs', commit.pc, Linked, Fits, Afters)
<1> USE DEF OInv, IInv
<1> DEFINE ls == [look EXCEPT ![o] = l]
<1>1. ls \in [Observers -> Looks] /\ \A p \in Observers : ls[p] = IF p = o THEN l ELSE look[p]
  BY DEF Typed
<1>2. /\ \A t, s, f : Tells(ls, inputs, t, s, f) =>
           Tells(look, inputs, t, s, f) \/ (t = Now /\ s = l.saw /\ f = l.found)
      /\ \A i, t : Concludes(ls, inputs, commit.pc, i, t) =>
           Concludes(look, inputs, commit.pc, i, t) \/ t = Now
  <2> HIDE DEF ls
  <2>1. LET k == [look EXCEPT ![o] = l] IN
        \A t, s, f : Tells(k, inputs, t, s, f) =>
          \/ Tells(look, inputs, t, s, f)
          \/ l.pc \in {"hashing", "ready"} /\ l.at = t /\ l.saw = s /\ l.found = f
    BY LookTells
  <2>2. PICK pc : pc = commit.pc
    OBVIOUS
  <2>3. LET k == [look EXCEPT ![o] = l] IN
        \A i, t : Concludes(k, inputs, pc, i, t) =>
          \/ Concludes(look, inputs, pc, i, t)
          \/ o = "executor" /\ l.pc \in {"hashing", "ready"} /\ l.at = t
    BY LookTells
  <2> QED
    BY <2>1, <2>2, <2>3 DEF ls
<1> HIDE DEF ls
<1>3. \A p \in Observers : ls[p].at <= Now
  BY <1>1, LookTimes
<1>4. Book(engine, ls, inputs, commit.pc, Linked, Fits, Afters)
  <2>1. \A t, s, f : Tells(look, inputs, t, s, f) => t < Now
    BY TellsSays
  <2>2. Now \in Nat \ {0} /\ engine.reported <= Now /\ l.saw \in Nat
    BY NowPast, EngineTimes DEF Looks
  <2>3. Book(engine, look, inputs, commit.pc, Linked, Fits, Afters)
    BY DEF OnTime
  <2> QED
    BY <1>2, <2>1, <2>2, <2>3, BookMore
<1>5. Timed(engine, ls, inputs)
  BY DEF ls
<1> QED
  BY <1>1, <1>3, <1>4, <1>5, EngineTimes, LookTimes, TimedBook DEF Typed

LEMMA DatedBook ==
  ASSUME OInv, NEW o \in Observers, Dated(o)
  PROVE  Book(engine', look', inputs', commit.pc, Linked, Fits, Afters)
<1> USE DEF OInv, IInv
<1> DEFINE pc == IF look[o].found = "hash" THEN "hashing" ELSE "ready"
           l  == [look[o] EXCEPT !.at = Now, !.pc = pc]
<1>1. look[o].pc = "stated" /\ look[o] \in Looks /\ look[o].saw \in DOMAIN disk
  BY DEF Dated, Typed, LooksTrue, LookTrue, Found
<1>2. pc \in {"hashing", "ready"}
  OBVIOUS
<1>3. Timed(engine, [look EXCEPT ![o] = l], inputs)
  <2>1. [look EXCEPT ![o].at = Now, ![o].pc = pc] = [look EXCEPT ![o] = l]
    BY DEF Typed
  <2> QED
    BY <2>1 DEF Dated
<1>4. l \in Looks /\ l.at = Now /\ l.pc = pc /\ l.found = look[o].found /\ l.saw = look[o].saw
  <2> HIDE DEF pc
  <2> QED
    BY <1>1, <1>2, LookTimes DEF Looks
<1> HIDE DEF l, pc
<1>5. ~Read(l.found, l.saw, Linked)
  BY <1>1, <1>4 DEF Read, Linked, Unread
<1> QED
  BY <1>2, <1>3, <1>4, <1>5, ClockBook

LEMMA LandedBook ==
  ASSUME OInv, Landed
  PROVE  Book(engine', look', inputs', commit.pc, Linked, Fits, Afters)
<1> USE DEF OInv, IInv
<1> DEFINE S == {i \in DOMAIN disk : disk[i].by = "host"} \cup {1}
           made == Max(S)
           l == [NoLook EXCEPT !.pc = "ready", !.saw = made, !.at = Now]
<1>1. made \in Nat
  <2>1. S \in SUBSET Nat /\ 1 \in S /\ Last \in Nat /\ \A i \in S : i <= Last
    BY Domains
  <2> HIDE DEF S
  <2>2. Max(S) \in S
    BY <2>1, Greatest
  <2> QED
    BY <2>1, <2>2
<1>2. Timed(engine, [look EXCEPT !["executor"] = l], inputs)
  BY DEF Landed
<1> HIDE DEF made
<1>3. NoLook \in Looks /\ NoLook.found = "none" /\ Now \in Nat
  BY LookTimes DEF NoLook, Looks, Founds, Maybe
<1>4. l \in Looks /\ l.pc = "ready" /\ l.at = Now /\ l.found = "none"
  BY <1>1, <1>3 DEF Looks
<1> HIDE DEF l
<1>5. "executor" \in Observers /\ ~Read(l.found, l.saw, Linked)
  BY <1>4 DEF Observers, Read
<1> QED
  BY <1>2, <1>4, <1>5, ClockBook

LEMMA HashBook ==
  ASSUME OInv, NEW o \in Observers, Hash(o)
  PROVE  Book(engine', look', inputs', commit.pc, Linked, Fits, Afters)
<1> USE DEF OInv, IInv
<1> DEFINE l == [Hashed(look[o]) EXCEPT !.pc = "ready"]
<1>1. look[o] \in Looks /\ look[o].pc = "hashing" /\ look[o].found = "hash"
  BY DEF Typed, LooksTrue, LookTrue, Hash
<1>2. Last \in Nat
  BY Domains
<1>3. /\ l.pc = "ready" /\ l.at = look[o].at
      /\ \/ l.saw = look[o].saw /\ l.found = "skipped"
         \/ l.saw = look[o].saw /\ l.saw = Last /\ l.found = "observed"
         \/ l.saw = Last /\ l.found = "absent"
  BY <1>1, <1>2 DEF Looks, Hashed, Founds
<1>4. look' = [look EXCEPT ![o] = l] /\ UNCHANGED <<engine, inputs>>
  BY DEF Hash
<1> HIDE DEF l
<1>5. Tells(look, inputs, look[o].at, look[o].saw, "hash")
  BY <1>1 DEF Tells
<1>6. \A t, s, f : Tells(look', inputs, t, s, f) =>
        \/ Tells(look, inputs, t, s, f)
        \/ t = look[o].at /\ f = l.found /\ s = l.saw
  <2>1. LET ls == [look EXCEPT ![o] = l] IN
        \A t, s, f : Tells(ls, inputs, t, s, f) =>
          \/ Tells(look, inputs, t, s, f)
          \/ l.pc \in {"hashing", "ready"} /\ l.at = t /\ l.saw = s /\ l.found = f
    BY LookTells
  <2> QED
    BY <1>3, <1>4, <2>1
<1>7. \A i, t : Concludes(look', inputs, commit.pc, i, t) => Concludes(look, inputs, commit.pc, i, t)
  <2>1. look'[o] = l /\ \A p \in Observers : p # o => look'[p] = look[p]
    BY <1>4 DEF Typed
  <2>2. "executor" \in Observers
    BY DEF Observers
  <2> QED
    BY <1>1, <1>3, <2>1, <2>2 DEF Concludes
<1>8. Book(engine, look, inputs, commit.pc, Linked, Fits, Afters)
  BY DEF OnTime
<1>9. Stamped(look', inputs)
  BY <1>2, <1>3, <1>5, <1>6, <1>8 DEF Book, Stamped
\* A file is read in the last state.
<1>11. \A t, s, f : Tells(look', inputs, t, s, f) /\ Read(f, s, Linked) =>
         s = Last \/ Tells(look, inputs, t, s, f)
  BY <1>3, <1>6 DEF Read
<1>10. Sorted(look', inputs, Linked)
  <2> SUFFICES ASSUME NEW t, NEW s, NEW f, NEW u, NEW r, NEW g, Tells(look', inputs, t, s, f),
                      Tells(look', inputs, u, r, g), f # "absent", Read(g, r, Linked), t <= u
               PROVE  s <= r
    BY DEF Sorted
  <2>1. \E h : Tells(look, inputs, t, s, h) /\ h # "absent"
    BY <1>3, <1>5, <1>6
  <2>2. r = Last \/ Tells(look, inputs, u, r, g)
    BY <1>11
  <2>3. s <= Last
    BY <2>1, TellsSays
  <2> QED
    BY <1>8, <2>1, <2>2, <2>3 DEF Book, Sorted
<1>12. FromBoth(engine, look', inputs, Linked, Fits)
  BY <1>8, <1>11, LastFits DEF Book, FromBoth
<1>13. \A i, t : Concludes(look', inputs, commit.pc, i, t) => t \in Nat /\ engine.reported <= t
  BY <1>7, <1>8 DEF Book
<1>14. \A t : Concludes(look', inputs, commit.pc, "failed", t) =>
           From(t, look', inputs, Linked, Afters)
  BY <1>7, <1>8, <1>11, LastFits DEF Book, From
<1> QED
  BY <1>4, <1>9, <1>10, <1>12, <1>13, <1>14 DEF Book

LEMMA OverSays ==
  ASSUME Typed, Bounded, NEW o \in Observers
  PROVE  LET ls == [look EXCEPT ![o] = NoLook] IN
         /\ ls \in [Observers -> Looks] /\ \A p \in Observers : ls[p].at <= Now
         /\ \A q, t, s, f : Tells(ls, q, t, s, f) => Tells(look, q, t, s, f)
         /\ \A q, pc, kind, t : Concludes(ls, q, pc, kind, t) =>
              Concludes(look, q, pc, kind, t) /\ (o = "executor" => Concludes(look, q, "none", kind, t))
<1> DEFINE ls == [look EXCEPT ![o] = NoLook]
<1>1. ls \in [Observers -> Looks] /\ \A p \in Observers : ls[p].at <= Now
  BY NoLookSays
<1>2. ls[o].pc = "none" /\ \A p \in Observers : p # o => ls[p] = look[p]
  BY DEF Typed, NoLook
<1>3. "executor" \in Observers
  BY DEF Observers
<1> HIDE DEF ls
<1>4. \A q, t, s, f : Tells(ls, q, t, s, f) => Tells(look, q, t, s, f)
  BY <1>2 DEF Tells
<1>5. \A q, pc, kind, t : Concludes(ls, q, pc, kind, t) =>
        Concludes(look, q, pc, kind, t) /\ (o = "executor" => Concludes(look, q, "none", kind, t))
  BY <1>2, <1>3 DEF Concludes
<1> QED
  BY <1>1, <1>4, <1>5 DEF ls

\* A report of what was known is sent, or none.
LEMMA SendBook ==
  ASSUME OInv, NEW gone \in [Observers -> Looks], \A p \in Observers : gone[p].at <= Now,
         NEW m \in Msgs, m.at <= Now, Sends(gone, m), NEW c,
         \A t, s, f : Tells(gone, inputs, t, s, f) => Tells(look, inputs, t, s, f),
         \A i, t : Concludes(gone, inputs, c, i, t) => Concludes(look, inputs, commit.pc, i, t),
         m.kind \in News => Tells(look, inputs, m.at, m.saw, m.found),
         m.kind \in {"ok", "failed"} => Concludes(look, inputs, commit.pc, m.kind, m.at)
  PROVE  Book(engine', look', inputs', c, Linked, Fits, Afters)
<1> DEFINE queue == Append(inputs, m)
<1>1. inputs \in Seq(Msgs)
  BY DEF OInv, IInv, Typed
<1>2. \A t, s, f : Tells(gone, queue, t, s, f) =>
            \/ Tells(gone, inputs, t, s, f)
            \/ m.kind \in News /\ m.at = t /\ m.saw = s /\ m.found = f
  BY <1>1, AppendTells
<1>3. \A i, t : Concludes(gone, queue, c, i, t) =>
            \/ Concludes(gone, inputs, c, i, t)
            \/ m.kind = i /\ i \in {"ok", "failed"} /\ m.at = t
  BY <1>1, AppendTells
<1> HIDE DEF queue
<1>4. \A t, s, f : Tells(gone, queue, t, s, f) => Tells(look, inputs, t, s, f)
  BY <1>2
<1>5. \A i, t : Concludes(gone, queue, c, i, t) => Concludes(look, inputs, commit.pc, i, t)
  BY <1>3
<1>6. Book(engine, look, inputs, commit.pc, Linked, Fits, Afters) /\ engine.observed \in Nat
      /\ engine.observed <= engine.observed
  BY EngineTimes DEF OInv, IInv, OnTime
<1>7. Book(engine, gone, queue, c, Linked, Fits, Afters)
  BY <1>4, <1>5, <1>6, BookLess
<1> QED
  BY <1>7, SentBook DEF queue

\* A look that is over, of which a report is sent or none.
LEMMA OverBook ==
  ASSUME OInv, NEW o \in Observers, look[o].pc = "ready", NEW k \in {"seen", "failed", "ok"}, NEW c,
         k = "failed" => o = "executor" /\ commit.pc = "failed",
         k = "ok" => o = "executor" /\ commit.pc = "landed",
         c = commit.pc \/ (o = "executor" /\ c = "none"),
         \/ Timed(engine, [look EXCEPT ![o] = NoLook], inputs)
         \/ Sends([look EXCEPT ![o] = NoLook], Msg(k, look[o]))
  PROVE  Book(engine', look', inputs', c, Linked, Fits, Afters)
<1> USE DEF OInv, IInv
<1> DEFINE gone == [look EXCEPT ![o] = NoLook]
           m == Msg(k, look[o])
<1>1. Timed(engine, gone, inputs) \/ Sends(gone, m)
  OBVIOUS
<1>2. k \in Kinds
  BY DEF Kinds, News
<1>4. m \in Msgs /\ m.kind = k /\ m.at = look[o].at /\ m.saw = look[o].saw /\ m.found = look[o].found
  BY <1>2, MsgSays DEF SameBut
<1> HIDE DEF m
<1>5. m.at <= Now
  BY <1>4, LookTimes
<1>6. /\ gone \in [Observers -> Looks] /\ \A p \in Observers : gone[p].at <= Now
      /\ \A t, s, f : Tells(gone, inputs, t, s, f) => Tells(look, inputs, t, s, f)
      /\ \A i, t : Concludes(gone, inputs, c, i, t) => Concludes(look, inputs, commit.pc, i, t)
  <2>1. /\ gone \in [Observers -> Looks] /\ \A p \in Observers : gone[p].at <= Now
        /\ \A q, t, s, f : Tells(gone, q, t, s, f) => Tells(look, q, t, s, f)
        /\ \A q, pc, kind, t : Concludes(gone, q, pc, kind, t) =>
              Concludes(look, q, pc, kind, t) /\ (o = "executor" => Concludes(look, q, "none", kind, t))
    BY OverSays
  <2> HIDE DEF gone
  <2>2. \A i, t : Concludes(look, inputs, "none", i, t) => Concludes(look, inputs, commit.pc, i, t)
    BY DEF Concludes
  <2> QED
    BY <2>1, <2>2
<1> HIDE DEF gone
<1>7. Tells(look, inputs, m.at, m.saw, m.found)
  BY <1>4 DEF Tells
<1>8. m.kind \in {"ok", "failed"} => Concludes(look, inputs, commit.pc, m.kind, m.at)
  BY <1>4 DEF Concludes
<1>9. Book(engine, look, inputs, commit.pc, Linked, Fits, Afters) /\ engine.observed \in Nat
      /\ engine.observed <= engine.observed
  BY EngineTimes DEF OnTime
<1>10. CASE Timed(engine, gone, inputs)
  <2>1. Book(engine, gone, inputs, c, Linked, Fits, Afters)
    BY <1>6, <1>9, BookLess
  <2>2. inputs \in Seq(Msgs)
    BY DEF Typed
  <2> QED
    BY <1>6, <1>10, <2>1, <2>2, EngineTimes, LookTimes, TimedBook
<1>11. CASE Sends(gone, m)
  BY <1>4, <1>5, <1>6, <1>7, <1>8, <1>11, SendBook
<1> QED
  BY <1>1, <1>10, <1>11

LEMMA WalkedBook ==
  ASSUME OInv, Walked
  PROVE  Book(engine', look', inputs', commit'.pc, Linked, Fits, Afters)
<1>1. "scan" \in Observers /\ look["scan"].pc = "ready" /\ commit' = commit
  BY DEF Observers, Walked
<1>2. \/ Timed(engine, [look EXCEPT !["scan"] = NoLook], inputs)
      \/ Sends([look EXCEPT !["scan"] = NoLook], Msg("seen", look["scan"]))
  BY DEF Walked
<1> QED
  BY <1>1, <1>2, OverBook

LEMMA LookedBook ==
  ASSUME OInv, Looked
  PROVE  Book(engine', look', inputs', commit'.pc, Linked, Fits, Afters)
<1>1. "executor" \in Observers /\ look["executor"].pc = "ready" /\ commit'.pc = "none"
  BY DEF Observers, Looked, NoCommit
<1>2. Sends([look EXCEPT !["executor"] = NoLook], Msg(Kind, look["executor"]))
  BY DEF Looked, Kind
<1>3. /\ Kind \in {"seen", "failed", "ok"} /\ (Kind = "failed" => commit.pc = "failed")
      /\ (Kind = "ok" => commit.pc = "landed")
  BY DEF Kind
<1> QED
  BY <1>1, <1>2, <1>3, OverBook

LEMMA NotesBook ==
  ASSUME OInv, NotesOf
  PROVE  Book(engine', look', inputs', commit.pc, Linked, Fits, Afters)
<1> USE DEF OInv, IInv
<1>1. \E kind \in {"started", "finished", "aborted"}, saw \in Nat : Sends(look, Note(kind, saw))
  BY DEF NotesOf, ScanStarts, ScanEnds, ScanAborts, Typed
<1>2. PICK kind \in {"started", "finished", "aborted"}, saw \in Nat : Sends(look, Note(kind, saw))
  BY <1>1
<1> DEFINE m == Note(kind, saw)
<1>3. m \in Msgs /\ m.kind = kind /\ m.at = 0 /\ kind \notin News /\ kind \notin {"ok", "failed"}
  BY NoteSays DEF Kinds, Ends, News
<1>4. m.at <= Now
  BY <1>3, LookTimes
<1>5. Sends(look, m)
  BY <1>2
<1> HIDE DEF m
<1>6. look \in [Observers -> Looks] /\ \A p \in Observers : look[p].at <= Now
  BY LookTimes DEF Typed
<1> QED
  BY <1>3, <1>4, <1>5, <1>6, SendBook

LEMMA QuietBook ==
  ASSUME OInv, [Next]_vars, ~Report
  PROVE  Book(engine', look', inputs', commit'.pc, Linked, Fits, Afters)
<1> USE DEF OInv, IInv
<1>0. Book(engine, look, inputs, commit.pc, Linked, Fits, Afters) /\ engine.observed \in Nat
      /\ engine.observed <= engine.observed
  BY EngineTimes DEF OnTime
<1>1. CASE \E o \in Observers : Stat(o) \/ Dated(o) \/ Hash(o)
  <2>1. commit' = commit
    BY <1>1 DEF Stat, Dated, Hash
  <2> QED
    BY <1>1, <2>1, StatBook, DatedBook, HashBook
<1>3. CASE Walked \/ Looked
  BY <1>3, WalkedBook, LookedBook
<1>4. CASE NotesOf
  <2>1. commit' = commit
    BY <1>4 DEF NotesOf, ScanStarts, ScanEnds, ScanAborts
  <2> QED
    BY <1>4, <2>1, NotesBook
<1>5. CASE Landed
  <2>1. commit' = commit
    BY <1>5 DEF Landed
  <2> QED
    BY <1>5, <2>1, LandedBook
<1>6. CASE UNCHANGED <<engine, look, inputs, commit>>
  BY <1>0, <1>6
<1>7. CASE TakeCommit \/ Place \/ PlaceFails
  <2>1. UNCHANGED <<engine, look, inputs>> /\ \A i, t : ~Concludes(look, inputs, commit'.pc, i, t)
    BY <1>7, HostSilent
  <2>2. Book(engine, look, inputs, commit'.pc, Linked, Fits, Afters)
    BY <1>0, <2>1, BookLess
  <2> QED
    BY <2>1, <2>2
<1>8. CASE \E c \in Maybe : Dispatch(c)
  <2>1. /\ UNCHANGED <<look, inputs, commit>>
        /\ engine'.reported = engine.reported /\ engine'.observed = engine.observed
    BY <1>8 DEF Dispatch, Typed, Engines
  <2>2. Book(engine', look, inputs, commit.pc, Linked, Fits, Afters)
    BY <1>0, <2>1, BookLess
  <2> QED
    BY <2>1, <2>2
<1>9. UserDoes \/ Calm \/ TakeRecord \/ UNCHANGED vars => UNCHANGED <<engine, look, inputs, commit>>
  BY DEF UserDoes, Calm, TakeRecord, Untimed, vars
<1> QED
  BY <1>1, <1>3, <1>4, <1>5, <1>6, <1>7, <1>8, <1>9, Steps DEF NotesOf

LEMMA QuietOnTime ==
  ASSUME OInv, [Next]_vars, ~Report
  PROVE  OnTime'
<1>1. Book(engine', look', inputs', commit'.pc, Linked, Fits, Afters)
  BY QuietBook
<1>2. /\ Fits \subseteq Fits' /\ Linked \subseteq Linked'
      /\ \A t : Concludes(look', inputs', commit'.pc, "failed", t) => Afters \subseteq Afters'
  BY QuietFits DEF OInv
<1>3. engine'.observed \in Nat
  BY StepTyped DEF OInv, Typed, Engines
<1>4. engine'.observed <= engine'.observed
  BY <1>3
<1>5. Book(engine', look', inputs', commit'.pc, Linked', Fits', Afters')
  BY <1>1, <1>2, <1>3, <1>4, BookLess
<1> QED
  BY <1>5 DEF OnTime

\* The report m is the first that waits, as far as it goes, and e what is made of it.
Heads(m) ==
    /\ m.kind = inputs[1].kind /\ m.saw = inputs[1].saw /\ m.at = inputs[1].at
    /\ m.found # "skipped" => m.found = inputs[1].found
    /\ Lands(engine, m) <=> Lands(engine, inputs[1])

LEMMA ReportMoves ==
  ASSUME OInv, Report
  PROVE  \E m \in Msgs, e \in Engines :
             /\ Heads(m) /\ Moves(e, m)
             /\ Timely(e) /\ SameEngine(e) /\ Timed(e, look, Tail(inputs))
<1> DEFINE m == Relative(engine, Head(inputs))
           e == Handled(engine, m)
<1> USE DEF OInv, IInv
<1>1. /\ inputs \in Seq(Msgs) /\ Len(inputs) <= MaxInputs /\ inputs # <<>>
  BY DEF Typed, Report
<1>2. /\ Head(inputs) = inputs[1] /\ inputs[1] \in Msgs /\ 1 \in DOMAIN inputs
      /\ 1 \in 1..Len(inputs) /\ Len(inputs) \in Nat
  BY <1>1
<1>3. /\ m \in Msgs /\ m.kind = inputs[1].kind /\ m.saw = inputs[1].saw /\ m.at = inputs[1].at
      /\ m.found # "skipped" => m.found = inputs[1].found
      /\ Lands(engine, m) <=> Lands(engine, inputs[1])
  <2>1. m \in Msgs /\ m.kind = inputs[1].kind /\ m.saw = inputs[1].saw /\ m.at = inputs[1].at
    BY <1>2, RelativeSays
  <2>2. m.found # "skipped" => m.found = inputs[1].found
    BY <1>2 DEF Relative, Msgs
  <2>3. Lands(engine, m) <=> Lands(engine, inputs[1])
    BY <1>2 DEF Relative, Lands, Says, Msgs
  <2> QED
    BY <2>1, <2>2, <2>3
<1>4. m.found = "unchanged" => m.compared = engine.record
  BY <1>2, RelativeSays
<1>5. m.at <= Now
  BY <1>2, <1>3, LookTimes
<1>6. m.kind = "finished" => m.saw # 0 \/ engine.bracket = "seen"
  BY <1>2, <1>3 DEF Told, ToldBy
<1>7. m.kind = "ok" => /\ m.saw \in DOMAIN disk /\ engine.flight = {disk[m.saw].holds}
                      /\ m.found = "none"
  <2>1. inputs[1].kind = "ok" =>
          /\ inputs[1].saw \in DOMAIN disk /\ engine.flight = {disk[inputs[1].saw].holds}
          /\ inputs[1].found = "none"
    BY <1>2 DEF OneFlight, Outcomes, Ahead
  <2>2. inputs[1].found = "none" => m.found = inputs[1].found
    BY <1>2 DEF Relative, m
  <2> QED
    BY <2>1, <2>2, <1>3
<1>8. Timed(e, look, Tail(inputs))
  BY DEF Report
<1> HIDE DEF m
<1>9. MsgTrue(disk, m)
  BY <1>2, RelativeSays DEF LooksTrue, m
<1>10. HandledSo(e, m)
  BY <1>3, <1>4, <1>5, <1>6, <1>7, <1>9, HandledSays
<1>11. Moves(e, m)
  BY <1>3, <1>4, <1>5, <1>6, <1>7, <1>9, HandledMoves DEF Moves
<1> HIDE DEF e
<1>12. Timely(e) /\ e \in Engines /\ look \in [Observers -> Looks] /\ Now \in Nat
  BY <1>10, LookTimes DEF HandledSo, Timely, Typed
<1>13. /\ Tail(inputs) \in Seq(Msgs)
       /\ DOMAIN Tail(inputs) = 1..Len(inputs) - 1
       /\ \A i \in 1..Len(inputs) - 1 : Tail(inputs)[i] = inputs[i + 1]
  BY <1>1
<1>14. \A t \in TimesOf(e, look, Tail(inputs)) : t <= Now
  <2>1. \A i \in 1..Len(inputs) - 1 : Tail(inputs)[i].at <= Now
    <3> TAKE i \in 1..Len(inputs) - 1
    <3>1. i + 1 \in 1..Len(inputs)
      BY <1>2
    <3> QED
      BY <1>13, <3>1, LookTimes
  <2>2. /\ 0 <= Now /\ e.reported <= Now /\ e.observed <= Now /\ e.written <= Now
        /\ \A o \in Observers : look[o].at <= Now
    BY <1>12, LookTimes DEF Timely
  <2> QED
    BY <1>13, <2>1, <2>2 DEF TimesOf
<1>15. SameEngine(e)
  BY <1>8, <1>12, <1>13, <1>14, TimedSays
<1> QED
  BY <1>3, <1>8, <1>11, <1>12, <1>15 DEF Heads

\* What a report leaves to be told.
LEMMA ReportTells ==
  ASSUME IInv, Report, NEW m \in Msgs, Heads(m)
  PROVE  /\ \A t, s, f : Tells(look, Tail(inputs), t, s, f) => Tells(look, inputs, t, s, f)
         /\ \A i, t : Concludes(look, Tail(inputs), commit.pc, i, t) =>
                          Concludes(look, inputs, commit.pc, i, t)
         /\ m.kind \in News => Tells(look, inputs, m.at, m.saw, inputs[1].found)
         /\ m.kind \in {"seen", "failed"} => inputs[1].found # "none"
         /\ m.kind \in {"ok", "failed"} => Concludes(look, inputs, commit.pc, m.kind, m.at)
         /\ Outcomes' = {} => Outcomes = {} \/ m.kind \in {"ok", "failed"}
         /\ m.kind \in {"ok", "failed"} => commit.pc = "none" /\ Outcomes' = {} /\ 1 \in Outcomes
         /\ m.kind \in {"ok", "failed"} \/ (commit.pc = "none" /\ Outcomes = {}) =>
                \A i, t : ~Concludes(look, Tail(inputs), commit.pc, i, t)
         /\ UNCHANGED <<disk, commit, scan>> /\ Hosts' = Hosts /\ Last' = Last
<1> USE DEF IInv
<1>1. inputs \in Seq(Msgs) /\ inputs # <<>> /\ Typed'
  BY StepTyped DEF Typed, Report, Next
<1>2. inputs[1] \in Msgs /\ 1 \in DOMAIN inputs /\ 1 \in 1..Len(inputs) /\ Len(inputs) \in Nat
  BY <1>1
<1>3. \A t, s, f : Tells(look, Tail(inputs), t, s, f) => Tells(look, inputs, t, s, f)
  BY <1>1, TailTells
<1>4. \A i, t : Concludes(look, Tail(inputs), commit.pc, i, t) =>
                  Concludes(look, inputs, commit.pc, i, t)
  BY <1>1, TailTells
<1>5. m.kind \in News => Tells(look, inputs, m.at, m.saw, inputs[1].found)
  BY <1>2 DEF Heads, Tells
<1>6. m.kind \in {"seen", "failed"} => inputs[1].found # "none"
  BY <1>2 DEF Heads, LooksTrue, MsgTrue, Found
<1>7. m.kind \in {"ok", "failed"} => Concludes(look, inputs, commit.pc, m.kind, m.at)
  BY <1>2 DEF Heads, Concludes
<1>8. m.kind \in {"ok", "failed"} => commit.pc = "none" /\ 1 \in Outcomes /\ Outcomes = {1}
  BY <1>2 DEF Heads, Outcomes, OneFlight
<1>9. \A i \in Outcomes' : i + 1 \in Outcomes /\ i \in Nat \ {0}
  <2>1. DOMAIN inputs' = 1..Len(inputs')
    BY <1>1 DEF Typed
  <2>2. Outcomes' \subseteq Nat \ {0}
    BY <2>1 DEF Outcomes
  <2>3. Drops
    BY ReportSays
  <2> QED
    BY <1>1, <2>2, <2>3, OutcomesForms
<1>10. m.kind \in {"ok", "failed"} => Outcomes' = {}
  BY <1>8, <1>9
<1>11. \A i \in Outcomes : i = 1 \/ i - 1 \in Outcomes'
  <2> TAKE i \in Outcomes
  <2>1. Drops
    BY ReportSays
  <2>2. /\ i \in DOMAIN inputs /\ (i = 1 \/ i - 1 \in DOMAIN inputs')
        /\ \A j \in DOMAIN inputs' : inputs'[j].kind = inputs[j + 1].kind
    BY <1>1, <2>1, Positions DEF Outcomes
  <2>3. i \in Nat
    BY <1>1, <2>2, Naturals
  <2>4. (i - 1) + 1 = i
    BY <2>3
  <2> QED
    BY <2>2, <2>4 DEF Outcomes
<1>12. Outcomes' = {} => Outcomes = {} \/ m.kind \in {"ok", "failed"}
  BY <1>11 DEF Outcomes, Heads
<1>13. ASSUME m.kind \in {"ok", "failed"} \/ (commit.pc = "none" /\ Outcomes = {}), NEW k, NEW t,
              Concludes(look, Tail(inputs), commit.pc, k, t)
       PROVE  FALSE
  <2>1. commit.pc = "none"
    BY <1>8, <1>13
  <2>2. PICK i \in 1..Len(Tail(inputs)) : Tail(inputs)[i].kind \in {"ok", "failed"}
    BY <1>13, <2>1 DEF Concludes
  <2>3. i + 1 \in 1..Len(inputs) /\ inputs[i + 1].kind \in {"ok", "failed"} /\ i \in Nat \ {0}
    <3>1. Len(Tail(inputs)) = Len(inputs) - 1 /\ Tail(inputs)[i] = inputs[i + 1]
      BY <1>1, <2>2
    <3> QED
      BY <1>2, <2>2, <3>1
  <2>4. i + 1 \in Outcomes
    BY <1>1, <2>3 DEF Outcomes
  <2> QED
    BY <1>8, <1>13, <2>3, <2>4
<1>14. UNCHANGED <<disk, commit, scan>>
  BY ReportSays
<1>15. Hosts' = Hosts /\ Last' = Last
  BY <1>14 DEF Hosts, Last
<1> QED
  BY <1>3, <1>4, <1>5, <1>6, <1>7, <1>8, <1>10, <1>12, <1>13, <1>14, <1>15

LEMMA NoFlight ==
  ASSUME IInv, engine.flight = {}
  PROVE  commit.pc = "none" /\ Outcomes = {} /\ CommitJobs = {}
BY DEF IInv, OneFlight

LEMMA BookOf ==
  ASSUME NEW e, NEW l, NEW r, NEW p, NEW L, NEW S, NEW F,
         Stamped(l, r), Sorted(l, r, L), FromBoth(e, l, r, L, S),
         \A i, t : Concludes(l, r, p, i, t) => t \in Nat /\ e.reported <= t,
         \A t : Concludes(l, r, p, "failed", t) => From(t, l, r, L, F)
  PROVE  Book(e, l, r, p, L, S, F)
BY DEF Book

LEMMA ReportFits ==
  ASSUME OInv, Report, NEW m \in Msgs, NEW e, Heads(m), Moves(e, m), SameEngine(e), Timely(e)
  PROVE  Book(e, look, Tail(inputs), commit.pc, Linked', Fits', Afters')
<1> DEFINE q == Tail(inputs)
<1> USE DEF OInv, IInv
<1>1. /\ \A t, s, f : Tells(look, q, t, s, f) => Tells(look, inputs, t, s, f)
      /\ \A i, t : Concludes(look, q, commit.pc, i, t) => Concludes(look, inputs, commit.pc, i, t)
      /\ m.kind \in News => Tells(look, inputs, m.at, m.saw, inputs[1].found)
      /\ m.kind \in {"ok", "failed"} => Concludes(look, inputs, commit.pc, m.kind, m.at)
      /\ Outcomes' = {} => Outcomes = {} \/ m.kind \in {"ok", "failed"}
      /\ m.kind \in {"ok", "failed"} => commit.pc = "none" /\ Outcomes' = {} /\ 1 \in Outcomes
      /\ m.kind \in {"ok", "failed"} \/ (commit.pc = "none" /\ Outcomes = {}) =>
             \A i, t : ~Concludes(look, q, commit.pc, i, t)
      /\ UNCHANGED <<disk, commit>> /\ Hosts' = Hosts
  BY ReportTells
<1>0. Linked' = Linked
  BY <1>1 DEF Linked
<1> SUFFICES Book(e, look, q, commit.pc, Linked, Fits', Afters')
  BY <1>0
<1> HIDE DEF q
<1>2. /\ engine.reported \in Nat /\ engine.observed \in Nat /\ e.reported \in Nat
      /\ e.observed \in Nat /\ m.at \in Nat /\ m.saw \in Nat /\ engine.seen \in Nat
      /\ engine'.record = e.record /\ engine'.seen = e.seen
  BY EngineTimes DEF Timely, Engines, Msgs, SameEngine, Typed
<1>3. /\ Stamped(look, inputs) /\ Sorted(look, inputs, Linked)
      /\ FromBoth(engine, look, inputs, Linked, Fits)
      /\ \A i, t : Concludes(look, inputs, commit.pc, i, t) => t \in Nat /\ engine.reported <= t
      /\ \A t : Concludes(look, inputs, commit.pc, "failed", t) =>
                    From(t, look, inputs, Linked, Afters)
  BY DEF OnTime, Book
<1>4. Stamped(look, q) /\ Sorted(look, q, Linked)
  BY <1>1, <1>3 DEF Stamped, Sorted
<1>5. Hosts \subseteq Nat
  BY Domains DEF Hosts
<1>6. \A s : After(s)' <=> \A h \in Hosts :
                h <= s /\ (h = s => \/ e.record \in Links \cup {None}
                                    \/ disk[h].holds = e.record)
  BY <1>1, <1>2 DEF After
<1>7. Fits' = {s \in Nat : /\ e.seen <= s \/ e.record = None
                           /\ commit.pc = "none" /\ Outcomes' = {} => After(s)'}
  BY <1>1, <1>2 DEF Fits
<1>8. ASSUME e.record = engine.record, NEW s PROVE After(s)' <=> After(s)
  BY <1>6, <1>8 DEF After
<1>9. CASE Leaves(e, m)
  <2>1. /\ e.record = engine.record /\ e.seen = engine.seen /\ engine.observed <= e.observed
        /\ e.reported = (IF m.kind = "failed" THEN m.at ELSE engine.reported) /\ m.kind # "ok"
    BY <1>9 DEF Leaves
  <2>2. Afters' = Afters
    BY <1>8, <2>1 DEF Afters
  <2>3. \A i, t : Concludes(look, q, commit.pc, i, t) => t \in Nat /\ e.reported <= t
    BY <1>1, <1>3, <2>1
  <2>4. \A t : Concludes(look, q, commit.pc, "failed", t) => From(t, look, q, Linked, Afters')
    BY <1>1, <1>3, <2>2 DEF From
  <2>5. FromBoth(e, look, q, Linked, Fits')
    <3> SUFFICES ASSUME NEW u, NEW s, NEW f, Tells(look, q, u, s, f), Read(f, s, Linked),
                        e.reported <= u, e.observed <= u
                 PROVE  s \in Fits'
      BY DEF FromBoth
    <3>1. Tells(look, inputs, u, s, f) /\ u \in Nat /\ s \in Nat
      BY <1>1, <1>3 DEF Stamped
    <3>2. engine.observed <= u
      BY <1>2, <2>1, <3>1
    <3>3. m.kind = "failed" => engine.reported <= m.at /\ m.at <= u
      BY <1>1, <1>3, <2>1
    <3>4. engine.reported <= u
      BY <1>2, <2>1, <3>1, <3>3
    <3>5. s \in Fits
      BY <1>3, <3>1, <3>2, <3>4 DEF FromBoth
    <3>6. m.kind = "failed" => After(s)
      BY <1>1, <1>3, <3>1, <3>3 DEF From, Afters
    <3> QED
      BY <1>1, <1>7, <1>8, <2>1, <3>1, <3>5, <3>6 DEF Fits
  <2> QED
    BY <1>4, <2>3, <2>4, <2>5, BookOf
\* The states of the files read from m on, and none of it an outcome.
<1> DEFINE Clear(s) ==
             /\ e.seen <= s \/ e.record = None
             /\ \A h \in Hosts : h <= s /\ (h = s => \/ e.record \in Links \cup {None}
                                                     \/ disk[h].holds = e.record)
<1>10. ASSUME m.kind \in {"ok", "failed"} \/ (commit.pc = "none" /\ Outcomes = {}),
              \A u, s, f : Tells(look, inputs, u, s, f) /\ Read(f, s, Linked)
                             /\ e.reported <= u /\ e.observed <= u => Clear(s)
       PROVE  Book(e, look, q, commit.pc, Linked, Fits', Afters')
  <2>1. \A i, t : ~Concludes(look, q, commit.pc, i, t)
    BY <1>1, <1>10
  <2>2. FromBoth(e, look, q, Linked, Fits')
    <3> SUFFICES ASSUME NEW u, NEW s, NEW f, Tells(look, q, u, s, f), Read(f, s, Linked),
                        e.reported <= u, e.observed <= u
                 PROVE  s \in Fits'
      BY DEF FromBoth
    <3>1. Tells(look, inputs, u, s, f) /\ u \in Nat /\ s \in Nat
      BY <1>1, <1>3 DEF Stamped
    <3>2. After(s)' /\ (e.seen <= s \/ e.record = None)
      BY <1>6, <1>10, <3>1
    <3> QED
      BY <1>7, <3>1, <3>2
  <2> QED
    BY <1>4, <2>1, <2>2, BookOf
\* What is learnt of in a state that no host's is after.
<1>11. ASSUME m.kind \in News, e.record = disk[m.saw].holds, e.seen \in {engine.seen, m.saw},
              inputs[1].found # "absent", \A h \in Hosts : h <= m.saw,
              engine.seen <= m.saw,
              NEW u, NEW s, NEW f, Tells(look, inputs, u, s, f), Read(f, s, Linked), m.at <= u
       PROVE  Clear(s)
  <2>1. m.saw <= s /\ s \in Nat
    BY <1>1, <1>3, <1>11 DEF Sorted, Stamped
  <2>2. \A h \in Hosts : h <= s /\ (h = s => h = m.saw)
    <3>1. \A h \in Hosts : h \in Nat /\ h <= m.saw
      BY <1>5, <1>11
    <3> HIDE <1>11
    <3> QED
      BY <1>2, <2>1, <3>1
  <2>3. engine.seen <= s
    BY <1>2, <1>11, <2>1
  <2> QED
    BY <1>11, <2>1, <2>2, <2>3
<1>12. CASE Takes(e, m)
  <2>1. /\ m.kind = "failed" \/ (m.kind = "seen" /\ engine.flight = {} /\ engine.reported <= m.at)
        /\ m.found \in {"absent", "unchanged", "observed"} /\ engine.observed <= m.at
        /\ e.record = disk[m.saw].holds /\ e.seen = Known(engine, e.record, m.saw)
        /\ e.observed = m.at /\ m.found = inputs[1].found
        /\ m.found = "absent" => e.record = None
        /\ m.found = "unchanged" => e.record = engine.record
        /\ e.reported = (IF m.kind = "failed" THEN m.at ELSE engine.reported)
    BY <1>12 DEF Takes, Records, Heads
  <2>2. m.kind = "seen" => commit.pc = "none" /\ Outcomes = {}
    BY <2>1, NoFlight
  <2>3. Tells(look, inputs, m.at, m.saw, m.found) /\ m.kind \in News
    BY <1>1, <2>1 DEF News
  <2>4. e.seen \in {engine.seen, m.saw} /\ (e.record # engine.record => e.seen = m.saw)
    BY <1>2, <2>1, KnownSays
  \* Of every file read from m on, and m's own, the host's are no later.
  <2>5. ASSUME NEW u \in Nat, NEW s, NEW f, Tells(look, inputs, u, s, f), Read(f, s, Linked),
               m.at <= u
        PROVE  After(s) /\ (engine.seen <= s \/ engine.record = None)
    <3>1. engine.reported <= m.at
      BY <1>1, <1>3, <2>1
    <3>2. engine.reported <= u /\ engine.observed <= u
      BY <1>2, <2>1, <2>5, <3>1
    <3>3. s \in Fits
      BY <1>3, <2>5, <3>2 DEF FromBoth
    <3>4. m.kind = "failed" => After(s)
      BY <1>1, <1>3, <2>5 DEF From, Afters
    <3> QED
      BY <2>1, <2>2, <3>3, <3>4 DEF Fits
  <2>6. ASSUME NEW u, NEW s, NEW f, Tells(look, inputs, u, s, f), Read(f, s, Linked),
               e.observed <= u
        PROVE  Clear(s)
    <3>1. u \in Nat /\ s \in Nat /\ m.at <= u
      BY <1>3, <2>1, <2>6 DEF Stamped
    <3>2. After(s) /\ (engine.seen <= s \/ engine.record = None)
      BY <2>5, <2>6, <3>1
    <3>3. m.found # "absent" => m.saw <= s
      BY <1>3, <2>3, <2>6, <3>1 DEF Sorted
    <3>4. e.seen <= s \/ e.record = None
      BY <2>1, <2>4, <3>2, <3>3
    <3>5. CASE e.record \in Links \cup {None} \/ e.record = engine.record
      BY <3>2, <3>4, <3>5 DEF After
    <3>6. CASE ~(e.record \in Links \cup {None} \/ e.record = engine.record)
      <4>1. m.found = "observed" /\ Read(m.found, m.saw, Linked)
        BY <2>1, <3>6 DEF Read, Linked
      <4>2. After(m.saw)
        BY <1>2, <2>3, <2>5, <4>1
      <4>3. \A h \in Hosts : h <= m.saw /\ h \in Nat
        BY <1>5, <4>2 DEF After
      <4>4. \A h \in Hosts : h <= s /\ (h = s => h = m.saw)
        BY <1>2, <3>1, <3>3, <4>1, <4>3
      <4> QED
        BY <2>1, <3>4, <4>4
    <3> QED
      BY <3>5, <3>6
  <2> HIDE DEF Clear
  <2>7. \A u, s, f : Tells(look, inputs, u, s, f) /\ Read(f, s, Linked)
                       /\ e.reported <= u /\ e.observed <= u => Clear(s)
    BY <2>6
  <2> QED
    BY <1>10, <2>1, <2>2, <2>7
<1>13. CASE Settles(e, m)
  <2>1. /\ m.kind \in {"ok", "failed"} /\ e.record = disk[m.saw].holds /\ e.reported = m.at
        /\ e.seen = Known(engine, e.record, m.saw) /\ m.found = inputs[1].found
        /\ m.found = "absent" => e.record = None
        /\ inputs[1].kind = m.kind /\ inputs[1].saw = m.saw /\ m.kind \in News
    BY <1>13 DEF Settles, Records, Heads, News
  <2>2. e.seen \in {engine.seen, m.saw}
    BY <1>2, <2>1, KnownSays
  <2>3. engine.seen <= m.saw /\ \A h \in Hosts : h <= m.saw
    <3>1. CASE m.kind = "ok"
      BY <1>1, <2>1, <3>1 DEF Ahead
    <3>2. CASE m.kind = "failed"
      BY <1>1, <2>1, <3>2 DEF FailedAfter, After
    <3> QED
      BY <2>1, <3>1, <3>2
  <2>4. m.found = "absent" => m.kind = "failed"
    <3>1. m.kind = "ok" => inputs[1].found = "none"
      BY <1>1, <2>1 DEF Ahead
    <3> QED
      BY <2>1, <3>1
  <2>5. ASSUME NEW u, NEW s, NEW f, Tells(look, inputs, u, s, f), Read(f, s, Linked),
               e.reported <= u
        PROVE  Clear(s)
    <3>1. CASE m.found = "absent"
      <4>1. s \in Afters
        BY <1>1, <1>3, <2>1, <2>4, <2>5, <3>1 DEF From
      <4> QED
        BY <2>1, <3>1, <4>1 DEF Afters, After
    <3>2. CASE m.found # "absent"
      <4>1. m.at <= u /\ inputs[1].found # "absent"
        BY <2>1, <2>5, <3>2
      <4> HIDE DEF Clear
      <4> QED
        BY <1>11, <2>1, <2>2, <2>3, <2>5, <4>1
    <3> QED
      BY <3>1, <3>2
  <2> HIDE DEF Clear
  <2>6. \A u, s, f : Tells(look, inputs, u, s, f) /\ Read(f, s, Linked)
                       /\ e.reported <= u /\ e.observed <= u => Clear(s)
    BY <2>5
  <2> QED
    BY <1>10, <2>1, <2>6
<1>14. CASE Misses(e, m)
  <2>1. /\ m.kind = "finished" /\ engine.flight = {} /\ e.record = None
        /\ e.observed = engine.observed /\ e.reported = engine.reported
    BY <1>14 DEF Misses
  <2>2. commit.pc = "none" /\ Outcomes = {}
    BY <2>1, NoFlight
  <2>3. ASSUME NEW u, NEW s, NEW f, Tells(look, inputs, u, s, f), Read(f, s, Linked),
               e.reported <= u, e.observed <= u
        PROVE  Clear(s)
    <3>1. s \in Fits
      BY <1>3, <2>1, <2>3 DEF FromBoth
    <3> QED
      BY <2>1, <2>2, <3>1 DEF Fits, After
  <2> HIDE DEF Clear
  <2>4. \A u, s, f : Tells(look, inputs, u, s, f) /\ Read(f, s, Linked)
                       /\ e.reported <= u /\ e.observed <= u => Clear(s)
    BY <2>3
  <2> QED
    BY <1>10, <2>2, <2>4
<1> QED
  BY <1>9, <1>12, <1>13, <1>14 DEF Moves

LEMMA StepOnTime ==
  ASSUME OInv, [Next]_vars
  PROVE  OnTime'
<1> USE DEF OInv, IInv
<1>1. CASE Report
  <2>1. PICK m \in Msgs, e \in Engines :
               /\ Heads(m) /\ Moves(e, m)
               /\ Timely(e) /\ SameEngine(e) /\ Timed(e, look, Tail(inputs))
    BY <1>1, ReportMoves
  <2>2. Book(e, look, Tail(inputs), commit.pc, Linked', Fits', Afters') /\ commit' = commit
    BY <1>1, <2>1, ReportFits, ReportSays
  <2>3. /\ look \in [Observers -> Looks] /\ \A o \in Observers : look[o].at <= Now
        /\ Tail(inputs) \in Seq(Msgs) /\ \A i \in 1..Len(Tail(inputs)) : Tail(inputs)[i].at <= Now
    <3>1. inputs \in Seq(Msgs) /\ inputs # <<>> /\ look \in [Observers -> Looks]
      BY <1>1 DEF Typed, Report
    <3>2. /\ Tail(inputs) \in Seq(Msgs) /\ Len(inputs) \in Nat
          /\ \A i \in 1..Len(Tail(inputs)) :
                 Tail(inputs)[i] = inputs[i + 1] /\ i + 1 \in 1..Len(inputs)
      BY <3>1
    <3> QED
      BY <3>1, <3>2, LookTimes
  <2>4. Book(engine', look', inputs', commit.pc, Linked', Fits', Afters')
    BY <2>1, <2>2, <2>3, TimedBook
  <2> QED
    BY <2>2, <2>4 DEF OnTime
<1> QED
  BY <1>1, QuietOnTime

\* What is taken of a look that was dated in time is after what was known, and
\* after the host.
LEMMA TakesFits ==
  ASSUME OInv, Report, NEW m \in Msgs, NEW e, Heads(m), Takes(e, m)
  PROVE  \/ e.record = engine.record
         \/ m.kind = "seen" /\ e.record \in Links \cup {None}
         \/ After(m.saw) /\ (engine.seen <= m.saw \/ engine.record = None)
<1> USE DEF OInv, IInv
<1>1. /\ m.kind = "failed" \/ (m.kind = "seen" /\ engine.flight = {} /\ engine.reported <= m.at)
      /\ engine.observed <= m.at /\ m.found \in {"absent", "unchanged", "observed"}
      /\ m.found = inputs[1].found /\ m.saw \in DOMAIN disk /\ e.record = disk[m.saw].holds
      /\ m.found = "absent" => e.record = None
      /\ m.found = "unchanged" => e.record = engine.record
  BY DEF Takes, Records, Heads
<1>2. m.kind = "seen" => commit.pc = "none" /\ Outcomes = {}
  BY <1>1, NoFlight
<1>3. CASE m.kind = "failed"
  <2>1. 1 \in Outcomes /\ inputs[1].kind = "failed" /\ inputs[1].saw = m.saw
    BY <1>3, ReportTells DEF Heads
  <2> QED
    BY <2>1 DEF FailedAfter
<1>4. CASE m.kind = "seen" /\ e.record # engine.record /\ e.record \notin Links \cup {None}
  <2>1. Read(m.found, m.saw, Linked)
    BY <1>1, <1>4 DEF Read, Linked
  <2>2. Tells(look, inputs, m.at, m.saw, m.found)
    BY <1>1, <1>4, ReportTells DEF News
  <2>3. FromBoth(engine, look, inputs, Linked, Fits)
    BY DEF OnTime, Book
  <2>4. m.saw \in Fits
    BY <1>1, <1>4, <2>1, <2>2, <2>3 DEF FromBoth
  <2> QED
    BY <1>2, <1>4, <2>4 DEF Fits
<1> QED
  BY <1>1, <1>3, <1>4

\* While a commit is on its way, the engine's path stays as it is.
LEMMA ReportLeaves ==
  ASSUME OInv, Report, NEW m \in Msgs, NEW e, Heads(m), Moves(e, m),
         commit.pc # "none" \/ CommitJobs # {} \/ Outcomes' # {}
  PROVE  Leaves(e, m) /\ m.kind \notin {"ok", "failed"}
<1> USE DEF OInv, IInv
<1>1. /\ m.kind \in {"ok", "failed"} => commit.pc = "none" /\ Outcomes' = {} /\ 1 \in Outcomes
      /\ Outcomes' = {} \/ Outcomes # {}
  <2>1. m.kind \in {"ok", "failed"} => commit.pc = "none" /\ Outcomes' = {} /\ 1 \in Outcomes
    BY ReportTells
  <2>2. \A i \in Outcomes' : i + 1 \in Outcomes
    BY ReportSays, StepTyped, OutcomesForms DEF Next
  <2> QED
    BY <2>1, <2>2
<1>2. m.kind \notin {"ok", "failed"}
  BY <1>1 DEF OneFlight
<1>3. engine.flight # {}
  BY <1>1, NoFlight
<1> QED
  BY <1>2, <1>3 DEF Moves, Takes, Settles, Misses

\* What is taken or lands was no later known, and is after the host, but for
\* what was dated late.
LEMMA ReportHosts ==
  ASSUME OInv, Report, NEW m \in Msgs, NEW e, Heads(m), Takes(e, m) \/ Settles(e, m)
  PROVE  /\ m.saw \in Nat /\ m.saw <= Last /\ \A h \in Hosts : h \in Nat /\ h <= Last
         /\ e.record = disk[m.saw].holds /\ e.seen \in {engine.seen, m.saw}
         /\ e.record # engine.record => e.seen = m.saw
         /\ e.record = engine.record => engine.seen <= e.seen
         /\ m.saw <= e.seen
         /\ \/ Takes(e, m) /\ e.record = engine.record
            \/ Takes(e, m) /\ m.kind = "seen" /\ e.record \in Links \cup {None}
            \/ /\ \A h \in Hosts : h <= m.saw
               /\ Takes(e, m) => After(m.saw)
               /\ engine.seen <= m.saw \/ engine.record = None
         /\ m.kind \in News
<1> USE DEF OInv, IInv
<1>0. /\ \A h \in Hosts : h \in Nat /\ h <= Last
      /\ engine.seen \in Nat
  BY Domains DEF Hosts, Typed
<1>1. m.saw \in DOMAIN disk /\ Records(e, m) /\ m.kind \in News
  BY DEF Takes, Settles, Records, News
<1>2. m.saw \in Nat /\ m.saw <= Last
  BY <1>1, Domains
<1>3. /\ e.record = disk[m.saw].holds /\ e.seen \in {engine.seen, m.saw} /\ m.saw <= e.seen
      /\ e.record # engine.record => e.seen = m.saw
      /\ e.record = engine.record => engine.seen <= e.seen
  BY <1>0, <1>1, <1>2, KnownSays DEF Records
<1>4. CASE Takes(e, m)
  BY <1>0, <1>1, <1>2, <1>3, <1>4, TakesFits DEF After
<1>5. CASE Settles(e, m)
  <2>1. m.kind \in {"ok", "failed"} /\ inputs[1].kind = m.kind /\ inputs[1].saw = m.saw
    BY <1>5 DEF Settles, Heads
  <2>2. 1 \in Outcomes
    BY <2>1, ReportTells
  <2>3. engine.seen <= m.saw /\ \A h \in Hosts : h <= m.saw
    <3>1. CASE m.kind = "ok"
      BY <2>1, <2>2, <3>1 DEF Ahead
    <3>2. CASE m.kind = "failed"
      BY <2>1, <2>2, <3>2 DEF FailedAfter, After
    <3> QED
      BY <2>1, <3>1, <3>2
  <2>4. ~Takes(e, m) \/ After(m.saw)
    <3>1. CASE m.kind = "failed"
      BY <2>1, <2>2, <3>1 DEF FailedAfter
    <3>2. CASE m.kind = "ok"
      BY <3>2 DEF Takes
    <3> QED
      BY <2>1, <3>1, <3>2
  <2> QED
    BY <1>0, <1>1, <1>2, <1>3, <2>3, <2>4
<1> QED
  BY <1>4, <1>5

\* The outcomes that wait, as a report is sent.
LEMMA OutcomesGrow ==
  ASSUME IInv, [Next]_vars, ~Report
  PROVE  /\ \A i \in Outcomes : i \in Outcomes' /\ SameMsg(inputs'[i], inputs[i])
         /\ \A i \in Outcomes' \ Outcomes :
                /\ i = Len(inputs) + 1 /\ Len(inputs') = Len(inputs) + 1
                /\ Looked /\ commit.pc \in {"failed", "landed"} /\ Outcomes = {}
                /\ inputs'[i].kind = (IF commit.pc = "failed" THEN "failed" ELSE "ok")
                /\ SameBut(inputs'[i], look["executor"])
         /\ Looked /\ commit.pc \in {"failed", "landed"} => Outcomes' \ Outcomes # {}
<1> USE DEF IInv
<1>0. Typed /\ Typed' /\ Len(inputs) \in Nat
  BY StepTyped, Domains
<1>4. CASE Looked /\ commit.pc \in {"failed", "landed"}
  <2>1. PICK m \in Msgs : Adds(m) /\ m.kind = Kind /\ SameBut(m, look["executor"])
    BY <1>4, LookedSays
  <2>2. Outcomes = {}
    BY <1>4 DEF OneFlight
  <2>3. m.kind = (IF commit.pc = "failed" THEN "failed" ELSE "ok")
    BY <1>4, <2>1 DEF Kind
  <2>4. Outcomes' = {Len(inputs) + 1} /\ SameMsg(inputs'[Len(inputs) + 1], m)
    BY <1>0, <2>1, <2>2, <2>3, OutcomesForms
  <2>5. Len(inputs') = Len(inputs) + 1
    BY <2>1 DEF Adds
  <2> QED
    BY <1>4, <2>1, <2>2, <2>3, <2>4, <2>5 DEF SameMsg, SameBut
<1>5. CASE ~(Looked /\ commit.pc \in {"failed", "landed"})
  <2>1. Looked => Kind = "seen"
    BY <1>5 DEF Kind
  <2>2. SameQueue(inputs) \/ \E m \in Msgs : Adds(m) /\ m.kind \notin {"ok", "failed"}
    BY <1>5, <2>1, QueueForms
  <2>3. Outcomes' = Outcomes /\ OutcomesKept
    BY <1>0, <2>2, OutcomesForms
  <2> QED
    BY <1>5, <2>3 DEF OutcomesKept
<1> QED
  BY <1>4, <1>5

\* The guard, and the first rename.
LEMMA TakeCommitSays ==
  ASSUME OInv, TakeCommit
  PROVE  /\ commit.pc = "none" /\ commit'.pc \in {"failed", "landed", "placing"}
         /\ commit'.expected = engine.record
         /\ commit'.pc = "failed" => disk' = disk
         /\ commit'.pc # "failed" =>
                \/ Holds = None /\ commit'.expected = None /\ disk' = disk /\ commit'.pc = "placing"
                \/ Becomes(None, "host")
<1> USE DEF OInv, IInv
<1> DEFINE c == Head(released)
<1>1. NextJob /\ c.job = "commit" /\ commit.pc = "none"
  BY DEF TakeCommit, NextJob, Idle
<1>2. 1 \in CommitJobs /\ c = released[1]
  BY <1>1, NextJobSays DEF CommitJobs
<1>3. c.expected = engine.record /\ c.expected # c.leaves
  BY <1>2 DEF Expects, OneFlight
<1>4. /\ commit'.pc = IF ~(Holds = c.expected) THEN "failed"
                      ELSE IF c.leaves = None THEN "landed" ELSE "placing"
      /\ commit'.expected = c.expected
      /\ IF Holds = c.expected /\ Holds # None THEN Becomes(None, "host") ELSE UNCHANGED disk
  BY DEF TakeCommit
<1> HIDE DEF c
<1> QED
  BY <1>1, <1>3, <1>4

\* The rename in, and what goes back if it fails.
LEMMA PlaceFailsSays ==
  ASSUME OInv, PlaceFails
  PROVE  /\ commit.pc = "placing" /\ commit'.pc = "failed" /\ commit'.expected = commit.expected
         /\ commit.expected = engine.record
         /\ \/ Becomes(commit.expected, "host") /\ commit.expected \in Maybe
            \/ disk' = disk /\ (Holds # None \/ commit.expected = None)
<1> USE DEF OInv, IInv
<1>1. /\ commit.pc = "placing" /\ commit'.pc = "failed" /\ commit'.expected = commit.expected
      /\ commit.expected \in Maybe
  BY DEF PlaceFails, Typed
<1>2. commit.expected = engine.record
  BY <1>1 DEF Expects
<1>3. \/ Becomes(commit.expected, "host")
      \/ disk' = disk /\ (Holds # None \/ commit.expected = None)
  BY DEF PlaceFails
<1> QED
  BY <1>1, <1>2, <1>3

LEMMA PlaceSays ==
  ASSUME OInv, Place
  PROVE  /\ commit.pc = "placing" /\ commit'.pc = "landed" /\ commit'.expected = commit.expected
         /\ Becomes(commit.leaves, "host") /\ commit.leaves \in Maybe
BY DEF OInv, IInv, Place, Typed

LEMMA StepSettled ==
  ASSUME OInv, [Next]_vars
  PROVE  Settled'
<1> USE DEF OInv, IInv
<1>0. Last \in Nat \ {0} /\ DOMAIN disk = 1..Last /\ \A h \in Hosts : h \in Nat /\ h <= Last
  BY Domains DEF Hosts
<1> SUFFICES ASSUME commit'.pc \in {"none", "failed"}, \A i \in Outcomes' : inputs'[i].kind # "ok"
             PROVE  After(Last)'
  BY DEF Settled
<1>1. CASE Report
  <2>1. PICK m \in Msgs, e \in Engines : Heads(m) /\ Moves(e, m) /\ SameEngine(e)
    BY <1>1, ReportMoves
  <2>2. /\ Hosts' = Hosts /\ Last' = Last /\ UNCHANGED <<disk, commit>>
        /\ engine'.record = e.record
    BY <1>1, <2>1, ReportTells DEF SameEngine
  <2>3. CASE Leaves(e, m)
    <3>1. e.record = engine.record /\ m.kind # "ok"
      BY <2>3 DEF Leaves
    <3>2. \A i \in Outcomes : inputs[i].kind # "ok"
      <4> TAKE i \in Outcomes
      <4>1. Drops /\ Typed'
        BY <1>1, ReportSays, StepTyped
      <4>2. /\ i \in DOMAIN inputs /\ (i = 1 \/ i - 1 \in DOMAIN inputs')
            /\ \A j \in DOMAIN inputs' : inputs'[j].kind = inputs[j + 1].kind
        BY <4>1, Positions DEF Outcomes
      <4>3. i \in Nat /\ (i - 1) + 1 = i
        <5>1. i \in Nat
          BY <4>1, <4>2, Naturals
        <5> QED
          BY <5>1
      <4>4. CASE i = 1
        BY <2>1, <3>1, <4>4 DEF Heads
      <4>5. CASE i - 1 \in DOMAIN inputs'
        BY <4>2, <4>3, <4>5 DEF Outcomes
      <4> QED
        BY <4>2, <4>4, <4>5
    <3>3. After(Last)
      BY <2>2, <3>2 DEF Settled
    <3> QED
      BY <2>2, <3>1, <3>3 DEF After
  <2>4. CASE Takes(e, m) \/ Settles(e, m)
    <3>1. /\ m.saw \in Nat /\ m.saw <= Last /\ e.record = disk[m.saw].holds
          /\ \/ Takes(e, m) /\ e.record = engine.record
             \/ e.record \in Links \cup {None}
             \/ \A h \in Hosts : h <= m.saw
      BY <1>1, <2>1, <2>4, ReportHosts
    <3>2. CASE Takes(e, m) /\ e.record = engine.record
      <4>1. commit.pc = "none" /\ \A i \in Outcomes : inputs[i].kind # "ok"
        <5>1. CASE m.kind = "failed"
          <6>1. commit.pc = "none" /\ 1 \in Outcomes /\ inputs[1].kind = "failed"
            BY <1>1, <2>1, <5>1, ReportTells DEF Heads
          <6> QED
            BY <6>1 DEF OneFlight
        <5>2. CASE engine.flight = {}
          BY <5>2, NoFlight
        <5> QED
          BY <3>2, <5>1, <5>2 DEF Takes
      <4>2. After(Last)
        BY <4>1 DEF Settled
      <4> QED
        BY <2>2, <3>2, <4>2 DEF After
    <3>3. CASE e.record \in Links \cup {None}
      BY <1>0, <2>2, <3>3 DEF After
    <3>4. CASE \A h \in Hosts : h <= m.saw
      <4>1. \A h \in Hosts : h = Last => h = m.saw
        BY <1>0, <3>1, <3>4
      <4> QED
        BY <1>0, <2>2, <3>1, <4>1 DEF After
    <3> QED
      BY <3>1, <3>2, <3>3, <3>4
  <2>5. CASE Misses(e, m)
    BY <1>0, <2>2, <2>5 DEF After, Misses
  <2> QED
    BY <2>1, <2>3, <2>4, <2>5 DEF Moves
<1>2. CASE TakeCommit
  <2>1. commit.pc = "none" /\ disk' = disk /\ Outcomes = {} /\ engine' = engine
    BY <1>2, TakeCommitSays, HostSilent
  <2>2. After(Last)
    BY <2>1 DEF Settled
  <2> QED
    BY <2>1, <2>2 DEF After, Hosts, Last
<1>3. CASE Place
  BY <1>3, PlaceSays
<1>4. CASE PlaceFails
  <2>1. /\ commit.pc = "placing" /\ engine' = engine /\ commit.expected = engine.record
        /\ \/ Becomes(commit.expected, "host") /\ commit.expected \in Maybe
           \/ disk' = disk /\ (Holds # None \/ commit.expected = None)
    BY <1>4, PlaceFailsSays, HostSilent
  <2>2. CASE Becomes(commit.expected, "host") /\ commit.expected \in Maybe
    <3>1. /\ DOMAIN disk' = 1..Last + 1 /\ Last' = Last + 1
          /\ disk'[Last + 1] = State(commit.expected, "host")
      BY <2>2, BecomesSays
    <3>2. \A h \in Hosts' : h \in 1..Last + 1
      BY <3>1 DEF Hosts
    <3>3. \A h \in Hosts' : h <= Last'
      BY <1>0, <3>1, <3>2
    <3>4. disk'[Last'].holds = engine'.record
      BY <2>1, <3>1 DEF State
    <3> QED
      BY <3>3, <3>4 DEF After
  <2>3. CASE disk' = disk /\ (Holds # None \/ commit.expected = None)
    <3>1. Last \in Hosts => commit.expected = None
      BY <2>1, <2>3 DEF Expects
    <3> QED
      BY <1>0, <2>1, <2>3, <3>1 DEF After, Hosts, Last
  <2> QED
    BY <2>1, <2>2, <2>3
<1>5. CASE ~Report /\ ~TakeCommit /\ ~Place /\ ~PlaceFails
  <2>1. engine'.record = engine.record /\ HostsKept
    BY <1>5, Knows, HostForms
  <2>2. \A i \in Outcomes : inputs[i].kind # "ok"
    BY <1>5, OutcomesGrow DEF SameMsg
  <2>3. commit.pc \in {"none", "failed"}
    <3>1. CASE Looked
      <4>1. commit.pc # "landed"
        <5>1. ASSUME commit.pc = "landed" PROVE FALSE
          <6>1. PICK i \in Outcomes' \ Outcomes : TRUE
            BY <1>5, <3>1, <5>1, OutcomesGrow
          <6>2. inputs'[i].kind = "ok"
            BY <1>5, <5>1, <6>1, OutcomesGrow
          <6> QED
            BY <6>1, <6>2
        <5> QED
          BY <5>1
      <4>2. commit.pc \in {"none", "failed", "landed"}
        BY <3>1, LookedSays DEF Busy
      <4> QED
        BY <4>1, <4>2
    <3> QED
      BY <1>5, <3>1, Frames
  <2>4. After(Last)
    BY <2>2, <2>3 DEF Settled
  <2>6. CASE Last' = Last
    BY <2>1, <2>4, <2>6 DEF HostsKept, After
  <2>7. CASE Last' = Last + 1 /\ Last' \notin Hosts'
    <3>1. \A h \in Hosts : h <= Last + 1
      BY <1>0
    <3> QED
      BY <2>1, <2>7, <3>1 DEF HostsKept, After
  <2> QED
    BY <2>1, <2>6, <2>7 DEF HostsKept
<1> QED
  BY <1>1, <1>2, <1>3, <1>4, <1>5

\* A commit that landed is told of as the last that the host did.
LEMMA LandedMost ==
  ASSUME OInv, Looked, commit.pc = "landed"
  PROVE  /\ look["executor"].found = "none" /\ engine.seen <= look["executor"].saw
         /\ \A h \in Hosts : h <= look["executor"].saw
<1> USE DEF OInv, IInv
<1>1. look["executor"].pc = "ready" /\ look["executor"].found = "none"
  BY LookedSays DEF Busy
<1>2. LastDone(look["executor"].saw, commit.leaves)
  BY <1>1 DEF Left
<1>3. \A h \in Hosts : h \in Nat /\ h <= look["executor"].saw
  BY <1>2, Domains DEF LastDone, Hosts
<1>4. PICK h \in Hosts : engine.seen <= h
  BY DEF Ahead
<1>5. engine.seen \in Nat /\ look["executor"].saw \in Nat
  BY <1>2, Domains DEF LastDone, Typed, Engines
<1> QED
  BY <1>1, <1>3, <1>4, <1>5

LEMMA StepAhead ==
  ASSUME OInv, [Next]_vars
  PROVE  Ahead'
<1> USE DEF OInv, IInv
<1>0. /\ Last \in Nat \ {0} /\ DOMAIN disk = 1..Last
      /\ engine.seen \in Nat /\ engine.seen <= Last
  BY Domains DEF Typed
<1>1. CASE Report
  <2>1. PICK m \in Msgs, e \in Engines : Heads(m) /\ Moves(e, m) /\ SameEngine(e)
    BY <1>1, ReportMoves
  <2>2. /\ Hosts' = Hosts /\ commit' = commit /\ engine'.seen = e.seen
    BY <1>1, <2>1, ReportTells DEF SameEngine
  <2>3. CASE commit.pc # "none" \/ Outcomes' # {}
    <3>1. engine'.seen = engine.seen
      BY <1>1, <2>1, <2>2, <2>3, ReportLeaves DEF Leaves
    <3>2. \A i \in Outcomes' : i + 1 \in Outcomes /\ SameMsg(inputs'[i], inputs[i + 1])
      BY <1>1, ReportSays, StepTyped, OutcomesForms
    <3> QED
      BY <2>2, <3>1, <3>2 DEF Ahead, SameMsg, SameBut
  <2>4. CASE commit.pc = "none" /\ Outcomes' = {}
    BY <2>2, <2>4 DEF Ahead
  <2> QED
    BY <2>3, <2>4
<1>3. CASE TakeCommit \/ Place \/ PlaceFails
  <2>1. Outcomes' = {} /\ engine' = engine
    BY <1>3, HostSilent
  <2>2. ASSUME NEW c \in Maybe, Becomes(c, "host") PROVE \E h \in Hosts' : engine'.seen <= h
    <3>1. DOMAIN disk' = 1..Last + 1 /\ disk'[Last + 1] = State(c, "host")
      BY <2>2, BecomesSays
    <3>2. Last + 1 \in Hosts' /\ engine'.seen <= Last + 1
      BY <1>0, <2>1, <3>1 DEF Hosts, State
    <3> QED
      BY <3>2
  <2>3. commit'.pc = "landed" => \E c \in Maybe : Becomes(c, "host")
    BY <1>3, TakeCommitSays, PlaceSays, PlaceFailsSays, NoneTyped
  <2> QED
    BY <2>1, <2>2, <2>3 DEF Ahead
<1>4. CASE ~Report /\ ~TakeCommit /\ ~Place /\ ~PlaceFails
  <2>1. engine'.seen = engine.seen /\ HostsKept
    BY <1>4, Knows, HostForms
  <2>2. commit'.pc = "landed" => commit.pc = "landed"
    BY <1>4, LookedSays, Frames DEF NoCommit
  <2>3. ASSUME NEW i \in Outcomes', inputs'[i].kind = "ok"
        PROVE  /\ inputs'[i].found = "none" /\ engine'.seen <= inputs'[i].saw
               /\ \A h \in Hosts' : h <= inputs'[i].saw
    <3>1. CASE i \in Outcomes
      <4>1. SameMsg(inputs'[i], inputs[i])
        BY <1>4, <3>1, OutcomesGrow
      <4> QED
        BY <2>1, <2>3, <3>1, <4>1 DEF Ahead, HostsKept, SameMsg, SameBut
    <3>2. CASE i \notin Outcomes
      <4>1. Looked /\ commit.pc = "landed" /\ SameBut(inputs'[i], look["executor"])
        BY <1>4, <2>3, <3>2, OutcomesGrow
      <4> QED
        BY <2>1, <4>1, LandedMost DEF HostsKept, SameBut
    <3> QED
      BY <3>1, <3>2
  <2> QED
    BY <2>1, <2>2, <2>3 DEF Ahead, HostsKept
<1> QED
  BY <1>1, <1>3, <1>4

LEMMA StepExpects ==
  ASSUME OInv, [Next]_vars
  PROVE  Expects'
<1> USE DEF OInv, IInv
<1>1. CASE Report
  <2>1. PICK m \in Msgs, e \in Engines : Heads(m) /\ Moves(e, m) /\ SameEngine(e)
    BY <1>1, ReportMoves
  <2>2. /\ UNCHANGED <<disk, commit>> /\ engine'.record = e.record
    BY <1>1, <2>1, ReportTells DEF SameEngine
  <2>3. /\ CommitJobs' = CommitJobs /\ \A i \in CommitJobs : released'[i] = released[i]
    <3>1. released' = released \/ \E c \in Maybe : released' = Append(released, Job("record", None, c))
      BY <1>1, ReportSays
    <3> QED
      BY <3>1, JobsForms
  <2>4. commit.pc # "none" \/ CommitJobs # {} => engine'.record = engine.record
    BY <1>1, <2>1, <2>2, ReportLeaves DEF Leaves
  <2> QED
    BY <2>2, <2>3, <2>4 DEF Expects, Hosts, Last, Holds
<1>2. ASSUME NEW c \in Maybe, Dispatch(c) PROVE Expects'
  <2>1. /\ engine'.record = engine.record /\ UNCHANGED <<disk, commit>> /\ engine.flight = {}
        /\ released' = Append(released, Job("commit", engine.record, c))
    BY <1>2, DispatchSays
  <2>2. engine.record \in Maybe /\ CommitJobs = {} /\ commit.pc = "none"
    BY <2>1, NoFlight DEF Typed, Engines
  <2>3. /\ CommitJobs' = {Len(released) + 1}
        /\ released'[Len(released) + 1].expected = engine.record
    BY <2>1, <2>2, JobsForms DEF Job
  <2> QED
    BY <2>1, <2>2, <2>3 DEF Expects
<1>3. ASSUME ~Report, ~\E c \in Maybe : Dispatch(c)
      PROVE  \A i \in CommitJobs' : released'[i].expected = engine'.record
  <2>1. engine'.record = engine.record
    BY <1>3, Knows
  <2>2. released' = released \/ NextJob
    BY <1>3, Frames DEF TakeRecord, TakeCommit
  <2>3. \A i \in CommitJobs' : \E j \in CommitJobs : released'[i] = released[j]
    BY <2>2, JobsForms
  <2> QED
    BY <2>1, <2>3 DEF Expects
<1>4. CASE TakeCommit \/ Place \/ PlaceFails
  <2>1. engine' = engine
    BY <1>4, HostSilent
  <2>2. ~Report /\ ~\E c \in Maybe : Dispatch(c)
    <3>1. Report => commit' = commit
      BY ReportSays
    <3>2. \A c \in Maybe : Dispatch(c) => commit' = commit
      BY DispatchSays
    <3>3. commit'.pc # commit.pc
      <4>1. TakeCommit => commit.pc = "none" /\ commit'.pc # "none"
        BY TakeCommitSays
      <4>2. Place \/ PlaceFails => commit.pc = "placing" /\ commit'.pc # "placing"
        BY PlaceSays, PlaceFailsSays
      <4> QED
        BY <1>4, <4>1, <4>2
    <3> QED
      BY <3>1, <3>2, <3>3
  <2>3. commit'.expected = engine'.record
    BY <1>4, <2>1, TakeCommitSays, PlaceSays, PlaceFailsSays DEF Expects
  <2>4. commit'.pc = "placing" => commit'.expected = None \/ Holds' = None
    <3>1. ASSUME Becomes(None, "host") PROVE Holds' = None
      <4>1. None \in Maybe
        BY NoneTyped
      <4>2. Last' = Last + 1 /\ disk'[Last + 1] = State(None, "host")
        BY <3>1, <4>1, BecomesSays
      <4> QED
        BY <4>2 DEF Holds, State
    <3>2. commit'.pc = "placing" => TakeCommit
      BY <1>4, PlaceSays, PlaceFailsSays
    <3> QED
      BY <3>1, <3>2, TakeCommitSays
  <2> QED
    BY <1>3, <2>2, <2>3, <2>4 DEF Expects
<1>5. CASE ~Report /\ ~TakeCommit /\ ~Place /\ ~PlaceFails /\ ~\E c \in Maybe : Dispatch(c)
  <2>1. engine'.record = engine.record /\ HostsKept
    BY <1>5, Knows, HostForms
  <2>2. commit' = commit \/ commit'.pc = "none"
    BY <1>5, LookedSays, Frames DEF NoCommit
  <2>3. Last' \in Hosts' => Last' = Last /\ Holds' = Holds /\ Last \in Hosts
    BY <2>1 DEF HostsKept
  <2> QED
    BY <1>3, <1>5, <2>1, <2>2, <2>3 DEF Expects
<1> QED
  BY <1>1, <1>2, <1>4, <1>5

\* What an observer is at is what it was at, what it states now, or of the
\* last state, or it tells of a commit that landed.
LEMMA LookSaw ==
  ASSUME IInv, [Next]_vars, NEW o \in Observers, look'[o].pc # "none"
  PROVE  \/ look[o].pc # "none" /\ look'[o].saw = look[o].saw
         \/ look'[o].saw = Last
         \/ Landed /\ o = "executor"
<1> USE DEF IInv
<1>0. Observers = {"scan", "executor"}
  BY DEF Observers
<1>1. ASSUME NEW p \in Observers, Stat(p)
      PROVE  look'[o] = look[o] \/ look'[o].saw = Last
  BY <1>1, StatSays
<1>2. ASSUME NEW p \in Observers, Dated(p)
      PROVE  look'[o].saw = look[o].saw /\ (look'[o].pc = look[o].pc \/ look[o].pc = "stated")
  BY <1>2, DatedSays DEF SameBut
<1>3. ASSUME NEW p \in Observers, Hash(p)
      PROVE  look'[o] = look[o] \/ (look[o].pc # "none" /\ look'[o].saw \in {look[o].saw, Last})
  <2>1. CASE p = o
    <3>1. look'[o] = [Hashed(look[o]) EXCEPT !.pc = "ready"] /\ look[o].pc = "hashing"
          /\ look[o] \in Looks
      BY <1>3, <2>1 DEF Hash, Typed
    <3> QED
      BY <3>1 DEF Hashed, Looks
  <2>2. CASE p # o
    BY <1>3, <2>2, HashSays
  <2> QED
    BY <2>1, <2>2
<1>4. CASE SameLooks(look)
  BY <1>4 DEF SameLooks, SameBut
<1>5. CASE Walked
  BY <1>0, <1>5, WalkedSays DEF LookOver, SameBut
<1>6. CASE Looked
  BY <1>0, <1>6, LookedSays DEF LookOver, SameBut
<1>7. CASE Landed
  BY <1>0, <1>7, LandedSays DEF SameBut
<1> QED
  BY <1>1, <1>2, <1>3, <1>4, <1>5, <1>6, <1>7, Steps, QuietLooks DEF NotesOf, Jobbing

\* A look that is stated is so from its stat on.
LEMMA OneSaw ==
  ASSUME IInv, [Next]_vars, NEW o \in Observers, look'[o].pc = "stated"
  PROVE  (look[o].pc = "stated" /\ SameBut(look'[o], look[o])) \/ Stat(o)
<1> USE DEF IInv
<1>0. Observers = {"scan", "executor"}
  BY DEF Observers
<1>1. ASSUME NEW p \in Observers, Stat(p), p # o PROVE look'[o] = look[o]
  BY <1>1, StatSays
<1>2. ASSUME NEW p \in Observers, Dated(p)
      PROVE  look'[o].pc = look[o].pc /\ SameBut(look'[o], look[o])
  BY <1>2, DatedSays
<1>3. ASSUME NEW p \in Observers, Hash(p) PROVE look'[o] = look[o]
  BY <1>3, HashSays
<1>4. CASE SameLooks(look)
  BY <1>4 DEF SameLooks
<1>5. CASE Walked
  BY <1>0, <1>5, WalkedSays DEF LookOver
<1>6. CASE Looked
  BY <1>0, <1>6, LookedSays DEF LookOver
<1>7. CASE Landed
  BY <1>0, <1>7, LandedSays DEF SameBut
<1> QED
  BY <1>1, <1>2, <1>3, <1>4, <1>5, <1>6, <1>7, Steps, QuietLooks DEF NotesOf, Jobbing, SameBut

\* A step but the host's and a report leaves who is after the host.
LEMMA StaysAfter ==
  ASSUME OInv, [Next]_vars, ~Report, ~TakeCommit, ~Place, ~PlaceFails, NEW s \in Nat
  PROVE  (After(s) => After(s)') /\ (engine.seen <= s => engine'.seen <= s)
BY Knows, HostForms, AfterKept DEF OInv

LEMMA StepFailedAfter ==
  ASSUME OInv, [Next]_vars
  PROVE  FailedAfter'
<1> USE DEF OInv, IInv
<1>0. Typed /\ Typed' /\ "executor" \in Observers /\ "scan" \in Observers
      /\ Observers = {"scan", "executor"} /\ "scan" # "executor"
  BY StepTyped DEF Observers
<1>1. CASE Report
  <2>1. PICK m \in Msgs, e \in Engines : Heads(m) /\ Moves(e, m) /\ SameEngine(e)
    BY <1>1, ReportMoves
  <2>2. /\ Hosts' = Hosts /\ UNCHANGED <<disk, commit>>
        /\ engine'.seen = e.seen /\ engine'.record = e.record /\ SameLooks(look)
    BY <1>1, <2>1, ReportTells, ReportSays DEF SameEngine
  <2>3. CASE commit.pc # "none" \/ Outcomes' # {}
    <3>1. engine'.seen = engine.seen /\ engine'.record = engine.record
      BY <1>1, <2>1, <2>2, <2>3, ReportLeaves DEF Leaves
    <3>2. \A i \in Outcomes' : i + 1 \in Outcomes /\ SameMsg(inputs'[i], inputs[i + 1])
      BY <1>1, ReportSays, StepTyped, OutcomesForms
    <3>3. \A s : After(s)' <=> After(s)
      BY <2>2, <3>1 DEF After
    <3>4. look'["executor"].pc = look["executor"].pc /\ look'["executor"].saw = look["executor"].saw
      BY <1>0, <2>2 DEF SameLooks, SameBut
    <3>5. commit'.pc = "failed" /\ look'["executor"].pc # "none" =>
              After(look["executor"].saw)' /\ engine'.seen <= look'["executor"].saw
      BY <2>2, <3>1, <3>3, <3>4 DEF FailedAfter
    <3> QED
      BY <2>2, <3>1, <3>2, <3>3, <3>5 DEF FailedAfter, SameMsg, SameBut
  <2>4. CASE commit.pc = "none" /\ Outcomes' = {}
    BY <2>2, <2>4 DEF FailedAfter
  <2> QED
    BY <2>3, <2>4
<1>2. CASE TakeCommit \/ Place \/ PlaceFails
  BY <1>2, HostSilent DEF FailedAfter
<1>3. CASE ~Report /\ ~TakeCommit /\ ~Place /\ ~PlaceFails
  <2>0. \A s \in Nat : (After(s) => After(s)') /\ (engine.seen <= s => engine'.seen <= s)
    BY <1>3, StaysAfter
  <2>1. commit'.pc = "failed" => commit' = commit /\ ~Looked
    BY <1>3, LookedSays, Frames DEF NoCommit
  <2>2. ASSUME commit'.pc = "failed", look'["executor"].pc # "none"
        PROVE  LET s == look'["executor"].saw IN
               s \in Nat /\ After(s) /\ engine.seen <= s
    <3>1. commit.pc = "failed"
      BY <2>1, <2>2
    <3>2. Last \in Nat /\ After(Last) /\ engine.seen <= Last
      BY <3>1, Domains DEF Settled, OneFlight, Typed
    <3>3. look["executor"] \in Looks /\ look["executor"].saw \in Nat
      BY DEF Typed, Looks, Observers
    <3>4. \/ look["executor"].pc # "none" /\ look'["executor"].saw = look["executor"].saw
          \/ look'["executor"].saw = Last
      <4>1. ~Landed
        BY <3>1 DEF Landed
      <4> QED
        BY <1>0, <2>2, <4>1, LookSaw
    <3> QED
      BY <3>1, <3>2, <3>3, <3>4 DEF FailedAfter
  <2>3. ASSUME NEW i \in Outcomes', inputs'[i].kind = "failed"
        PROVE  LET s == inputs'[i].saw IN s \in Nat /\ After(s) /\ engine.seen <= s
    <3>0. inputs'[i].saw \in Nat
      <4>1. inputs' \in Seq(Msgs)
        BY <1>0 DEF Typed
      <4>2. inputs'[i] \in Msgs
        BY <2>3, <4>1 DEF Outcomes
      <4> QED
        BY <4>2 DEF Msgs
    <3>1. CASE i \in Outcomes
      <4>1. SameMsg(inputs'[i], inputs[i])
        BY <1>3, <3>1, OutcomesGrow
      <4> QED
        BY <2>3, <3>0, <3>1, <4>1 DEF FailedAfter, SameMsg, SameBut
    <3>2. CASE i \notin Outcomes
      <4>1. Looked /\ commit.pc = "failed" /\ SameBut(inputs'[i], look["executor"])
        BY <1>3, <2>3, <3>2, OutcomesGrow
      <4>2. look["executor"].pc # "none"
        BY <4>1, LookedSays
      <4> QED
        BY <3>0, <4>1, <4>2 DEF FailedAfter, SameBut
    <3> QED
      BY <3>1, <3>2
  <2>4. commit'.pc = "failed" /\ look'["executor"].pc # "none" =>
            After(look["executor"].saw)' /\ engine'.seen <= look'["executor"].saw
    <3> SUFFICES ASSUME commit'.pc = "failed", look'["executor"].pc # "none"
                 PROVE  After(look["executor"].saw)' /\ engine'.seen <= look'["executor"].saw
      OBVIOUS
    <3>1. PICK s \in Nat : s = look'["executor"].saw /\ After(s) /\ engine.seen <= s
      BY <2>2
    <3>2. After(s)' /\ engine'.seen <= s
      BY <2>0, <3>1
    <3> QED
      BY <3>1, <3>2 DEF After
  <2>5. ASSUME NEW i \in Outcomes', inputs'[i].kind = "failed"
        PROVE  After(inputs[i].saw)' /\ engine'.seen <= inputs'[i].saw
    <3>1. PICK s \in Nat : s = inputs'[i].saw /\ After(s) /\ engine.seen <= s
      BY <2>3, <2>5
    <3>2. After(s)' /\ engine'.seen <= s
      BY <2>0, <3>1
    <3> QED
      BY <3>1, <3>2 DEF After
  <2> QED
    BY <2>4, <2>5 DEF FailedAfter
<1> QED
  BY <1>1, <1>2, <1>3

\* What a look of the path saw before it was dated has read no file.
LEMMA StepUnread ==
  ASSUME OInv, [Next]_vars
  PROVE  Unread'
<1> USE DEF OInv, IInv
<1> SUFFICES ASSUME NEW o \in Observers, look'[o].pc = "stated", look'[o].found = "observed"
             PROVE  disk'[look'[o].saw].holds \in Links
  BY DEF Unread
<1>1. Grown(disk, disk')
  BY StepTyped
<1>2. \/ look[o].pc = "stated" /\ SameBut(look'[o], look[o])
      \/ Stat(o)
  BY OneSaw
<1>3. CASE Stat(o)
  BY <1>3, StatSays, Domains DEF Holds
<1>4. CASE look[o].pc = "stated" /\ SameBut(look'[o], look[o])
  <2>1. disk[look[o].saw].holds \in Links /\ look[o].saw \in DOMAIN disk
    BY <1>4 DEF Unread, SameBut, LooksTrue, LookTrue, Found
  <2> QED
    BY <1>1, <1>4, <2>1 DEF Grown, SameBut
<1> QED
  BY <1>2, <1>3, <1>4

-----------------------------------------------------------------------------
(* A scan that found the path absent.                                         *)

LEMMA KindSays == Kind \in News
BY DEF Kind, News

\* A step that sends leaves what a scan has seen after.
LEMMA BehindKept ==
  ASSUME IInv, [Next]_vars, ~Report, ~ScanStarts,
         NEW s \in Nat, NEW n \in Nat, n <= Len(inputs), Behind(s, n)
  PROVE  Behind(s, n)'
<1> USE DEF IInv
<1>1. Typed /\ Typed' /\ Len(inputs) \in Nat
  BY StepTyped, Domains
<1>2. engine'.record = engine.record /\ engine'.seen = engine.seen
      /\ engine'.bracket = engine.bracket
  BY Knows
<1>3. SameQueue(inputs) \/ \E m \in Msgs : Adds(m) /\ m.kind # "started"
  BY QueueForms, KindSays DEF News
<1>4. ToldBy(n) => ToldBy(n)'
  BY <1>1, <1>2, <1>3, ToldKept
<1>5. \A j \in 1..n : inputs'[j].kind = inputs[j].kind /\ inputs'[j].saw = inputs[j].saw
  <2>1. \A j \in 1..n : j \in 1..Len(inputs)
    BY <1>1
  <2> QED
    BY <1>3, <2>1 DEF SameQueue, Adds, SameMsg, SameBut
<1>6. ASSUME commit'.pc = "none", CommitJobs' = {},
             \A i \in Outcomes' : i <= n /\ inputs'[i].kind = "failed", After(s)
      PROVE  After(s)'
  <2>1. ~TakeCommit /\ ~Place /\ ~PlaceFails
    BY <1>6, HostSilent
  <2> QED
    BY <1>2, <1>6, <2>1, HostForms, AfterKept
<1>7. ASSUME commit'.pc = "none", CommitJobs' = {},
             \A i \in Outcomes' : i <= n /\ inputs'[i].kind = "failed"
      PROVE  /\ commit.pc = "none" /\ CommitJobs = {}
             /\ \A i \in Outcomes : i <= n /\ inputs[i].kind = "failed"
  <2>1. Outcomes' = Outcomes
    <3>1. \A i \in Outcomes' \ Outcomes : i = Len(inputs) + 1
      BY OutcomesGrow
    <3>2. \A i \in Outcomes' \ Outcomes : FALSE
      BY <1>1, <1>7, <3>1
    <3> QED
      BY <3>2, OutcomesGrow
  <2>2. \A i \in Outcomes : i <= n /\ inputs[i].kind = "failed"
    BY <1>7, <2>1, OutcomesGrow DEF SameMsg
  <2>3. commit.pc = "none"
    <3>1. Looked => commit.pc = "none"
      <4>1. Looked => commit.pc \notin {"failed", "landed"}
        BY <2>1, OutcomesGrow
      <4>2. Looked => commit.pc # "placing"
        BY DEF Looked, Busy
      <4> QED
        BY <1>1, <4>1, <4>2 DEF Typed
    <3> QED
      BY <1>7, <3>1, HostSilent, Frames
  <2>4. CommitJobs = {}
    <3>1. ASSUME NEW c \in Maybe, Dispatch(c) PROVE FALSE
      <4>1. released' = Append(released, Job("commit", engine.record, c)) /\ engine.record \in Maybe
        BY <3>1, DispatchSays DEF Typed, Engines
      <4> QED
        BY <1>1, <1>7, <4>1, JobsForms
    <3>2. ~TakeCommit
      BY <1>7, HostSilent
    <3>3. CASE TakeRecord
      <4>1. NextJob /\ Head(released).job = "record"
        BY <3>3 DEF TakeRecord
      <4>2. /\ Head(released) = released[1] /\ Len(released') = Len(released) - 1
            /\ \A i \in 1..Len(released') : released'[i] = released[i + 1]
            /\ DOMAIN released' = 1..Len(released) - 1 /\ Len(released) \in Nat
            /\ DOMAIN released = 1..Len(released)
        BY <1>1, <4>1, NextJobSays, Domains
      <4>3. ASSUME NEW i \in CommitJobs PROVE FALSE
        <5>1. i \in 1..Len(released) /\ i # 1 /\ released[i].job = "commit"
          BY <4>1, <4>2 DEF CommitJobs
        <5>2. i - 1 \in DOMAIN released' /\ released'[i - 1] = released[(i - 1) + 1] /\ (i - 1) + 1 = i
          BY <4>2, <5>1
        <5>3. i - 1 \in CommitJobs'
          BY <5>1, <5>2 DEF CommitJobs
        <5> QED
          BY <1>7, <5>3
      <4> QED
        BY <4>3
    <3> QED
      BY <1>1, <1>7, <3>1, <3>2, <3>3, Frames, JobsForms
  <2> QED
    BY <2>2, <2>3, <2>4
<1> QED
  BY <1>2, <1>4, <1>5, <1>6, <1>7 DEF Behind

\* News that is sent to a scan's bracket is told before the scan ends.
LEMMA BehindTold ==
  ASSUME Typed, Typed', NEW s, NEW n, n = Len(inputs'), NEW m \in Msgs, Adds(m), m.kind \in News
  PROVE  Behind(s, n)'
<1>1. /\ DOMAIN inputs' = DOMAIN inputs \cup {Len(inputs) + 1}
      /\ DOMAIN inputs = 1..Len(inputs) /\ Len(inputs) \in Nat
      /\ inputs'[Len(inputs) + 1].kind = m.kind /\ Len(inputs') = Len(inputs) + 1
  BY Positions DEF Adds
<1>2. m.kind # "started"
  BY DEF News
<1>3. \A k \in DOMAIN inputs' : inputs'[k].kind = "started" => k < Len(inputs) + 1
  BY <1>1, <1>2
<1>4. ToldBy(n)'
  BY <1>1, <1>3 DEF ToldBy
<1> QED
  BY <1>4 DEF Behind

\* A report that is handled leaves it so.
LEMMA BehindOff ==
  ASSUME OInv, Report, NEW s \in Nat, NEW n \in Nat \ {0}, n <= Len(inputs), Behind(s, n),
         inputs[1].kind \notin Ends, scan.pc \in {"walking", "walked"} \/ Waits(Ends)
  PROVE  Behind(s, n - 1)'
<1> USE DEF OInv, IInv
<1>1. PICK m \in Msgs, e \in Engines : Heads(m) /\ Moves(e, m) /\ SameEngine(e)
  BY ReportMoves
<1>2. /\ Hosts' = Hosts /\ UNCHANGED <<disk, commit>> /\ Drops
      /\ engine'.record = e.record /\ engine'.seen = e.seen
      /\ engine'.bracket = Bracketed(engine.bracket, inputs[1].kind)
  BY <1>1, ReportTells, ReportSays DEF SameEngine
<1>3. Typed /\ Typed' /\ 1 \in 1..n /\ 1 \in DOMAIN inputs
  BY <1>2, StepTyped, Domains DEF Next, Drops
<1>4. ToldBy(n) => ToldBy(n - 1)'
  BY <1>2, <1>3, ToldOff
<1> SUFFICES ASSUME ~ToldBy(n)
             PROVE  /\ engine'.seen <= s
                    /\ \A j \in 1..n - 1 : inputs'[j].kind \in News => inputs'[j].saw <= s
                    /\ /\ commit'.pc = "none" /\ CommitJobs' = {}
                       /\ \A i \in Outcomes' : i <= n - 1 /\ inputs'[i].kind = "failed"
                       => After(s)'
  BY <1>4 DEF Behind
<1>5. /\ engine.seen <= s
      /\ \A j \in 1..n : inputs[j].kind \in News => inputs[j].saw <= s
      /\ /\ commit.pc = "none" /\ CommitJobs = {}
         /\ \A i \in Outcomes : i <= n /\ inputs[i].kind = "failed"
         => After(s)
  BY DEF Behind
<1>6. ~Misses(e, m)
  BY <1>1 DEF Misses, Heads, Ends
<1>7. engine'.seen <= s
  <2>1. CASE Leaves(e, m)
    BY <1>2, <1>5, <2>1 DEF Leaves
  <2>2. CASE Takes(e, m) \/ Settles(e, m)
    <3>1. m.saw <= s /\ m.saw \in Nat /\ e.seen \in {engine.seen, m.saw}
      BY <1>1, <1>3, <1>5, <2>2, ReportHosts DEF Heads
    <3> QED
      BY <1>2, <1>5, <3>1
  <2> QED
    BY <1>1, <1>6, <2>1, <2>2 DEF Moves
<1>8. ASSUME NEW j \in 1..n - 1, inputs'[j].kind \in News PROVE inputs'[j].saw <= s
  <2>1. j \in DOMAIN inputs' /\ j + 1 \in 1..n
    <3>1. DOMAIN inputs' = 1..Len(inputs') /\ Len(inputs') = Len(inputs) - 1 /\ Len(inputs) \in Nat
      BY <1>2, <1>3, Positions DEF Drops
    <3> QED
      BY <3>1
  <2>2. inputs'[j].kind = inputs[j + 1].kind /\ inputs'[j].saw = inputs[j + 1].saw
    BY <1>2, <1>3, <2>1, Positions
  <2> QED
    BY <1>5, <1>8, <2>1, <2>2
<1>9. ASSUME commit'.pc = "none", CommitJobs' = {},
             \A i \in Outcomes' : i <= n - 1 /\ inputs'[i].kind = "failed"
      PROVE  After(s)'
  <2>1. CommitJobs = {}
    <3>1. released' = released \/ \E c \in Maybe : released' = Append(released, Job("record", None, c))
      BY ReportSays
    <3> QED
      BY <1>3, <1>9, <3>1, JobsForms
  <2>2. ASSUME inputs[1].kind # "ok" PROVE After(s)
    <3>1. \A i \in Outcomes : i <= n /\ inputs[i].kind = "failed"
      <4> TAKE i \in Outcomes
      <4>1. /\ i \in DOMAIN inputs /\ (i = 1 \/ i - 1 \in DOMAIN inputs')
            /\ inputs[i].kind \in {"ok", "failed"}
            /\ \A j \in DOMAIN inputs' : inputs'[j].kind = inputs[j + 1].kind
        BY <1>2, <1>3, Positions DEF Outcomes
      <4>2. i \in Nat /\ (i - 1) + 1 = i
        <5>1. i \in Nat
          BY <1>3, <4>1, Naturals
        <5> QED
          BY <5>1
      <4>3. CASE i = 1
        BY <1>3, <2>2, <4>1, <4>3
      <4>4. CASE i - 1 \in DOMAIN inputs'
        <5>1. i - 1 \in Outcomes' /\ inputs'[i - 1].kind = inputs[i].kind
          BY <4>1, <4>2, <4>4 DEF Outcomes
        <5>2. i - 1 <= n - 1 /\ inputs[i].kind = "failed"
          BY <1>9, <5>1
        <5> QED
          BY <4>2, <5>2
      <4> QED
        BY <4>1, <4>3, <4>4
    <3> QED
      BY <1>2, <1>5, <1>9, <2>1, <3>1
  <2>3. CASE inputs[1].kind # "ok" /\ e.record \in Links \cup {None, engine.record}
    <3>1. After(s)
      BY <2>2, <2>3
    <3> QED
      BY <1>2, <2>3, <3>1 DEF After
  <2>4. CASE /\ \A h \in Hosts : h \in Nat /\ h <= m.saw
             /\ m.saw \in Nat /\ e.record = disk[m.saw].holds /\ m.saw <= s
    <3>1. \A h \in Hosts : h <= s /\ (h = s => h = m.saw)
      BY <2>4
    <3> QED
      BY <1>2, <2>4, <3>1 DEF After
  <2>5. CASE Takes(e, m) \/ Settles(e, m)
    <3>1. Takes(e, m) => inputs[1].kind # "ok"
      BY <1>1 DEF Takes, Heads
    <3>2. m.kind \in News => m.saw <= s
      BY <1>1, <1>3, <1>5 DEF Heads
    <3> QED
      BY <1>1, <2>3, <2>4, <2>5, <3>1, <3>2, ReportHosts
  <2>6. CASE Leaves(e, m)
    BY <1>1, <2>3, <2>6 DEF Leaves, Heads
  <2> QED
    BY <1>1, <1>6, <2>5, <2>6 DEF Moves
<1> QED
  BY <1>7, <1>8, <1>9

\* What the scanner is at is of the state it was of, or of the last.
LEMMA ScanSaw ==
  ASSUME IInv, [Next]_vars, look'["scan"].pc # "none"
  PROVE  \/ look["scan"].pc # "none" /\ look'["scan"].saw = look["scan"].saw
         \/ look'["scan"].saw = Last
BY LookSaw DEF Observers

\* Who sees the last state is behind nothing.
LEMMA LastBehind ==
  ASSUME OInv, NEW n \in Nat, n <= Len(inputs)
  PROVE  Behind(Last, n)
<1> USE DEF OInv, IInv
<1>1. engine.seen <= Last
  BY Domains DEF Typed
<1>2. \A j \in 1..n : inputs[j].kind \in News => inputs[j].saw <= Last
  <2> TAKE j \in 1..n
  <2>1. j \in 1..Len(inputs)
    BY Domains
  <2> QED
    BY <2>1, TellsSays DEF Tells
<1>3. ASSUME commit.pc = "none", \A i \in Outcomes : inputs[i].kind = "failed" PROVE After(Last)
  BY <1>3 DEF Settled
<1> QED
  BY <1>1, <1>2, <1>3 DEF Behind

LEMMA ReportScanned ==
  ASSUME OInv, Report
  PROVE  Scanned'
<1> USE DEF OInv, IInv
<1>1. /\ Drops /\ SameLooks(look) /\ scan' = scan
  BY ReportSays
<1>2. Typed /\ Typed' /\ "scan" \in Observers
  BY StepTyped DEF Next, Observers
<1>3. /\ Len(inputs) \in Nat \ {0} /\ Len(inputs') = Len(inputs) - 1
      /\ DOMAIN inputs = 1..Len(inputs) /\ DOMAIN inputs' = 1..Len(inputs')
  BY <1>1, <1>2, Positions DEF Drops
<1>4. look'["scan"].pc = look["scan"].pc /\ look'["scan"].saw = look["scan"].saw
      /\ look["scan"].saw \in Nat /\ scan.missing \in Nat
  BY <1>1, <1>2 DEF SameLooks, SameBut, Typed, Looks
<1>5. CASE inputs[1].kind \in Ends
  <2>1. ~Waits(Ends)' /\ scan.pc = "none"
    BY <1>1, <1>2, <1>5, HeadSays
  <2>2. look["scan"].pc = "none" /\ scan.missing = 0
    BY <2>1 DEF Busy, Scanned
  <2> QED
    BY <1>1, <1>4, <2>1, <2>2 DEF Scanned, Waits, Ends
<1>6. CASE inputs[1].kind \notin Ends
  <2>1. PICK n \in Nat \ {0} : n = Len(inputs)
    BY <1>3
  <2>2. Len(inputs') = n - 1
    BY <1>3, <2>1
  <2>3. ASSUME look["scan"].pc # "none" PROVE Behind(look["scan"].saw, Len(inputs))'
    <3>1. PICK s \in Nat : s = look["scan"].saw
      BY <1>4
    <3>2. Behind(s, n) /\ scan.pc = "walking"
      BY <2>1, <2>3, <3>1 DEF Scanned, Busy
    <3>3. Behind(s, n - 1)'
      BY <1>6, <2>1, <3>2, BehindOff
    <3> QED
      BY <1>4, <2>2, <3>1, <3>3 DEF Behind, ToldBy
  <2>4. ASSUME scan.missing # 0 PROVE scan.pc = "walked" /\ Behind(scan.missing, Len(inputs))'
    <3>1. PICK s \in Nat : s = scan.missing
      BY <1>4
    <3>2. Behind(s, n) /\ scan.pc = "walked"
      BY <2>1, <2>4, <3>1 DEF Scanned
    <3>3. Behind(s, n - 1)'
      BY <1>6, <2>1, <3>2, BehindOff
    <3> QED
      BY <1>1, <2>2, <3>1, <3>2, <3>3 DEF Behind, ToldBy
  <2>5. ASSUME NEW i \in DOMAIN inputs', inputs'[i].kind = "finished", inputs'[i].saw # 0
        PROVE  Behind(inputs[i].saw, i - 1)'
    <3>1. i + 1 \in DOMAIN inputs /\ inputs[i + 1].kind = "finished" /\ inputs[i + 1].saw = inputs'[i].saw
      BY <1>1, <1>2, <2>5, Positions
    <3>2. i \in Nat \ {0} /\ i <= Len(inputs) /\ (i + 1) - 1 = i
      BY <1>3
    <3>3. PICK s \in Nat : s = inputs[i + 1].saw
      BY <1>2, <1>3, <3>1, Domains DEF Msgs
    <3>4. Behind(s, i) /\ Waits(Ends)
      BY <2>5, <3>1, <3>2, <3>3 DEF Scanned, Waits, Ends
    <3>5. Behind(s, i - 1)'
      BY <1>6, <3>2, <3>4, BehindOff
    <3> QED
      BY <3>1, <3>3, <3>5 DEF Behind, ToldBy
  <2> QED
    BY <1>1, <1>4, <2>3, <2>4, <2>5 DEF Scanned
<1> QED
  BY <1>5, <1>6

LEMMA QuietScanned ==
  ASSUME OInv, [Next]_vars, ~Report
  PROVE  Scanned'
<1> USE DEF OInv, IInv
<1>1. Typed /\ Typed' /\ "scan" \in Observers /\ Observers = {"scan", "executor"}
  BY StepTyped DEF Observers
<1>2. /\ DOMAIN inputs = 1..Len(inputs) /\ Len(inputs) \in Nat
      /\ DOMAIN inputs' = 1..Len(inputs') /\ Len(inputs') \in Nat
  BY <1>1, Positions
<1>3. CASE ScanStarts
  <2>1. scan.pc = "none" /\ ~Waits(Ends) /\ scan'.missing = 0 /\ SameLooks(look)
    BY <1>3, StartSays, QuietLooks DEF ScanStarts, NoScan, NotesOf
  <2>2. \E m \in Msgs : Adds(m) /\ m.kind = "started"
    <3>1. Sends(look, Note("started", 0)) /\ "started" \in Kinds /\ 0 \in Nat
      BY <1>3 DEF ScanStarts, Kinds
    <3> QED
      BY <3>1, NotesSay
  <2>3. ~Waits(Ends)'
    BY <1>1, <2>1, <2>2, WaitsForms DEF Ends
  <2>4. look'["scan"].pc = "none"
    BY <1>1, <2>1 DEF Busy, SameLooks
  <2> QED
    BY <2>1, <2>3, <2>4 DEF Scanned, Waits, Ends
<1>4. CASE ~ScanStarts
  <2>1. \A s \in Nat, n \in Nat : n <= Len(inputs) /\ Behind(s, n) => Behind(s, n)'
    BY <1>4, BehindKept
  <2>2. PICK n \in Nat : n = Len(inputs)
    BY <1>2
  <2>3. PICK k \in Nat : k = Len(inputs')
    BY <1>2
  <2>4. SameQueue(inputs) => k = n
    BY <2>2, <2>3 DEF SameQueue
  <2>5. \A s \in Nat : /\ Behind(s, n)
                       /\ SameQueue(inputs) \/ \E m \in Msgs : Adds(m) /\ m.kind \in News
                       => Behind(s, k)'
    BY <1>1, <2>1, <2>2, <2>3, <2>4, BehindTold
  <2>6. ASSUME ~ScanEnds, ~ScanAborts
        PROVE  SameQueue(inputs) \/ \E m \in Msgs : Adds(m) /\ m.kind \in News
    BY <1>4, <2>6, QueueForms, KindSays DEF News
  <2>7. ASSUME look'["scan"].pc # "none" PROVE Behind(look["scan"].saw, Len(inputs))'
    <3>1. PICK s \in Nat : s = look'["scan"].saw
      BY <1>1 DEF Typed, Looks
    <3>2. Behind(s, n)
      <4>1. n <= Len(inputs)
        BY <1>2, <2>2
      <4>2. CASE look["scan"].pc # "none" /\ s = look["scan"].saw
        BY <2>2, <4>2 DEF Scanned
      <4>3. CASE s = Last
        BY <4>1, <4>3, LastBehind
      <4> QED
        BY <2>7, <3>1, <4>2, <4>3, ScanSaw
    <3>3. ~ScanEnds /\ ~ScanAborts
      <4>1. ASSUME ScanEnds \/ ScanAborts PROVE FALSE
        <5>1. SameLooks(look)
          BY <4>1, QuietLooks DEF NotesOf
        <5>2. look["scan"].pc = "none"
          BY <4>1 DEF ScanEnds, ScanAborts, Busy
        <5> QED
          BY <1>1, <2>7, <5>1, <5>2 DEF SameLooks
      <4> QED
        BY <4>1
    <3>4. Behind(s, k)'
      BY <2>5, <2>6, <3>2, <3>3
    <3> QED
      BY <2>3, <3>1, <3>4 DEF Behind, ToldBy
  <2>8. ASSUME scan'.missing # 0 PROVE scan'.pc = "walked" /\ Behind(scan.missing, Len(inputs))'
    <3>1. PICK s \in Nat : s = scan'.missing
      BY <1>1 DEF Typed
    <3>2. ~ScanEnds /\ ~ScanAborts
      BY <2>8 DEF ScanEnds, ScanAborts, NoScan
    <3>3. scan'.pc = "walked" /\ Behind(s, n)
      <4>1. CASE scan' = scan
        BY <2>2, <2>8, <3>1, <4>1 DEF Scanned
      <4>2. CASE Walked
        <5>1. scan'.pc = "walked" /\ scan'.missing = look["scan"].saw /\ look["scan"].pc = "ready"
          BY <2>8, <4>2 DEF Walked, Typed
        <5> QED
          BY <2>2, <3>1, <5>1 DEF Scanned
      <4> QED
        BY <1>4, <3>2, <4>1, <4>2, ScanSays
    <3>4. Behind(s, k)'
      BY <2>5, <2>6, <3>2, <3>3
    <3> QED
      BY <2>3, <3>1, <3>3, <3>4 DEF Behind, ToldBy
  <2>9. ASSUME NEW i \in DOMAIN inputs', inputs'[i].kind = "finished", inputs'[i].saw # 0
        PROVE  Behind(inputs[i].saw, i - 1)'
    <3>10. inputs' \in Seq(Msgs)
      BY <1>1 DEF Typed
    <3>11. inputs'[i] \in Msgs
      BY <3>10, <2>9
    <3>0. PICK s \in Nat : s = inputs'[i].saw
      BY <3>11 DEF Msgs
    <3>1. i - 1 \in Nat
      BY <1>2
    <3>2. Behind(s, i - 1) /\ i - 1 <= Len(inputs)
      <4>1. CASE i \in DOMAIN inputs
        <5>1. inputs[i].kind = "finished" /\ inputs[i].saw = s
          <6>1. SameQueue(inputs) \/ \E m \in Msgs : Adds(m)
            BY QueueForms
          <6> QED
            BY <1>1, <2>9, <3>0, <4>1, <6>1, Positions
        <5> QED
          BY <1>2, <2>9, <3>0, <4>1, <5>1 DEF Scanned
      <4>2. CASE i \notin DOMAIN inputs
        <5>1. ~SameQueue(inputs)
          BY <1>1, <4>2, Positions
        <5>2. \A m \in Msgs : Adds(m) =>
                i = Len(inputs) + 1 /\ m.kind = "finished" /\ m.saw = s
          BY <1>1, <2>9, <3>0, <4>2, Positions
        <5>3. ScanEnds /\ s = scan.missing /\ i = n + 1
          BY <2>2, <5>1, <5>2, QueueForms, KindSays DEF News
        <5>4. Behind(s, n) /\ i - 1 = n
          BY <2>2, <2>9, <3>0, <5>3 DEF Scanned
        <5> QED
          BY <1>2, <2>2, <5>4
      <4> QED
        BY <4>1, <4>2
    <3>3. Behind(s, i - 1)'
      BY <2>1, <3>1, <3>2
    <3> QED
      BY <3>0, <3>3 DEF Behind, ToldBy
  <2> QED
    BY <2>7, <2>8, <2>9 DEF Scanned
<1> QED
  BY <1>3, <1>4

LEMMA StepScanned ==
  ASSUME OInv, [Next]_vars
  PROVE  Scanned'
BY ReportScanned, QuietScanned

LEMMA InitOrder == Init => OInv
<1> SUFFICES ASSUME Init PROVE OInv
  OBVIOUS
<1>1. IInv
  BY InitInvariant
<1>2. /\ inputs = <<>> /\ released = <<>> /\ commit.pc = "none" /\ scan.missing = 0
      /\ Len(inputs) = 0 /\ \A o \in Observers : look[o].pc = "none"
  BY DEF Init, NoCommit, NoScan, NoLook
<1>3. PICK c \in Initially : disk = <<State(c, "user")>> /\ engine.seen = 1
  BY DEF Init
<1>4. Hosts = {} /\ Outcomes = {} /\ CommitJobs = {} /\ DOMAIN inputs = {}
  <2>1. DOMAIN disk = {1} /\ disk[1].by = "user"
    BY <1>3 DEF State
  <2> QED
    BY <1>2, <2>1 DEF Hosts, Outcomes, CommitJobs
<1>5. OnTime
  <2>1. \A t, s, f : ~Tells(look, inputs, t, s, f)
    BY <1>2 DEF Tells
  <2>2. \A i, t : ~Concludes(look, inputs, commit.pc, i, t)
    BY <1>2 DEF Concludes
  <2> QED
    BY <2>1, <2>2 DEF OnTime, Book, Stamped, Sorted, FromBoth
<1>6. Settled /\ Unread /\ FailedAfter /\ Ahead /\ Expects /\ Scanned
  <2>1. "scan" \in Observers
    BY DEF Observers
  <2> QED
    BY <1>2, <1>4, <2>1 DEF Settled, Unread, FailedAfter, After, Ahead, Expects, Scanned
<1> QED
  BY <1>1, <1>5, <1>6 DEF OInv

LEMMA NextOrder ==
  ASSUME OInv, [Next]_vars
  PROVE  OInv'
<1>1. IInv'
  BY NextInvariant DEF OInv
<1> QED
  BY <1>1, StepOnTime, StepUnread, StepSettled, StepFailedAfter, StepAhead, StepExpects, StepScanned DEF OInv

\* What waits to be told of the path, by looks, reports, commits and scans, is
\* in the order in which it was seen, so far as the engine's times can tell.
THEOREM OrderInvariance == Spec => []OInv
<1>1. Init => OInv
  BY InitOrder
<1>2. OInv /\ [Next]_vars => OInv'
  BY NextOrder
<1> QED
  BY <1>1, <1>2, PTL DEF Spec

\* A scan that misses the path has seen it gone after all that is known of it.
LEMMA MissesFits ==
  ASSUME OInv, Report, NEW m \in Msgs, NEW e, Heads(m), Misses(e, m)
  PROVE  /\ m.saw \in DOMAIN disk /\ disk[m.saw].holds = None
         /\ engine.seen <= m.saw /\ After(m.saw)
<1> USE DEF OInv, IInv
<1>1. inputs[1].kind = "finished" /\ inputs[1].saw = m.saw /\ m.saw # 0
  BY DEF Heads, Misses
<1>2. 1 \in DOMAIN inputs
  BY ReportSays, StepTyped, Positions DEF Next
<1>3. Gone(disk, m.saw)
  BY <1>1, <1>2 DEF LooksTrue, MsgTrue
<1>4. Behind(m.saw, 0)
  <2>1. 1 - 1 = 0
    OBVIOUS
  <2> QED
    BY <1>1, <1>2, <2>1 DEF Scanned
<1>5. ~ToldBy(0)
  <2>1. 1..0 = {} /\ engine.bracket = "open"
    BY DEF Misses
  <2> QED
    BY <2>1 DEF ToldBy
<1>6. commit.pc = "none" /\ CommitJobs = {} /\ Outcomes = {}
  BY NoFlight DEF Misses
<1> QED
  BY <1>1, <1>3, <1>4, <1>5, <1>6 DEF Behind, Gone

\* A look that takes the engine back in the order of what the path held, when
\* it knew it to be there, is one that found a symlink or nothing, and is dated
\* after it was done: is_stale's two times, the commits' reports and the scan's
\* bracket keep the order otherwise, though looks overtake each other and
\* commits in the queue.
THEOREM PresentOnward == Spec => DatedNeverBackwards
<1> DEFINE A == engine'.seen >= engine.seen \/ engine.record = None \/ Late
<1>1. ASSUME OInv, [Next]_vars PROVE [A]_vars
  <2> USE DEF OInv
  <2>1. engine.seen \in Nat
    BY <1>1 DEF IInv, Typed, Engines
  <2>2. CASE ~Report
    BY <1>1, <2>1, <2>2, Knows
  <2>3. CASE Report
    <3>1. PICK m \in Msgs, e \in Engines : Heads(m) /\ Moves(e, m) /\ SameEngine(e)
      BY <1>1, <2>3, ReportMoves
    <3>2. engine'.seen = e.seen /\ engine'.record = e.record /\ Head(inputs).kind = m.kind
      BY <1>1, <2>3, <3>1 DEF SameEngine, Heads, Report, IInv, Typed
    <3>3. CASE Leaves(e, m)
      BY <2>1, <3>2, <3>3 DEF Leaves
    <3>4. CASE Takes(e, m) \/ Settles(e, m)
      <4>1. m.saw \in Nat /\ (e.record # engine.record => e.seen = m.saw)
            /\ (e.record = engine.record => engine.seen <= e.seen)
        BY <1>1, <2>3, <3>1, <3>4, ReportHosts
      <4>2. \/ e.record = engine.record
            \/ m.kind = "seen" /\ e.record \in Links \cup {None}
            \/ engine.seen <= m.saw \/ engine.record = None
        BY <1>1, <2>3, <3>1, <3>4, ReportHosts
      <4>3. CASE e.record = engine.record
        BY <2>1, <3>2, <4>1, <4>3
      <4>4. CASE e.record # engine.record
        BY <2>1, <3>2, <4>1, <4>2, <4>4 DEF Late
      <4> QED
        BY <4>3, <4>4
    <3>5. CASE Misses(e, m)
      <4>1. m.saw \in Nat /\ engine.seen <= m.saw /\ e.seen = m.saw
        BY <1>1, <2>3, <3>1, <3>5, MissesFits DEF Msgs, Misses
      <4> QED
        BY <2>1, <3>2, <4>1
    <3> QED
      BY <3>1, <3>3, <3>4, <3>5 DEF Moves
  <2> QED
    BY <2>2, <2>3
<1> QED
  BY <1>1, OrderInvariance, PTL DEF Spec, DatedNeverBackwards

\* A file, or what replaces one, that is announced as this machine's change is
\* what the user made, and never what the executor's own commit made or was in
\* the middle of: what is taken of a failed commit, of a look at a file that
\* was there all through its hash, and the absence a scan concludes, is of a
\* state past every commit.  Only a look that was dated after it was done, and
\* what it was the first to say of a symlink or of nothing, is excepted.
THEOREM OnlyTheUser == Spec => HostIsNotUser
<1> DEFINE A == LocalChange => \/ disk[engine'.seen].by = "user"
                               \/ engine.record \in Links \cup {None} \/ Late
<1>1. ASSUME OInv, [Next]_vars PROVE [A]_vars
  <2> SUFFICES ASSUME LocalChange, engine.record \notin Links \cup {None}, ~Late
               PROVE  disk[engine'.seen].by = "user"
    OBVIOUS
  <2> USE DEF OInv
  <2>1. Report
    BY <1>1, Knows DEF LocalChange
  <2>2. PICK m \in Msgs, e \in Engines : Heads(m) /\ Moves(e, m) /\ SameEngine(e)
    BY <1>1, <2>1, ReportMoves
  <2>3. engine'.seen = e.seen /\ e.record # engine.record /\ engine'.record = e.record
    BY <2>2 DEF SameEngine, LocalChange
  <2>4. ~Lands(engine, m) /\ Head(inputs).kind = m.kind
    <3>1. Head(inputs) = inputs[1]
      BY <1>1, <2>1 DEF Report, IInv, Typed
    <3> QED
      BY <2>2, <3>1 DEF Heads, LocalChange
  <2>5. /\ m.saw \in DOMAIN disk /\ After(m.saw)
        /\ e.seen = m.saw /\ e.record = disk[m.saw].holds
    <3>1. CASE Takes(e, m)
      <4>1. /\ \/ e.record = engine.record
               \/ m.kind = "seen" /\ e.record \in Links \cup {None}
               \/ After(m.saw) /\ (engine.seen <= m.saw \/ engine.record = None)
            /\ m.saw \in DOMAIN disk /\ e.record = disk[m.saw].holds
        BY <1>1, <2>1, <2>2, <3>1, TakesFits DEF Takes, Records
      <4>2. e.seen = m.saw
        BY <1>1, <2>1, <2>2, <2>3, <3>1, ReportHosts
      <4> QED
        BY <2>3, <2>4, <4>1, <4>2 DEF Late
    <3>2. CASE Misses(e, m)
      BY <1>1, <2>1, <2>2, <3>2, MissesFits DEF Misses
    <3> QED
      BY <2>2, <2>3, <2>4, <3>1, <3>2 DEF Moves, Leaves, Settles
  <2>6. disk[m.saw].by \in {"user", "host"}
    BY <1>1, <2>5, Domains DEF IInv, States
  <2>7. disk[m.saw].by # "host"
    <3>1. ASSUME disk[m.saw].by = "host" PROVE FALSE
      <4>1. m.saw \in Hosts
        BY <2>5, <3>1 DEF Hosts
      <4> QED
        BY <2>3, <2>5, <4>1 DEF After
    <3> QED
      BY <3>1
  <2> QED
    BY <2>3, <2>5, <2>6, <2>7
<1> QED
  BY <1>1, OrderInvariance, PTL DEF Spec, HostIsNotUser

=============================================================================
