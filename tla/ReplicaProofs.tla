--------------------------- MODULE ReplicaProofs ----------------------------
(* Theorems of Replica, for any set of members, any bound on the counters and *)
(* any contents, times and powers.                                            *)
(*                                                                            *)
(* The argument: every step is of one of five kinds, and each kind keeps the  *)
(* inductive invariant IInv.  The kinds say what a step does to the record    *)
(* and to the entries a machine has; which entry waits where does not matter. *)
EXTENDS Replica, EntriesProofs

-----------------------------------------------------------------------------
(* What admitting entries leaves behind                                       *)

LEMMA ResolvedEntry ==
    ASSUME NEW e \in Entry, NEW r \in Entry
    PROVE  Resolved(e, r) \in Entry
<1>1. CASE Conflicts(e, r)
  <2>1. Merge(e.version, r.version) \in Version
    BY MergeVersion DEF Entry
  <2>2. WinnerBody(e.body, r.body) \in Body
    BY WinnerIsHighest DEF Entry
  <2>3. QED
    BY <1>1, <2>1, <2>2 DEF Resolved, Merged, Entry
<1>2. CASE ~Conflicts(e, r)
  BY <1>2 DEF Resolved
<1>3. QED
  BY <1>1, <1>2

LEMMA NoWantIsWant == NoWant \in Want
  BY AbsentEntry DEF NoWant, Want

LEMMA WantForIsWant ==
    ASSUME NEW e \in Entry, NEW r \in Entry
    PROVE  WantFor(e, r) \in Want
<1>1. IndexOnly(e, r) \in BOOLEAN
  BY DEF IndexOnly, Conflicts, Concurrent, SameContent, Live
<1>2. QED
  BY <1>1, ResolvedEntry DEF WantFor, Want

\* Every entry a machine quarantines was in an item before or comes from raws,
\* so does what it defers, and the want is the one it had or comes from raws.
Admitted(n, raws, r, w, items, waiting) ==
    \E t \in Want, late \in SUBSET raws, its \in SUBSET Item :
        /\ want'     = [want EXCEPT ![n] = t]
        /\ deferred' = [deferred EXCEPT ![n] = waiting \cup late]
        /\ held'     = [held EXCEPT ![n] = its]
        /\ \/ t = w
           \/ \E e \in raws : Applies(e, r) /\ t = WantFor(e, r)
        /\ ItemEntries(its) \subseteq ItemEntries(items) \cup raws

LEMMA AdmitFacts ==
    ASSUME NEW n \in Node, NEW raws \in SUBSET Entry, NEW r \in Entry,
           NEW w \in Want, NEW items \in SUBSET Item,
           NEW waiting \in SUBSET Entry, NEW brake,
           Admit(n, raws, r, w, items, waiting, brake)
    PROVE  Admitted(n, raws, r, w, items, waiting)
<1> DEFINE news    == {e \in raws : Applies(e, r) /\ ~AlreadyWanted(w, Resolved(e, r))}
           joiners == {e \in news : Matching(items, e) # {}}
<1>1. PICK stopped \in SUBSET (news \ joiners), to \in [joiners -> items],
           latest \in [items -> joiners \cup {i.kept : i \in items}] :
           /\ held' = [held EXCEPT ![n] =
                          Quarantined(items, joiners, to, latest, stopped)]
           /\ Insert(n, news \ (joiners \cup stopped), r, w, waiting)
  BY DEF Admit
<1> DEFINE its == Quarantined(items, joiners, to, latest, stopped)
<1>2. ASSUME NEW i \in its
      PROVE  i \in Item /\ {i.kept} \cup i.over \subseteq ItemEntries(items) \cup raws
  <2>1. CASE \E j \in items :
               i = [kept |-> latest[j], over |-> j.over \cup {e \in joiners : to[e] = j}]
    <3>1. PICK j \in items :
               i = [kept |-> latest[j], over |-> j.over \cup {e \in joiners : to[e] = j}]
      BY <2>1
    <3>2. j.over \subseteq Entry /\ j.over \subseteq ItemEntries(items)
      BY DEF Item, ItemEntries
    <3>3. latest[j] \in joiners \cup {k.kept : k \in items}
      OBVIOUS
    <3>4. latest[j] \in Entry /\ latest[j] \in ItemEntries(items) \cup raws
      BY <3>3 DEF Item, ItemEntries
    <3>5. QED
      BY <3>1, <3>2, <3>4 DEF Item
  <2>2. CASE \E e \in stopped : i = [kept |-> e, over |-> {e}]
    BY <2>2 DEF Item
  <2>3. QED
    BY <2>1, <2>2 DEF Quarantined
<1>3. its \in SUBSET Item /\ ItemEntries(its) \subseteq ItemEntries(items) \cup raws
  BY <1>2 DEF ItemEntries
<1>4. PICK top \in {WantFor(e, r) : e \in news \ (joiners \cup stopped)} \cup {w},
           late \in SUBSET (news \ (joiners \cup stopped)) :
           /\ want'     = [want EXCEPT ![n] = top]
           /\ deferred' = [deferred EXCEPT ![n] = waiting \cup late]
  BY <1>1 DEF Insert
<1>5. /\ top = w \/ \E e \in raws : Applies(e, r) /\ top = WantFor(e, r)
      /\ top \in Want
      /\ late \in SUBSET raws
  BY <1>4, WantForIsWant
<1> HIDE DEF news, joiners, its
<1>6. held' = [held EXCEPT ![n] = its]
  BY <1>1 DEF its
<1>7. QED
  BY <1>3, <1>4, <1>5, <1>6 DEF Admitted

-----------------------------------------------------------------------------
(* The kinds of step                                                          *)

\* What machine n has waiting, wanted, quarantined or acknowledged.
Inbox(n) ==
    {want[n].raw} \cup deferred[n] \cup frozen[n] \cup got[n]
    \cup ItemEntries(Quarantine(n))

LEMMA OutsideIsInbox ==
    \A n : Outside(n) = {kept[n]} \cup sent[n] \cup Inbox(n)
  BY DEF Outside, Inbox

InboxTyped ==
    /\ want     \in [Node -> Want]
    /\ deferred \in [Node -> SUBSET Entry]
    /\ frozen   \in [Node -> SUBSET Entry]
    /\ held     \in [Node -> SUBSET Item]
    /\ denied   \in [Node -> SUBSET Item]
    /\ got      \in [Node -> SUBSET Entry]

\* The want is gone, or is what it was for a record that did not move, or was
\* resolved against the record the step leaves.
WantMoves(n, extra) ==
    \/ want'[n] = NoWant
    \/ /\ record'[n] = record[n]
       /\ want'[n].entry = want[n].entry
       /\ want'[n].state # "none" => want[n].state # "none"
    \/ \E e \in Outside(n) \cup extra :
          /\ Applies(e, record'[n])
          /\ want'[n].entry = Resolved(e, record'[n])

\* The step moves entries around n's inbox; only those in extra are new to it.
InboxMoves(n, extra) ==
    /\ InboxTyped'
    /\ \A m \in Node \ {n} :
          /\ want'[m] = want[m] /\ deferred'[m] = deferred[m]
          /\ frozen'[m] = frozen[m] /\ held'[m] = held[m]
          /\ denied'[m] = denied[m] /\ got'[m] = got[m]
    /\ Inbox(n)' \subseteq Outside(n) \cup {Absent} \cup extra
    /\ WantMoves(n, extra)

FlagsTyped ==
    /\ fresh     \in [Node -> BOOLEAN]
    /\ keptFresh \in [Node -> BOOLEAN]
    /\ paused    \in [Node -> BOOLEAN]

\* The record stays; entries may have come in.
Quiet(n) ==
    /\ UNCHANGED <<record, pending, kept, sent, made>>
    /\ FlagsTyped'
    /\ \E extra \in SUBSET UNION {sent[m] : m \in Node} : InboxMoves(n, extra)

\* e is a change of n made on top of some of the entries n has: it outranks
\* them all and counts one more change of n.
NewChange(n, e) ==
    /\ e.body.by = n
    /\ e.version[n] = record[n].version[n] + 1
    /\ \A k \in Node : record[n].version[k] <= e.version[k]
    /\ \E from \in SUBSET Carried(n) :
          /\ \A k \in Node \ {n} : \E x \in from : e.version[k] <= x.version[k]
          /\ record[n] \in from \/ record[n].version = Empty
          /\ \A x \in from : x.version # Empty => x.body.stamp < e.body.stamp

Changed(n) ==
    /\ \E e \in Entry :
          /\ NewChange(n, e)
          /\ Write(n, e)
    /\ UNCHANGED sent
    /\ FlagsTyped'
    /\ InboxMoves(n, {})

\* The record becomes the wanted entry, which covers it.
Taken(n) ==
    /\ DominatesOrEquals(want[n].entry.version, record[n].version)
    /\ record' = [record EXCEPT ![n] = want[n].entry]
    /\ ClearPending(n)
    /\ UNCHANGED <<sent, made>>
    /\ FlagsTyped'
    /\ InboxMoves(n, {})

\* The record stays, may be announced, and is no longer to be reverted.
Announced(n) ==
    /\ UNCHANGED <<record, made>>
    /\ ClearPending(n)
    /\ sent' = sent \/ sent' = [sent EXCEPT ![n] = @ \cup {record[n]}]
    /\ FlagsTyped'
    /\ InboxMoves(n, {})

\* The record peers last saw comes back.
Reverted(n) ==
    /\ pending[n]
    /\ record' = [record EXCEPT ![n] = kept[n]]
    /\ ClearPending(n)
    /\ made' = {c \in made : c.node = n => c.count <= kept[n].version[n]}
    /\ UNCHANGED sent
    /\ FlagsTyped'
    /\ InboxMoves(n, {})

OneOfTheKinds(n) == Quiet(n) \/ Changed(n) \/ Taken(n) \/ Announced(n) \/ Reverted(n)

\* An admission moves the inbox of the machine that admits.
LEMMA AdmitMovesInbox ==
    ASSUME TypeOK, NEW n \in Node, NEW extra \in SUBSET Entry,
           NEW raws \in SUBSET (Outside(n) \cup extra), NEW r \in Entry, r = record'[n],
           NEW w \in Want, NEW items \in SUBSET Quarantine(n),
           NEW waiting \in SUBSET (Outside(n) \cup extra), NEW brake,
           \/ w = NoWant
           \/ /\ record'[n] = record[n] /\ w.raw = want[n].raw
              /\ w.entry = want[n].entry
              /\ w.state # "none" => want[n].state # "none",
           Admit(n, raws, r, w, items, waiting, brake),
           \E f \in SUBSET (Outside(n) \cup extra) : frozen' = [frozen EXCEPT ![n] = f],
           \E d \in SUBSET Quarantine(n) : denied' = [denied EXCEPT ![n] = d],
           \E g \in SUBSET extra : got' = [got EXCEPT ![n] = got[n] \cup g]
    PROVE  InboxMoves(n, extra)
<1>1. /\ want \in [Node -> Want] /\ deferred \in [Node -> SUBSET Entry]
      /\ frozen \in [Node -> SUBSET Entry] /\ held \in [Node -> SUBSET Item]
      /\ denied \in [Node -> SUBSET Item] /\ got \in [Node -> SUBSET Entry]
      /\ kept[n] \in Entry /\ sent[n] \in SUBSET Entry
  BY DEF TypeOK
<1>2. Quarantine(n) \subseteq Item /\ items \in SUBSET Item
  BY <1>1 DEF Quarantine
<1>3. ItemEntries(Quarantine(n)) \subseteq Entry
  BY <1>2 DEF ItemEntries, Item
<1>4. Outside(n) \subseteq Entry
  BY <1>1, <1>3 DEF Outside, Want
<1>5. Admitted(n, raws, r, w, items, waiting)
  BY <1>2, <1>4, AdmitFacts
<1>6. PICK t \in Want, late \in SUBSET raws, its \in SUBSET Item :
        /\ want'     = [want EXCEPT ![n] = t]
        /\ deferred' = [deferred EXCEPT ![n] = waiting \cup late]
        /\ held'     = [held EXCEPT ![n] = its]
        /\ \/ t = w
           \/ \E e \in raws : Applies(e, r) /\ t = WantFor(e, r)
        /\ ItemEntries(its) \subseteq ItemEntries(items) \cup raws
  BY <1>5 DEF Admitted
<1>7. PICK f \in SUBSET (Outside(n) \cup extra) : frozen' = [frozen EXCEPT ![n] = f]
  OBVIOUS
<1>8. PICK d \in SUBSET Quarantine(n) : denied' = [denied EXCEPT ![n] = d]
  OBVIOUS
<1>9. PICK g \in SUBSET extra : got' = [got EXCEPT ![n] = got[n] \cup g]
  OBVIOUS
<1>10. InboxTyped'
  <2>1. want' \in [Node -> Want] /\ held' \in [Node -> SUBSET Item]
    BY <1>1, <1>6
  <2>2. deferred' \in [Node -> SUBSET Entry]
    BY <1>1, <1>4, <1>6
  <2>3. frozen' \in [Node -> SUBSET Entry] /\ got' \in [Node -> SUBSET Entry]
    BY <1>1, <1>4, <1>7, <1>9
  <2>4. denied' \in [Node -> SUBSET Item]
    BY <1>1, <1>2, <1>8
  <2>5. QED
    BY <2>1, <2>2, <2>3, <2>4 DEF InboxTyped
<1>11. \A m \in Node \ {n} :
          /\ want'[m] = want[m] /\ deferred'[m] = deferred[m]
          /\ frozen'[m] = frozen[m] /\ held'[m] = held[m]
          /\ denied'[m] = denied[m] /\ got'[m] = got[m]
  BY <1>1, <1>6, <1>7, <1>8, <1>9
<1>12. /\ want'[n] = t /\ deferred'[n] = waiting \cup late /\ frozen'[n] = f
       /\ got'[n] = got[n] \cup g /\ held'[n] = its /\ denied'[n] = d
  BY <1>1, <1>6, <1>7, <1>8, <1>9
<1>13. t.raw \in Outside(n) \cup {Absent} \cup extra
  <2>1. CASE t = NoWant
    BY <2>1 DEF NoWant
  <2>2. CASE t = w /\ w.raw = want[n].raw
    BY <2>2 DEF Outside
  <2>3. CASE \E e \in raws : t = WantFor(e, r)
    BY <2>3 DEF WantFor
  <2>4. QED
    BY <1>6, <2>1, <2>2, <2>3
<1>14. ItemEntries(its \cup d) \subseteq Outside(n) \cup extra
  <2>1. ItemEntries(Quarantine(n)) \subseteq Outside(n)
    BY DEF Outside
  <2>2. ItemEntries(its) \subseteq Outside(n) \cup extra
    BY <1>6, <2>1 DEF ItemEntries
  <2>3. ItemEntries(d) \subseteq Outside(n)
    BY <2>1 DEF ItemEntries
  <2>4. QED
    BY <2>2, <2>3 DEF ItemEntries
<1>15. Inbox(n)' \subseteq Outside(n) \cup {Absent} \cup extra
  <2>1. Inbox(n)' = {t.raw} \cup (waiting \cup late) \cup f \cup (got[n] \cup g)
                    \cup ItemEntries(its \cup d)
    BY <1>12 DEF Inbox, Quarantine, ItemEntries
  <2>2. got[n] \subseteq Outside(n)
    BY DEF Outside
  <2>3. QED
    BY <1>13, <1>14, <2>1, <2>2
<1>16. WantMoves(n, extra)
  <2>1. CASE t = NoWant
    BY <2>1, <1>12 DEF WantMoves
  <2>2. CASE t = w /\ w # NoWant
    BY <2>2, <1>12 DEF WantMoves
  <2>3. CASE \E e \in raws : Applies(e, r) /\ t = WantFor(e, r)
    BY <2>3, <1>12 DEF WantMoves, WantFor
  <2>4. QED
    BY <1>6, <2>1, <2>2, <2>3
<1>17. QED
  BY <1>10, <1>11, <1>15, <1>16 DEF InboxMoves

-----------------------------------------------------------------------------
(* Which action is of which kind                                              *)

LEMMA TypesOf ==
    ASSUME TypeOK, NEW n \in Node
    PROVE  /\ record[n] \in Entry /\ kept[n] \in Entry /\ want[n] \in Want
           /\ want[n].raw \in Entry /\ want[n].entry \in Entry
           /\ deferred[n] \in SUBSET Entry /\ frozen[n] \in SUBSET Entry
           /\ held[n] \in SUBSET Item /\ denied[n] \in SUBSET Item
           /\ Outside(n) \subseteq Entry /\ Carried(n) \subseteq Entry
           /\ \A m \in Node : sent[m] \in SUBSET Entry
           /\ RawWant(n) \subseteq Outside(n)
<1>1. /\ record[n] \in Entry /\ kept[n] \in Entry /\ want[n] \in Want
      /\ deferred[n] \in SUBSET Entry /\ frozen[n] \in SUBSET Entry
      /\ held[n] \in SUBSET Item /\ denied[n] \in SUBSET Item
      /\ got[n] \in SUBSET Entry /\ \A m \in Node : sent[m] \in SUBSET Entry
  BY DEF TypeOK
<1>2. want[n].raw \in Entry /\ want[n].entry \in Entry
  BY <1>1 DEF Want
<1>3. ItemEntries(Quarantine(n)) \subseteq Entry
  BY <1>1 DEF ItemEntries, Item, Quarantine
<1>4. Outside(n) \subseteq Entry /\ Carried(n) \subseteq Entry
  BY <1>1, <1>2, <1>3 DEF Outside, Carried
<1>5. RawWant(n) \subseteq Outside(n)
  BY DEF RawWant, Outside
<1>6. QED
  BY <1>1, <1>2, <1>4, <1>5

LEMMA ChangeMovesOn ==
    ASSUME TypeOK, NEW n \in Node, CanChange(n)
    PROVE  LET v == Incremented(record[n].version, n)
           IN  /\ v \in Version
               /\ v[n] = record[n].version[n] + 1
               /\ \A k \in Node : record[n].version[k] <= v[k]
               /\ \A k \in Node \ {n} : v[k] <= record[n].version[k]
<1>1. record[n].version \in Version
  BY TypesOf DEF Entry
<1>2. \A k \in Node : record[n].version[k] \in Int
  BY <1>1, Counters
<1>3. QED
  BY <1>1, <1>2, IncrementedVersion DEF CanChange

LEMMA StampsRise ==
    ASSUME TypeOK, NEW n \in Node, NEW mtime \in Mtimes, NEW changed \in BOOLEAN
    PROVE  /\ StampFor(n, mtime, changed) \in Int
           /\ record[n].version # Empty =>
                 record[n].body.stamp < StampFor(n, mtime, changed)
<1>1. record[n].body.stamp \in Int /\ mtime \in Int
  BY TypesOf, InputAssumption DEF Entry, Body
<1>2. QED
  BY <1>1 DEF StampFor

LEMMA AnnouncedHashIsHash ==
    ASSUME TypeOK, NEW n \in Node
    PROVE  AnnouncedHash(n) \in Nat
<1>1. record[n].body.hash \in Nat /\ kept[n].body.hash \in Nat
  BY TypesOf DEF Entry, Body
<1>2. QED
  BY <1>1 DEF AnnouncedHash

\* What a scan or the watcher records of a file is a new change.
LEMMA ObservedIsNew ==
    ASSUME TypeOK, NEW n \in Node, CanChange(n),
           NEW hash \in Hashes, NEW exec \in Execs, NEW mtime \in Mtimes
    PROVE  Observed(n, hash, exec, mtime) \in Entry
           /\ NewChange(n, Observed(n, hash, exec, mtime))
<1> DEFINE e == Observed(n, hash, exec, mtime)
<1>1. /\ e.version = Incremented(record[n].version, n)
      /\ e.body.by = n
      /\ e.body.stamp = StampFor(n, mtime, hash # AnnouncedHash(n))
  BY DEF Observed
<1>2. e \in Entry
  <2>1. Incremented(record[n].version, n) \in Version
    BY ChangeMovesOn
  <2>2. StampFor(n, mtime, hash # AnnouncedHash(n)) \in Int
    BY StampsRise
  <2>3. hash \in Nat /\ exec \in BOOLEAN /\ mtime \in Int /\ n \in Nat
    BY InputAssumption, NodeAssumption
  <2>4. QED
    BY <2>1, <2>2, <2>3, AnnouncedHashIsHash DEF Observed, Entry, Body
<1>3. record[n].version # Empty => record[n].body.stamp < e.body.stamp
  BY <1>1, StampsRise
<1>4. /\ e.version[n] = record[n].version[n] + 1
      /\ \A k \in Node : record[n].version[k] <= e.version[k]
      /\ \A k \in Node \ {n} : e.version[k] <= record[n].version[k]
  BY <1>1, ChangeMovesOn
<1>5. {record[n]} \in SUBSET Carried(n)
  BY DEF Carried
<1> HIDE DEF e
<1>6. NewChange(n, e)
  BY <1>1, <1>3, <1>4, <1>5 DEF NewChange
<1>7. QED
  BY <1>2, <1>6 DEF e

\* So is what it records of a file that is gone.
LEMMA TombstoneIsNew ==
    ASSUME TypeOK, NEW n \in Node, CanChange(n), NEW at \in Mtimes
    PROVE  Tombstone(n, at) \in Entry /\ NewChange(n, Tombstone(n, at))
<1> DEFINE e == Tombstone(n, at)
<1>1. /\ e.version = Incremented(record[n].version, n)
      /\ e.body.by = n
      /\ e.body.stamp = record[n].body.stamp + 1
  BY DEF Tombstone
<1>2. record[n].body.stamp \in Int /\ at \in Int /\ n \in Nat
  BY TypesOf, InputAssumption, NodeAssumption DEF Entry, Body
<1>3. e \in Entry
  <2>1. Incremented(record[n].version, n) \in Version
    BY ChangeMovesOn
  <2>2. QED
    BY <2>1, <1>2, AnnouncedHashIsHash DEF Tombstone, Entry, Body, NoContent
<1>4. record[n].body.stamp < e.body.stamp
  BY <1>1, <1>2
<1>5. /\ e.version[n] = record[n].version[n] + 1
      /\ \A k \in Node : record[n].version[k] <= e.version[k]
      /\ \A k \in Node \ {n} : e.version[k] <= record[n].version[k]
  BY <1>1, ChangeMovesOn
<1>6. {record[n]} \in SUBSET Carried(n)
  BY DEF Carried
<1> HIDE DEF e
<1>7. NewChange(n, e)
  BY <1>1, <1>4, <1>5, <1>6 DEF NewChange
<1>8. QED
  BY <1>3, <1>7 DEF e

\* Writing a change keeps the flags' types.
LEMMA WriteTyped ==
    ASSUME TypeOK, NEW n \in Node, NEW e \in Entry, Write(n, e), UNCHANGED paused
    PROVE  FlagsTyped' /\ record'[n] = e
<1>1. /\ fresh \in [Node -> BOOLEAN] /\ keptFresh \in [Node -> BOOLEAN]
      /\ paused \in [Node -> BOOLEAN] /\ pending \in [Node -> BOOLEAN]
      /\ record \in [Node -> Entry]
  BY DEF TypeOK
<1>2. fresh' \in [Node -> BOOLEAN] /\ record'[n] = e
  BY <1>1 DEF Write
<1>3. (IF pending[n] THEN keptFresh[n] ELSE fresh[n]) \in BOOLEAN
  BY <1>1
<1>4. keptFresh' \in [Node -> BOOLEAN]
  BY <1>1, <1>3 DEF Write
<1>5. QED
  BY <1>1, <1>2, <1>4 DEF FlagsTyped

LEMMA LocalChangeKind ==
    ASSUME TypeOK, NEW n \in Node, NEW e \in Entry, NewChange(n, e), LocalChange(n, e)
    PROVE  Changed(n)
<1>1. /\ Write(n, e) /\ UNCHANGED <<paused, frozen, denied, sent, got>>
      /\ Admit(n, RawWant(n) \cup deferred[n], e, NoWant, held[n], {}, n \in Braking)
  BY DEF LocalChange
<1>2. FlagsTyped' /\ record'[n] = e
  BY <1>1, WriteTyped
<1>3. RawWant(n) \cup deferred[n] \in SUBSET (Outside(n) \cup {})
  BY TypesOf DEF Outside
<1>4. held[n] \in SUBSET Quarantine(n) /\ denied[n] \in SUBSET Quarantine(n)
  BY DEF Quarantine
<1>5. /\ frozen' = [frozen EXCEPT ![n] = frozen[n]]
      /\ denied' = [denied EXCEPT ![n] = denied[n]]
      /\ got' = [got EXCEPT ![n] = got[n] \cup {}]
      /\ frozen[n] \in SUBSET (Outside(n) \cup {})
  BY <1>1 DEF TypeOK, Outside
<1>6. /\ \E f \in SUBSET (Outside(n) \cup {}) : frozen' = [frozen EXCEPT ![n] = f]
      /\ \E d \in SUBSET Quarantine(n) : denied' = [denied EXCEPT ![n] = d]
      /\ \E g \in SUBSET {} : got' = [got EXCEPT ![n] = got[n] \cup g]
  BY <1>4, <1>5
<1>7. {} \in SUBSET Entry /\ {} \in SUBSET (Outside(n) \cup {})
  OBVIOUS
<1>8. InboxMoves(n, {})
  BY <1>1, <1>2, <1>3, <1>4, <1>6, <1>7, AdmitMovesInbox, NoWantIsWant
<1>9. QED
  BY <1>1, <1>2, <1>8 DEF Changed

LEMMA OrderAntisymmetric ==
    ASSUME NEW a \in Int, NEW b \in Int, a <= b, b <= a
    PROVE  a = b
  OBVIOUS

\* A deny is a new change on top of every quarantined version at the path.
LEMMA DenyIsNew ==
    ASSUME TypeOK, OwnHighest, NEW n \in Node, CanChange(n),
           NEW at \in Mtimes, NEW past, NEW v, NEW top,
           past = BumpedOver(n),
           v \in [Node -> {e.version[k] : e \in past, k \in Node}],
           top \in {e.body.stamp : e \in past},
           IsCeiling(v, top, past)
    PROVE  /\ Bumped(n, v, top, at) \in Entry
           /\ NewChange(n, Bumped(n, v, top, at))
           /\ \A k \in Node : \A x \in past :
                 x.version[k] <= Bumped(n, v, top, at).version[k]
           /\ \A k \in Node \ {n} : \E x \in past :
                 Bumped(n, v, top, at).version[k] <= x.version[k]
<1> DEFINE b == Bumped(n, v, top, at)
<1>1. past \in SUBSET Carried(n) /\ past \subseteq Entry
  <2>1. UNION {j.over : j \in held[n]} \subseteq Outside(n)
    BY DEF Outside, Quarantine, ItemEntries
  <2>2. QED
    BY <2>1, TypesOf DEF Carried, BumpedOver
<1>2. record[n] \in Entry /\ record[n].version \in Version
  BY TypesOf DEF Entry
<1>3. \A x \in past : x.version \in Version /\ x.body.stamp \in Int
  BY <1>1 DEF Entry, Body
<1>4. v \in Version
  BY <1>3, Counters DEF Version
<1>5. top \in Int
  BY <1>3
<1>6. ASSUME NEW k \in Node
      PROVE  record[n].version[k] <= v[k]
  <2>1. CASE record[n].version = Empty
    <3>1. record[n].version[k] = 0
      BY <2>1 DEF Empty
    <3>2. 0 <= v[k]
      BY <1>4, Counters
    <3>3. QED
      BY <3>1, <3>2
  <2>2. CASE record[n].version # Empty
    BY <2>2 DEF IsCeiling, BumpedOver
  <2>3. QED
    BY <2>1, <2>2
<1>7. v[n] = record[n].version[n]
  <2>1. PICK x \in past : x.version[n] = v[n]
    BY DEF IsCeiling
  <2>2. x.version[n] <= record[n].version[n]
    BY <1>1, <2>1 DEF OwnHighest
  <2>3. v[n] \in Int /\ record[n].version[n] \in Int
    BY <1>2, <1>4, Counters
  <2>4. record[n].version[n] <= v[n] /\ v[n] <= record[n].version[n]
    BY <1>6, <2>1, <2>2
  <2>5. QED
    BY <2>3, <2>4, OrderAntisymmetric
<1>8. /\ b.version = Incremented(v, n) /\ b.body.by = n /\ b.body.stamp = top + 1
  BY DEF Bumped
<1>9. /\ b.version \in Version
      /\ b.version[n] = record[n].version[n] + 1
      /\ \A k \in Node : v[k] <= b.version[k]
      /\ \A k \in Node \ {n} : b.version[k] = v[k]
  <2>1. v[n] < MaxCounter
    BY <1>7 DEF CanChange
  <2>2. /\ Incremented(v, n) \in Version
        /\ \A k \in Node : v[k] <= Incremented(v, n)[k]
        /\ \A k \in Node \ {n} : Incremented(v, n)[k] = v[k]
        /\ Incremented(v, n)[n] = v[n] + 1
    BY <1>4, <2>1, IncrementedVersion
  <2>3. QED
    BY <1>7, <1>8, <2>2
<1>10. b \in Entry
  <2>1. /\ record[n].body.deleted \in BOOLEAN /\ record[n].body.hash \in Nat
        /\ record[n].body.exec \in BOOLEAN /\ record[n].body.mtime \in Int
    BY <1>2 DEF Entry, Body
  <2>2. at \in Int /\ n \in Nat /\ top + 1 \in Int
    BY <1>5, InputAssumption, NodeAssumption
  <2>3. (IF record[n].version = Empty THEN at ELSE record[n].body.mtime) \in Int
    BY <2>1, <2>2
  <2>4. b.body \in Body
    BY <2>1, <2>2, <2>3, AnnouncedHashIsHash DEF Bumped, Body
  <2>5. QED
    BY <1>9, <2>4 DEF Bumped, Entry
<1> HIDE DEF b
<1>11. ASSUME NEW k \in Node
       PROVE  record[n].version[k] <= b.version[k]
  <2>1. record[n].version[k] \in Int /\ v[k] \in Int /\ b.version[k] \in Int
    BY <1>2, <1>4, <1>9, Counters
  <2>2. QED
    BY <1>6, <1>9, <2>1
<1>12. ASSUME NEW k \in Node \ {n}
       PROVE  \E x \in past : b.version[k] <= x.version[k]
  <2>1. PICK x \in past : x.version[k] = v[k]
    BY DEF IsCeiling
  <2>2. b.version[k] = x.version[k] /\ x.version[k] \in Int
    BY <1>3, <1>9, <2>1, Counters
  <2>3. QED
    BY <2>2
<1>13. \A x \in past : x.body.stamp < b.body.stamp
  <2>1. \A x \in past : x.body.stamp <= top
    BY DEF IsCeiling
  <2>2. QED
    BY <1>3, <1>5, <1>8, <2>1
<1>14. record[n] \in past \/ record[n].version = Empty
  BY DEF BumpedOver
<1>15. NewChange(n, b)
  BY <1>1, <1>8, <1>9, <1>11, <1>12, <1>13, <1>14 DEF NewChange
<1>16. ASSUME NEW k \in Node, NEW x \in past
       PROVE  x.version[k] <= b.version[k]
  <2>1. x.version[k] <= v[k] /\ v[k] <= b.version[k]
    BY <1>9 DEF IsCeiling
  <2>2. x.version[k] \in Int /\ v[k] \in Int /\ b.version[k] \in Int
    BY <1>3, <1>4, <1>9, Counters
  <2>3. QED
    BY <2>1, <2>2
<1>17. QED
  BY <1>10, <1>12, <1>15, <1>16 DEF b

LEMMA BumpKind ==
    ASSUME TypeOK, NEW n \in Node, NEW i \in held[n],
           NEW e \in Entry, NewChange(n, e), Write(n, e),
           Admit(n, RawWant(n), e, NoWant, held[n] \ {i}, deferred[n], n \in Braking),
           denied' = [denied EXCEPT ![n] = @ \cup {i}],
           UNCHANGED <<paused, frozen, sent, got>>
    PROVE  Changed(n)
<1>1. FlagsTyped' /\ record'[n] = e
  BY WriteTyped
<1>2. RawWant(n) \in SUBSET (Outside(n) \cup {})
  BY TypesOf
<1>3. /\ held[n] \ {i} \in SUBSET Quarantine(n)
      /\ denied[n] \cup {i} \in SUBSET Quarantine(n)
  BY DEF Quarantine
<1>4. \E f \in SUBSET (Outside(n) \cup {}) : frozen' = [frozen EXCEPT ![n] = f]
  <2>1. frozen[n] \in SUBSET (Outside(n) \cup {})
    BY DEF Outside
  <2>2. frozen' = [frozen EXCEPT ![n] = frozen[n]]
    BY DEF TypeOK
  <2>3. QED
    BY <2>1, <2>2
<1>5. \E d \in SUBSET Quarantine(n) : denied' = [denied EXCEPT ![n] = d]
  BY <1>3
<1>6. \E g \in SUBSET {} : got' = [got EXCEPT ![n] = got[n] \cup g]
  <2>1. got' = [got EXCEPT ![n] = got[n] \cup {}]
    BY DEF TypeOK
  <2>2. QED
    BY <2>1
<1>7. {} \in SUBSET Entry /\ deferred[n] \in SUBSET (Outside(n) \cup {})
  BY DEF Outside
<1>8. InboxMoves(n, {})
  BY <1>1, <1>2, <1>3, <1>4, <1>5, <1>6, <1>7, AdmitMovesInbox, NoWantIsWant
<1>9. QED
  BY <1>1, <1>8 DEF Changed

LEMMA DenyKind ==
    ASSUME TypeOK, OwnHighest, NEW n \in Node, NEW i \in held[n], NEW at \in Mtimes,
           Deny(n, i, at)
    PROVE  Changed(n)
<1>1. /\ CanChange(n) /\ denied' = [denied EXCEPT ![n] = @ \cup {i}]
      /\ UNCHANGED <<paused, frozen, sent, got>>
  BY DEF Deny
<1>2. \E e \in Entry :
        /\ NewChange(n, e)
        /\ Write(n, e)
        /\ Admit(n, RawWant(n), e, NoWant, held[n] \ {i}, deferred[n], n \in Braking)
  <2>1. PICK v \in [Node -> {e.version[k] : e \in BumpedOver(n), k \in Node}],
             top \in {e.body.stamp : e \in BumpedOver(n)} :
             BumpOver(n, i, v, top, at)
    BY DEF Deny
  <2>2. IsCeiling(v, top, BumpedOver(n))
    BY <2>1 DEF BumpOver
  <2>3. Bumped(n, v, top, at) \in Entry /\ NewChange(n, Bumped(n, v, top, at))
    BY <1>1, <2>2, DenyIsNew
  <2>4. QED
    BY <2>1, <2>3 DEF BumpOver
<1>3. PICK e \in Entry :
        /\ NewChange(n, e)
        /\ Write(n, e)
        /\ Admit(n, RawWant(n), e, NoWant, held[n] \ {i}, deferred[n], n \in Braking)
  BY <1>2
<1>4. QED
  BY <1>1, <1>3, BumpKind

\* A step that leaves frozen, denied and got alone.
LEMMA InboxRest ==
    ASSUME TypeOK, NEW n \in Node, UNCHANGED <<frozen, denied, got>>
    PROVE  /\ \E f \in SUBSET (Outside(n) \cup {}) : frozen' = [frozen EXCEPT ![n] = f]
           /\ \E d \in SUBSET Quarantine(n) : denied' = [denied EXCEPT ![n] = d]
           /\ \E g \in SUBSET {} : got' = [got EXCEPT ![n] = got[n] \cup g]
<1>1. /\ frozen' = [frozen EXCEPT ![n] = frozen[n]]
      /\ denied' = [denied EXCEPT ![n] = denied[n]]
      /\ got' = [got EXCEPT ![n] = got[n] \cup {}]
  BY DEF TypeOK
<1>2. frozen[n] \in SUBSET (Outside(n) \cup {}) /\ denied[n] \in SUBSET Quarantine(n)
  BY DEF Outside, Quarantine
<1>3. QED
  BY <1>1, <1>2

\* An admission of entries the machine had, against the record it keeps.
LEMMA ReadmitKind ==
    ASSUME TypeOK, NEW n \in Node, NEW raws \in SUBSET Outside(n), NEW w \in Want,
           w.raw = want[n].raw, w.entry = want[n].entry,
           w.state # "none" => want[n].state # "none",
           NEW items \in SUBSET Quarantine(n), NEW waiting \in SUBSET Outside(n), NEW brake,
           Admit(n, raws, record[n], w, items, waiting, brake),
           UNCHANGED <<index, paused, frozen, denied, sent, got, made>>
    PROVE  Quiet(n)
<1>1. UNCHANGED <<record, fresh, pending, kept, keptFresh>>
  BY DEF index
<1>2. FlagsTyped'
  BY <1>1 DEF FlagsTyped, TypeOK
<1>3. {} \in SUBSET Entry /\ {} \in SUBSET UNION {sent[m] : m \in Node}
  OBVIOUS
<1>4. raws \in SUBSET (Outside(n) \cup {}) /\ waiting \in SUBSET (Outside(n) \cup {})
  OBVIOUS
<1>5. InboxMoves(n, {})
  <2>1. record[n] \in Entry /\ record[n] = record'[n]
    BY <1>1, TypesOf
  <2>2. QED
    BY <1>3, <1>4, <2>1, InboxRest, AdmitMovesInbox
<1>6. QED
  BY <1>1, <1>2, <1>3, <1>5 DEF Quiet

LEMMA ObserveUnchangedKind ==
    ASSUME TypeOK, NEW n \in Node, ObserveUnchanged(n)
    PROVE  Quiet(n)
<1>1. deferred[n] \in SUBSET Outside(n) /\ held[n] \in SUBSET Quarantine(n)
  BY DEF Outside, Quarantine
<1>2. want[n] \in Want /\ {} \in SUBSET Outside(n)
  BY TypesOf
<1>3. QED
  BY <1>1, <1>2, ReadmitKind DEF ObserveUnchanged

LEMMA CommitFailedKind ==
    ASSUME TypeOK, NEW n \in Node, CommitFailed(n)
    PROVE  Quiet(n)
<1> DEFINE w == [want[n] EXCEPT !.state = "wanted"]
<1>1. deferred[n] \in SUBSET Outside(n) /\ held[n] \in SUBSET Quarantine(n)
  BY DEF Outside, Quarantine
<1>2. /\ w \in Want /\ w.raw = want[n].raw /\ w.entry = want[n].entry
      /\ want[n].state # "none"
  BY TypesOf DEF Want, CommitFailed
<1>3. /\ Admit(n, deferred[n], record[n], w, held[n], {}, n \in Braking)
      /\ UNCHANGED <<index, paused, frozen, denied, sent, got, made>>
  BY DEF CommitFailed
<1>4. {} \in SUBSET Outside(n)
  OBVIOUS
<1> HIDE DEF w
<1>5. QED
  BY <1>1, <1>2, <1>3, <1>4, ReadmitKind

\* No news underneath a commit: the want ends and its raw entry waits.
LEMMA NoNewsKind ==
    ASSUME TypeOK, NEW n \in Node, NoNewsUnderneath(n)
    PROVE  Quiet(n)
<1>1. /\ want' = [want EXCEPT ![n] = NoWant]
      /\ deferred' = [deferred EXCEPT ![n] = deferred[n] \cup {want[n].raw}]
      /\ UNCHANGED <<index, paused, frozen, held, denied, sent, got, made>>
  BY DEF NoNewsUnderneath
<1>2. UNCHANGED <<record, fresh, pending, kept, keptFresh>>
  BY <1>1 DEF index
<1>3. FlagsTyped'
  BY <1>1, <1>2 DEF FlagsTyped, TypeOK
<1>4. /\ want'[n] = NoWant /\ deferred'[n] = deferred[n] \cup {want[n].raw}
      /\ \A m \in Node \ {n} : want'[m] = want[m] /\ deferred'[m] = deferred[m]
  BY <1>1 DEF TypeOK
<1>5. want[n].raw \in Entry /\ deferred[n] \in SUBSET Entry
  BY TypesOf
<1>6. InboxTyped'
  <2>1. want' \in [Node -> Want]
    BY <1>1, NoWantIsWant DEF TypeOK
  <2>2. deferred' \in [Node -> SUBSET Entry]
    BY <1>1, <1>5 DEF TypeOK
  <2>3. QED
    BY <1>1, <2>1, <2>2 DEF InboxTyped, TypeOK
<1>7. Inbox(n)' \subseteq Outside(n) \cup {Absent} \cup {}
  <2>1. Inbox(n)' = {NoWant.raw} \cup (deferred[n] \cup {want[n].raw}) \cup frozen[n]
                       \cup got[n] \cup ItemEntries(Quarantine(n))
    BY <1>1, <1>4 DEF Inbox, Quarantine
  <2>2. NoWant.raw = Absent
    BY DEF NoWant
  <2>3. Inbox(n) \subseteq Outside(n)
    BY OutsideIsInbox
  <2>4. QED
    BY <2>1, <2>2, <2>3 DEF Inbox
<1>8. WantMoves(n, {})
  BY <1>4 DEF WantMoves
<1>9. InboxMoves(n, {})
  BY <1>1, <1>4, <1>6, <1>7, <1>8 DEF InboxMoves
<1>10. QED
  BY <1>1, <1>2, <1>3, <1>9 DEF Quiet

LEMMA ApproveHeldKind ==
    ASSUME TypeOK, NEW n \in Node, NEW i \in held[n], ApproveHeld(n, i)
    PROVE  Quiet(n)
<1>1. /\ deferred[n] \in SUBSET Outside(n)
      /\ held[n] \ {i} \in SUBSET Quarantine(n)
      /\ {i.kept} \in SUBSET Outside(n)
  BY DEF Outside, Quarantine, ItemEntries
<1>2. want[n] \in Want
  BY TypesOf
<1>3. QED
  BY <1>1, <1>2, ReadmitKind DEF ApproveHeld

\* A step that changes at most the state of a want.
LEMMA WantStateKind ==
    ASSUME TypeOK, NEW n \in Node, NEW w \in Want,
           want' = [want EXCEPT ![n] = w], w.raw = want[n].raw, w.entry = want[n].entry,
           w.state # "none" => want[n].state # "none", FlagsTyped',
           UNCHANGED <<index, deferred, frozen, held, denied, sent, got, made>>
    PROVE  Quiet(n)
<1>1. UNCHANGED <<record, pending, kept>>
  BY DEF index
<1>2. want'[n] = w /\ \A m \in Node \ {n} : want'[m] = want[m]
  BY DEF TypeOK
<1>3. InboxTyped'
  BY DEF InboxTyped, TypeOK
<1>4. Inbox(n)' = Inbox(n)
  BY <1>2 DEF Inbox, Quarantine
<1>5. WantMoves(n, {})
  BY <1>1, <1>2 DEF WantMoves
<1>6. InboxMoves(n, {})
  BY <1>2, <1>3, <1>4, <1>5, OutsideIsInbox DEF InboxMoves
<1>7. QED
  BY <1>1, <1>6 DEF Quiet

LEMMA StartCommitKind ==
    ASSUME TypeOK, NEW n \in Node, StartCommit(n)
    PROVE  Quiet(n)
<1> DEFINE w == [want[n] EXCEPT !.state = "committing"]
<1>1. /\ w \in Want /\ w.raw = want[n].raw /\ w.entry = want[n].entry
      /\ want[n].state # "none"
  BY TypesOf DEF Want, StartCommit
<1>2. want' = [want EXCEPT ![n] = w]
  BY DEF StartCommit
<1>3. UNCHANGED <<index, paused, deferred, frozen, held, denied, sent, got, made>>
  BY DEF StartCommit
<1>4. FlagsTyped'
  BY <1>3 DEF FlagsTyped, TypeOK, index
<1> HIDE DEF w
<1>5. QED
  BY <1>1, <1>2, <1>3, <1>4, WantStateKind

LEMMA RestartKind ==
    ASSUME TypeOK, NEW n \in Node, Restart(n)
    PROVE  Quiet(n)
<1> DEFINE w == [want[n] EXCEPT !.state = "wanted"]
<1>1. /\ w \in Want /\ w.raw = want[n].raw /\ w.entry = want[n].entry
      /\ want[n].state # "none"
  BY TypesOf DEF Want, Restart
<1>2. want' = [want EXCEPT ![n] = w]
  BY DEF Restart
<1>3. UNCHANGED <<index, paused, deferred, frozen, held, denied, sent, got, made>>
  BY DEF Restart
<1>4. FlagsTyped'
  BY <1>3 DEF FlagsTyped, TypeOK, index
<1> HIDE DEF w
<1>5. QED
  BY <1>1, <1>2, <1>3, <1>4, WantStateKind

LEMMA PauseKind ==
    ASSUME TypeOK, NEW n \in Node, Pause(n)
    PROVE  Quiet(n)
<1>1. /\ UNCHANGED <<index, deferred, frozen, held, denied, sent, got, made>>
      /\ UNCHANGED want
  BY DEF Pause, inbox
<1>2. FlagsTyped'
  BY DEF Pause, FlagsTyped, TypeOK, index
<1>3. want' = [want EXCEPT ![n] = want[n]] /\ want[n] \in Want
  BY <1>1, TypesOf DEF TypeOK
<1>4. QED
  BY <1>1, <1>2, <1>3, WantStateKind

\* A received entry is the only new one; it is frozen or admitted.
LEMMA ReceiveKind ==
    ASSUME TypeOK, NEW n \in Node, NEW m \in Node, NEW e, Receive(n, m, e)
    PROVE  Quiet(n)
<1>1. /\ e \in sent[m] /\ got' = [got EXCEPT ![n] = got[n] \cup {e}]
      /\ UNCHANGED <<index, paused, denied, sent, made>>
  BY DEF Receive
<1>2. e \in Entry
  BY <1>1, TypesOf
<1>3. UNCHANGED <<record, fresh, pending, kept, keptFresh>>
  BY <1>1 DEF index
<1>4. FlagsTyped'
  BY <1>1, <1>3 DEF FlagsTyped, TypeOK
<1>5. {e} \in SUBSET Entry /\ {e} \in SUBSET UNION {sent[k] : k \in Node}
  BY <1>1, <1>2
<1>6. \E d \in SUBSET Quarantine(n) : denied' = [denied EXCEPT ![n] = d]
  BY <1>1 DEF TypeOK, Quarantine
<1>7. \E g \in SUBSET {e} : got' = [got EXCEPT ![n] = got[n] \cup g]
  BY <1>1
<1>8. CASE /\ frozen' = [frozen EXCEPT ![n] = @ \cup {e}]
           /\ UNCHANGED <<want, deferred, held>>
  <2>1. /\ frozen'[n] = frozen[n] \cup {e} /\ got'[n] = got[n] \cup {e}
        /\ \A k \in Node \ {n} : frozen'[k] = frozen[k] /\ got'[k] = got[k]
    BY <1>1, <1>8 DEF TypeOK
  <2>2. InboxTyped'
    BY <1>1, <1>2, <1>8 DEF InboxTyped, TypeOK
  <2>3. Inbox(n)' = Inbox(n) \cup {e}
    BY <1>1, <1>8, <2>1 DEF Inbox, Quarantine
  <2>4. WantMoves(n, {e})
    BY <1>3, <1>8 DEF WantMoves
  <2>5. InboxMoves(n, {e})
    BY <1>1, <1>8, <2>1, <2>2, <2>3, <2>4, OutsideIsInbox DEF InboxMoves
  <2>6. QED
    BY <1>1, <1>3, <1>4, <1>5, <2>5 DEF Quiet
<1>9. CASE /\ Admit(n, {e}, record[n], want[n], held[n], deferred[n], n \in Braking)
           /\ UNCHANGED frozen
  <2>1. \E f \in SUBSET (Outside(n) \cup {e}) : frozen' = [frozen EXCEPT ![n] = f]
    <3>1. frozen[n] \in SUBSET (Outside(n) \cup {e})
      BY DEF Outside
    <3>2. frozen' = [frozen EXCEPT ![n] = frozen[n]]
      BY <1>9 DEF TypeOK
    <3>3. QED
      BY <3>1, <3>2
  <2>2. /\ {e} \in SUBSET (Outside(n) \cup {e})
        /\ deferred[n] \in SUBSET (Outside(n) \cup {e})
        /\ held[n] \in SUBSET Quarantine(n)
    BY DEF Outside, Quarantine
  <2>3. record[n] \in Entry /\ record[n] = record'[n] /\ want[n] \in Want
    BY <1>3, TypesOf
  <2>4. InboxMoves(n, {e})
    BY <1>5, <1>6, <1>7, <1>9, <2>1, <2>2, <2>3, AdmitMovesInbox
  <2>5. QED
    BY <1>1, <1>3, <1>4, <1>5, <2>4 DEF Quiet
<1>10. QED
  BY <1>8, <1>9 DEF Receive

\* An adoption takes the wanted entry, or leaves the record that moved on.
LEMMA AdoptKind ==
    ASSUME TypeOK, NEW n \in Node, Adopt(n)
    PROVE  Quiet(n) \/ Taken(n)
<1>1. UNCHANGED <<paused, frozen, denied, sent, got, made>>
  BY DEF Adopt
<1>2. {} \in SUBSET Entry /\ held[n] \in SUBSET Quarantine(n)
  BY DEF Quarantine
<1>3. fresh' \in [Node -> BOOLEAN]
  <2>1. DominatesOrEquals(want[n].entry.version, record[n].version) \in BOOLEAN
    BY DEF DominatesOrEquals
  <2>2. QED
    BY <2>1 DEF Adopt, TypeOK
<1>4. CASE DominatesOrEquals(want[n].entry.version, record[n].version)
  <2>1. /\ record' = [record EXCEPT ![n] = want[n].entry]
        /\ ClearPending(n)
        /\ Admit(n, deferred[n], want[n].entry, NoWant, held[n], {}, n \in Braking)
    BY <1>4 DEF Adopt
  <2>2. record'[n] = want[n].entry /\ want[n].entry \in Entry
    BY <2>1, TypesOf DEF TypeOK
  <2>3. keptFresh' \in [Node -> BOOLEAN]
    BY <2>1 DEF ClearPending, TypeOK
  <2>4. FlagsTyped'
    BY <1>1, <1>3, <2>3 DEF FlagsTyped, TypeOK
  <2>5. deferred[n] \in SUBSET (Outside(n) \cup {}) /\ {} \in SUBSET (Outside(n) \cup {})
    BY DEF Outside
  <2>6. InboxMoves(n, {})
    BY <1>1, <1>2, <2>1, <2>2, <2>5, InboxRest, NoWantIsWant, AdmitMovesInbox
  <2>7. QED
    BY <1>1, <1>4, <2>1, <2>4, <2>6 DEF Taken
<1>5. CASE ~DominatesOrEquals(want[n].entry.version, record[n].version)
  <2>1. /\ record' = [record EXCEPT ![n] = record[n]]
        /\ UNCHANGED <<pending, kept, keptFresh>>
        /\ Admit(n, deferred[n] \cup {want[n].raw}, record[n], NoWant, held[n], {},
                 n \in Braking)
    BY <1>5 DEF Adopt
  <2>2. record' = record /\ record[n] \in Entry
    BY <2>1, TypesOf DEF TypeOK
  <2>3. FlagsTyped'
    BY <1>1, <1>3, <2>1 DEF FlagsTyped, TypeOK
  <2>4. /\ deferred[n] \cup {want[n].raw} \in SUBSET (Outside(n) \cup {})
        /\ {} \in SUBSET (Outside(n) \cup {})
    BY DEF Outside
  <2>5. InboxMoves(n, {})
    BY <1>1, <1>2, <2>1, <2>2, <2>4, InboxRest, NoWantIsWant, AdmitMovesInbox
  <2>6. QED
    BY <1>1, <1>2, <2>1, <2>2, <2>3, <2>5 DEF Quiet
<1>6. QED
  BY <1>4, <1>5

LEMMA ClearPendingTyped ==
    ASSUME TypeOK, NEW n \in Node, ClearPending(n)
    PROVE  keptFresh' \in [Node -> BOOLEAN]
  BY DEF ClearPending, TypeOK

LEMMA MarkAnnouncedSends ==
    ASSUME TypeOK, NEW n \in Node, MarkAnnounced(n)
    PROVE  /\ sent' = sent \/ sent' = [sent EXCEPT ![n] = @ \cup {record[n]}]
           /\ fresh' \in [Node -> BOOLEAN]
           /\ denied' = [denied EXCEPT ![n] = {}]
           /\ ClearPending(n)
<1>1. sent' = sent \/ sent' = [sent EXCEPT ![n] = @ \cup {record[n]}]
  <2>1. CASE fresh[n]
    BY <2>1 DEF MarkAnnounced
  <2>2. CASE ~fresh[n]
    BY <2>2 DEF MarkAnnounced, TypeOK
  <2>3. QED
    BY <2>1, <2>2
<1>2. fresh' \in [Node -> BOOLEAN]
  BY DEF MarkAnnounced, TypeOK
<1>3. QED
  BY <1>1, <1>2 DEF MarkAnnounced

LEMMA AnnounceKind ==
    ASSUME TypeOK, NEW n \in Node, Announce(n)
    PROVE  Announced(n)
<1>1. /\ MarkAnnounced(n)
      /\ UNCHANGED <<record, paused, want, deferred, frozen, held, got, made>>
  BY DEF Announce
<1>2. FlagsTyped'
  BY <1>1, MarkAnnouncedSends, ClearPendingTyped DEF FlagsTyped, TypeOK
<1>3. /\ denied'[n] = {} /\ denied' \in [Node -> SUBSET Item]
      /\ \A m \in Node \ {n} : denied'[m] = denied[m]
  BY <1>1, MarkAnnouncedSends DEF TypeOK
<1>4. InboxTyped'
  BY <1>1, <1>3 DEF InboxTyped, TypeOK
<1>5. Inbox(n)' \subseteq Inbox(n)
  BY <1>1, <1>3 DEF Inbox, Quarantine, ItemEntries
<1>6. WantMoves(n, {})
  BY <1>1 DEF WantMoves
<1>7. InboxMoves(n, {})
  BY <1>1, <1>3, <1>4, <1>5, <1>6, OutsideIsInbox DEF InboxMoves
<1>8. QED
  BY <1>1, <1>2, <1>7, MarkAnnouncedSends DEF Announced

LEMMA ApprovePausedKind ==
    ASSUME TypeOK, NEW n \in Node, ApprovePaused(n)
    PROVE  Announced(n)
<1>1. /\ MarkAnnounced(n)
      /\ paused' = [paused EXCEPT ![n] = FALSE]
      /\ frozen' = [frozen EXCEPT ![n] = {}]
      /\ Admit(n, frozen[n], record[n], want[n], held[n], deferred[n], n \in Braking)
      /\ UNCHANGED <<record, got, made>>
  BY DEF ApprovePaused, Unfreeze
<1>2. paused' \in [Node -> BOOLEAN]
  BY <1>1 DEF TypeOK
<1>3. FlagsTyped'
  BY <1>1, <1>2, MarkAnnouncedSends, ClearPendingTyped DEF FlagsTyped
<1>4. \E f \in SUBSET (Outside(n) \cup {}) : frozen' = [frozen EXCEPT ![n] = f]
  BY <1>1
<1>5. \E d \in SUBSET Quarantine(n) : denied' = [denied EXCEPT ![n] = d]
  BY <1>1, MarkAnnouncedSends
<1>6. \E g \in SUBSET {} : got' = [got EXCEPT ![n] = got[n] \cup g]
  <2>1. got' = [got EXCEPT ![n] = got[n] \cup {}]
    BY <1>1 DEF TypeOK
  <2>2. QED
    BY <2>1
<1>7. /\ frozen[n] \in SUBSET (Outside(n) \cup {}) /\ held[n] \in SUBSET Quarantine(n)
      /\ deferred[n] \in SUBSET (Outside(n) \cup {}) /\ {} \in SUBSET Entry
  BY DEF Outside, Quarantine
<1>8. record[n] \in Entry /\ record[n] = record'[n] /\ want[n] \in Want
  BY <1>1, TypesOf
<1>9. InboxMoves(n, {})
  BY <1>1, <1>4, <1>5, <1>6, <1>7, <1>8, AdmitMovesInbox
<1>10. QED
  BY <1>1, <1>3, <1>9, MarkAnnouncedSends DEF Announced

\* What a revert discards nobody else has; without a pending change it
\* discards nothing.
LEMMA RevertKind ==
    ASSUME TypeOK, OwnHighest, NEW n \in Node, Revert(n)
    PROVE  Announced(n) \/ Reverted(n)
<1> DEFINE back  == IF pending[n] THEN kept[n] ELSE record[n]
           stale == IF pending[n] THEN RawWant(n) ELSE {}
           still == IF pending[n] THEN NoWant ELSE want[n]
<1>1. /\ paused' = [paused EXCEPT ![n] = FALSE]
      /\ record' = [record EXCEPT ![n] = back]
      /\ fresh'  = [fresh EXCEPT ![n] = IF pending[n] THEN keptFresh[n] ELSE @]
      /\ ClearPending(n)
      /\ made'   = {c \in made : c.node = n => c.count <= back.version[n]}
      /\ denied' = [denied EXCEPT ![n] = {}]
      /\ frozen' = [frozen EXCEPT ![n] = {}]
      /\ Admit(n, stale \cup frozen[n], back, still, held[n] \cup denied[n], deferred[n],
               n \in Braking)
      /\ UNCHANGED <<sent, got>>
  BY DEF Revert, Unfreeze
<1>2. FlagsTyped'
  <2>1. (IF pending[n] THEN keptFresh[n] ELSE fresh[n]) \in BOOLEAN
    BY DEF TypeOK
  <2>2. fresh' \in [Node -> BOOLEAN] /\ paused' \in [Node -> BOOLEAN]
    BY <1>1, <2>1 DEF TypeOK
  <2>3. QED
    BY <1>1, <2>2, ClearPendingTyped DEF FlagsTyped
<1>3. back \in Entry /\ record'[n] = back
  BY <1>1, TypesOf DEF TypeOK
<1>4. still \in Want /\ stale \in SUBSET Outside(n)
  BY TypesOf, NoWantIsWant
<1>5. \/ still = NoWant
      \/ /\ record'[n] = record[n] /\ still.raw = want[n].raw
         /\ still.entry = want[n].entry
         /\ still.state # "none" => want[n].state # "none"
  BY <1>3
<1>6. \E f \in SUBSET (Outside(n) \cup {}) : frozen' = [frozen EXCEPT ![n] = f]
  BY <1>1
<1>7. \E d \in SUBSET Quarantine(n) : denied' = [denied EXCEPT ![n] = d]
  BY <1>1
<1>8. \E g \in SUBSET {} : got' = [got EXCEPT ![n] = got[n] \cup g]
  <2>1. got' = [got EXCEPT ![n] = got[n] \cup {}]
    BY <1>1 DEF TypeOK
  <2>2. QED
    BY <2>1
<1>9. /\ stale \cup frozen[n] \in SUBSET (Outside(n) \cup {})
      /\ deferred[n] \in SUBSET (Outside(n) \cup {})
      /\ held[n] \cup denied[n] \in SUBSET Quarantine(n) /\ {} \in SUBSET Entry
  BY <1>4 DEF Outside, Quarantine
<1>10. Admit(n, stale \cup frozen[n], back, still, held[n] \cup denied[n], deferred[n],
             n \in Braking)
  BY <1>1
<1> HIDE DEF back, stale, still
<1>11. InboxMoves(n, {})
  BY <1>3, <1>4, <1>5, <1>6, <1>7, <1>8, <1>9, <1>10, AdmitMovesInbox
<1>12. CASE pending[n]
  BY <1>1, <1>2, <1>11, <1>12 DEF Reverted, back
<1>13. CASE ~pending[n]
  <2>1. record' = record
    BY <1>1, <1>13 DEF back, TypeOK
  <2>2. made' = made
    BY <1>1, <1>13 DEF back, OwnHighest
  <2>3. QED
    BY <1>1, <1>2, <1>11, <2>1, <2>2 DEF Announced
<1>14. QED
  BY <1>12, <1>13

\* A step of machine n, the handlers of the engine one by one.
StepOf(n) ==
    \/ \E hash \in Hashes, exec \in Execs, mtime \in Mtimes :
          Observe(n, hash, exec, mtime) \/ ChangedUnderneath(n, hash, exec, mtime)
    \/ \E at \in Mtimes : ObserveAbsent(n, at) \/ VanishedUnderneath(n, at)
    \/ ObserveUnchanged(n) \/ StartCommit(n) \/ Applied(n) \/ AdoptIndexOnly(n)
    \/ NoNewsUnderneath(n) \/ CommitFailed(n) \/ Restart(n) \/ Announce(n) \/ Pause(n)
    \/ \E m \in Node : \E e \in sent[m] : Receive(n, m, e)
    \/ ApprovePaused(n) \/ Revert(n)
    \/ \E i \in held[n] : ApproveHeld(n, i)
    \/ \E i \in held[n], at \in Mtimes : Deny(n, i, at)

\* Every step is of one of the five kinds.
LEMMA StepKind ==
    ASSUME TypeOK, OwnHighest, NEW n \in Node, StepOf(n)
    PROVE  OneOfTheKinds(n)
<1>2. ASSUME NEW hash \in Hashes, NEW exec \in Execs, NEW mtime \in Mtimes,
             Observe(n, hash, exec, mtime) \/ ChangedUnderneath(n, hash, exec, mtime)
      PROVE  Changed(n)
  <2>1. CanChange(n) /\ LocalChange(n, Observed(n, hash, exec, mtime))
    BY <1>2 DEF Observe, ChangedUnderneath, CanEdit
  <2>2. QED
    BY <2>1, ObservedIsNew, LocalChangeKind
<1>3. ASSUME NEW at \in Mtimes, ObserveAbsent(n, at) \/ VanishedUnderneath(n, at)
      PROVE  Changed(n)
  <2>1. CanChange(n) /\ LocalChange(n, Tombstone(n, at))
    BY <1>3 DEF ObserveAbsent, VanishedUnderneath, CanEdit
  <2>2. QED
    BY <2>1, TombstoneIsNew, LocalChangeKind
<1>4. ASSUME \/ ObserveUnchanged(n) \/ StartCommit(n) \/ NoNewsUnderneath(n)
             \/ CommitFailed(n) \/ Restart(n) \/ Pause(n)
      PROVE  Quiet(n)
  BY <1>4, ObserveUnchangedKind, StartCommitKind, NoNewsKind, CommitFailedKind,
     RestartKind, PauseKind
<1>5. ASSUME NEW m \in Node, NEW e \in sent[m], Receive(n, m, e)
      PROVE  Quiet(n)
  BY <1>5, ReceiveKind
<1>6. ASSUME NEW i \in held[n], ApproveHeld(n, i)
      PROVE  Quiet(n)
  BY <1>6, ApproveHeldKind
<1>7. ASSUME Applied(n) \/ AdoptIndexOnly(n)
      PROVE  Quiet(n) \/ Taken(n)
  BY <1>7, AdoptKind DEF Applied, AdoptIndexOnly
<1>8. ASSUME Announce(n) \/ ApprovePaused(n) \/ Revert(n)
      PROVE  Announced(n) \/ Reverted(n)
  BY <1>8, AnnounceKind, ApprovePausedKind, RevertKind
<1>9. ASSUME NEW i \in held[n], NEW at \in Mtimes, Deny(n, i, at)
      PROVE  Changed(n)
  BY <1>9, DenyKind
<1>10. QED
  BY <1>2, <1>3, <1>4, <1>5, <1>6, <1>7, <1>8, <1>9 DEF StepOf, OneOfTheKinds

LEMMA StepKinds ==
    ASSUME TypeOK, OwnHighest, Next
    PROVE  \E n \in Node : OneOfTheKinds(n)
<1>1. PICK n \in Node : StepOf(n)
  BY DEF Next, StepOf
<1>2. QED
  BY <1>1, StepKind

-----------------------------------------------------------------------------
(* What a machine carries after a step                                        *)

\* The steps' effect on what other machines carry, and on what n has besides
\* its record and its want.
LEMMA CarriedElsewhere ==
    ASSUME NEW n \in Node, NEW extra, InboxMoves(n, extra), NEW m \in Node \ {n},
           record'[m] = record[m], kept'[m] = kept[m], sent'[m] = sent[m]
    PROVE  Outside(m)' = Outside(m) /\ Carried(m)' = Carried(m)
<1>1. /\ want'[m] = want[m] /\ deferred'[m] = deferred[m]
      /\ frozen'[m] = frozen[m] /\ held'[m] = held[m]
      /\ denied'[m] = denied[m] /\ got'[m] = got[m]
  BY DEF InboxMoves
<1>2. Outside(m)' = Outside(m)
  BY <1>1 DEF Outside, Quarantine
<1>3. QED
  BY <1>1, <1>2 DEF Carried

LEMMA OutsideAfter ==
    ASSUME NEW n \in Node, NEW extra, InboxMoves(n, extra)
    PROVE  Outside(n)' \subseteq
             Outside(n) \cup {Absent, kept'[n]} \cup extra \cup sent'[n]
<1>1. Outside(n)' = {kept'[n]} \cup sent'[n] \cup Inbox(n)'
  BY DEF Outside, Inbox, Quarantine
<1>2. QED
  BY <1>1 DEF InboxMoves

\* A set that resolving does not leave, and that has all n had and got, has
\* all n carries after the step.
LEMMA CarriedAfter ==
    ASSUME NEW n \in Node, NEW extra, InboxMoves(n, extra), NEW S,
           Absent \in S, extra \subseteq S, Outside(n) \subseteq S, sent'[n] \subseteq S,
           record'[n] \in S, kept'[n] \in S,
           record'[n] = record[n] => want[n].entry \in S,
           \A a, b \in S : Resolved(a, b) \in S
    PROVE  Outside(n)' \subseteq S /\ Carried(n)' \subseteq S
<1>1. Outside(n)' \subseteq S
  BY OutsideAfter
<1>2. want'[n].entry \in S
  <2>1. CASE want'[n] = NoWant
    BY <2>1 DEF NoWant
  <2>2. CASE record'[n] = record[n] /\ want'[n].entry = want[n].entry
    BY <2>2
  <2>3. CASE \E e \in Outside(n) \cup extra : want'[n].entry = Resolved(e, record'[n])
    BY <2>3
  <2>4. QED
    BY <2>1, <2>2, <2>3 DEF InboxMoves, WantMoves
<1>3. QED
  BY <1>1, <1>2 DEF Carried

\* Resolving counts no more of any node's changes than its two sides do.
LEMMA ResolvedBounded ==
    ASSUME NEW a \in Entry, NEW b \in Entry, NEW k \in Node
    PROVE  Resolved(a, b).version[k] \in {a.version[k], b.version[k]}
<1>1. CASE Conflicts(a, b)
  BY <1>1, MergeVersion DEF Resolved, Merged, Entry
<1>2. CASE ~Conflicts(a, b)
  BY <1>2 DEF Resolved
<1>3. QED
  BY <1>1, <1>2

\* The entries that count at most bound changes of k are closed under Resolved.
Below(k, bound) == {x \in Entry : x.version[k] <= bound}

LEMMA BelowClosed ==
    ASSUME NEW k \in Node, NEW bound \in Int
    PROVE  \A a, b \in Below(k, bound) : Resolved(a, b) \in Below(k, bound)
<1>1. SUFFICES ASSUME NEW a \in Below(k, bound), NEW b \in Below(k, bound)
               PROVE  Resolved(a, b) \in Below(k, bound)
  OBVIOUS
<1>2. a \in Entry /\ b \in Entry /\ a.version[k] <= bound /\ b.version[k] <= bound
  BY DEF Below
<1>3. Resolved(a, b) \in Entry
  BY <1>2, ResolvedEntry
<1>4. Resolved(a, b).version[k] <= bound
  BY <1>2, ResolvedBounded
<1>5. QED
  BY <1>3, <1>4 DEF Below

LEMMA AbsentBelow ==
    ASSUME NEW k \in Node, NEW bound \in Int, 0 <= bound
    PROVE  Absent \in Below(k, bound)
<1>1. Absent.version[k] = 0
  BY DEF Absent, Empty
<1>2. QED
  BY <1>1, AbsentEntry DEF Below

LEMMA CounterOf ==
    ASSUME NEW e \in Entry, NEW k \in Node
    PROVE  e.version[k] \in Int /\ 0 <= e.version[k]
  BY Counters DEF Entry

-----------------------------------------------------------------------------
(* Types                                                                      *)

LEMMA TypeStep ==
    ASSUME TypeOK, NEW n \in Node, OneOfTheKinds(n)
    PROVE  TypeOK'
<1>1. InboxTyped' /\ FlagsTyped'
  BY DEF OneOfTheKinds, Quiet, Changed, Taken, Announced, Reverted, InboxMoves
<1>2. /\ record \in [Node -> Entry] /\ kept \in [Node -> Entry]
      /\ pending \in [Node -> BOOLEAN] /\ sent \in [Node -> SUBSET Entry]
      /\ made \in SUBSET Change
  BY DEF TypeOK
<1>3. ASSUME ClearPending(n)
      PROVE  kept' \in [Node -> Entry] /\ pending' \in [Node -> BOOLEAN]
  BY <1>2, <1>3, AbsentEntry DEF ClearPending
<1>4. /\ record' \in [Node -> Entry] /\ kept' \in [Node -> Entry]
      /\ pending' \in [Node -> BOOLEAN] /\ sent' \in [Node -> SUBSET Entry]
      /\ made' \in SUBSET Change
  <2>1. CASE Quiet(n)
    BY <1>2, <2>1 DEF Quiet
  <2>2. CASE Changed(n)
    <3>1. PICK e \in Entry : NewChange(n, e) /\ Write(n, e)
      BY <2>2 DEF Changed
    <3>2. record' \in [Node -> Entry] /\ pending' \in [Node -> BOOLEAN]
      BY <1>2, <3>1 DEF Write
    <3>3. kept' \in [Node -> Entry]
      BY <1>2, <3>1 DEF Write
    <3>4. [node |-> n, count |-> e.version[n], body |-> e.body] \in Change
      <4>1. e.version[n] \in 0..MaxCounter /\ e.version[n] \in Int
        BY Counters DEF Entry
      <4>2. 0 <= record[n].version[n] /\ record[n].version[n] \in Int
        BY <1>2, CounterOf
      <4>3. e.version[n] \in 1..MaxCounter
        BY <3>1, <4>1, <4>2, MaxCounterAssumption DEF NewChange
      <4>4. QED
        BY <4>3 DEF Change, Entry
    <3>5. QED
      BY <1>2, <2>2, <3>1, <3>2, <3>3, <3>4 DEF Changed, Write
  <2>3. CASE Taken(n)
    BY <1>2, <1>3, <2>3, TypesOf DEF Taken
  <2>4. CASE Announced(n)
    BY <1>2, <1>3, <2>4 DEF Announced
  <2>5. CASE Reverted(n)
    BY <1>2, <1>3, <2>5 DEF Reverted
  <2>6. QED
    BY <2>1, <2>2, <2>3, <2>4, <2>5 DEF OneOfTheKinds
<1>5. QED
  BY <1>1, <1>4 DEF TypeOK, InboxTyped, FlagsTyped

-----------------------------------------------------------------------------
(* Records move forward                                                       *)

\* What every kind leaves of the machines that did not take the step.
LEMMA OthersKeep ==
    ASSUME TypeOK, NEW n \in Node, OneOfTheKinds(n), NEW m \in Node \ {n}
    PROVE  /\ record'[m] = record[m] /\ kept'[m] = kept[m] /\ sent'[m] = sent[m]
           /\ pending'[m] = pending[m] /\ want'[m] = want[m]
           /\ Outside(m)' = Outside(m) /\ Carried(m)' = Carried(m)
<1>1. \E extra : InboxMoves(n, extra)
  BY DEF OneOfTheKinds, Quiet, Changed, Taken, Announced, Reverted
<1>2. /\ record'[m] = record[m] /\ kept'[m] = kept[m] /\ sent'[m] = sent[m]
      /\ pending'[m] = pending[m]
  <2>1. ASSUME ClearPending(n)
        PROVE  kept'[m] = kept[m] /\ pending'[m] = pending[m]
    BY <2>1 DEF ClearPending, TypeOK
  <2>2. CASE Quiet(n)
    BY <2>2 DEF Quiet
  <2>3. CASE Changed(n)
    BY <2>3 DEF Changed, Write, TypeOK
  <2>4. CASE Taken(n)
    BY <2>1, <2>4 DEF Taken, TypeOK
  <2>5. CASE Announced(n)
    BY <2>1, <2>5 DEF Announced, TypeOK
  <2>6. CASE Reverted(n)
    BY <2>1, <2>6 DEF Reverted, TypeOK
  <2>7. QED
    BY <2>2, <2>3, <2>4, <2>5, <2>6 DEF OneOfTheKinds
<1>3. want'[m] = want[m]
  BY <1>1 DEF InboxMoves
<1>4. QED
  BY <1>1, <1>2, <1>3, CarriedElsewhere

\* Where n's own record, kept record and announcements come from.
LEMMA OwnAfter ==
    ASSUME TypeOK, NEW n \in Node
    PROVE  /\ Quiet(n) => /\ record'[n] = record[n] /\ kept'[n] = kept[n]
                          /\ pending'[n] = pending[n] /\ sent'[n] = sent[n]
           /\ Changed(n) => /\ record'[n] \in Entry /\ NewChange(n, record'[n])
                            /\ sent'[n] = sent[n] /\ pending'[n]
                            /\ kept'[n] = IF pending[n] THEN kept[n] ELSE record[n]
                            /\ made' = made \cup {[node  |-> n,
                                                   count |-> record'[n].version[n],
                                                   body  |-> record'[n].body]}
           /\ Taken(n) => /\ record'[n] = want[n].entry /\ kept'[n] = Absent
                          /\ ~pending'[n] /\ sent'[n] = sent[n]
           /\ Announced(n) => /\ record'[n] = record[n] /\ kept'[n] = Absent
                              /\ ~pending'[n] /\ sent'[n] \subseteq sent[n] \cup {record[n]}
           /\ Reverted(n) => /\ record'[n] = kept[n] /\ kept'[n] = Absent
                             /\ pending[n] /\ ~pending'[n] /\ sent'[n] = sent[n]
<1>1. ASSUME ClearPending(n)
      PROVE  kept'[n] = Absent /\ ~pending'[n]
  BY <1>1 DEF ClearPending, TypeOK
<1>2. Quiet(n) => /\ record'[n] = record[n] /\ kept'[n] = kept[n]
                  /\ pending'[n] = pending[n] /\ sent'[n] = sent[n]
  BY DEF Quiet
<1>3. ASSUME Changed(n)
      PROVE  /\ record'[n] \in Entry /\ NewChange(n, record'[n])
             /\ sent'[n] = sent[n] /\ pending'[n]
             /\ kept'[n] = IF pending[n] THEN kept[n] ELSE record[n]
             /\ made' = made \cup {[node  |-> n,
                                    count |-> record'[n].version[n],
                                    body  |-> record'[n].body]}
  <2>1. PICK e \in Entry : NewChange(n, e) /\ Write(n, e)
    BY <1>3 DEF Changed
  <2>2. record'[n] = e /\ pending'[n]
    BY <2>1 DEF Write, TypeOK
  <2>3. kept'[n] = IF pending[n] THEN kept[n] ELSE record[n]
    BY <2>1 DEF Write, TypeOK
  <2>4. made' = made \cup {[node |-> n, count |-> e.version[n], body |-> e.body]}
    BY <2>1 DEF Write
  <2>5. sent' = sent
    BY <1>3 DEF Changed
  <2>6. QED
    BY <2>1, <2>2, <2>3, <2>4, <2>5
<1>4. Taken(n) => /\ record'[n] = want[n].entry /\ kept'[n] = Absent
                  /\ ~pending'[n] /\ sent'[n] = sent[n]
  BY <1>1 DEF Taken, TypeOK
<1>5. Announced(n) => /\ record'[n] = record[n] /\ kept'[n] = Absent
                      /\ ~pending'[n] /\ sent'[n] \subseteq sent[n] \cup {record[n]}
  BY <1>1 DEF Announced, TypeOK
<1>6. Reverted(n) => /\ record'[n] = kept[n] /\ kept'[n] = Absent
                     /\ pending[n] /\ ~pending'[n] /\ sent'[n] = sent[n]
  BY <1>1 DEF Reverted, TypeOK
<1>7. QED
  BY <1>2, <1>3, <1>4, <1>5, <1>6

\* A record never moves back, but for a revert, which goes back to kept.
LEMMA Forward ==
    ASSUME TypeOK, NEW n \in Node, Quiet(n) \/ Changed(n) \/ Taken(n) \/ Announced(n),
           NEW k \in Node
    PROVE  record[n].version[k] <= record'[n].version[k]
<1>1. record[n] \in Entry /\ want[n].entry \in Entry
  BY TypesOf
<1>2. record[n].version[k] \in Int
  BY <1>1, CounterOf
<1>3. CASE Quiet(n) \/ Announced(n)
  BY <1>2, <1>3, OwnAfter
<1>4. CASE Changed(n)
  BY <1>4, OwnAfter DEF NewChange
<1>5. CASE Taken(n)
  BY <1>1, <1>5, OwnAfter, VersionOrder DEF Taken, Entry
<1>6. QED
  BY <1>3, <1>4, <1>5

LEMMA CoversTransitive ==
    ASSUME NEW a \in Entry, NEW b \in Entry, NEW c \in Entry,
           DominatesOrEquals(b.version, c.version),
           \A k \in Node : b.version[k] <= a.version[k]
    PROVE  DominatesOrEquals(a.version, c.version)
<1>1. a.version \in Version /\ b.version \in Version /\ c.version \in Version
  BY DEF Entry
<1>2. ASSUME NEW k \in Node
      PROVE  c.version[k] <= a.version[k]
  <2>1. c.version[k] <= b.version[k] /\ b.version[k] <= a.version[k]
    BY <1>1, VersionOrder
  <2>2. /\ a.version[k] \in Int /\ b.version[k] \in Int /\ c.version[k] \in Int
    BY CounterOf
  <2>3. QED
    BY <2>1, <2>2
<1>3. QED
  BY <1>1, <1>2, VersionOrder

LEMMA CoversItself ==
    ASSUME NEW e \in Entry
    PROVE  DominatesOrEquals(e.version, e.version)
<1>1. \A k \in Node : e.version[k] <= e.version[k]
  BY CounterOf
<1>2. QED
  BY <1>1, VersionOrder DEF Entry

LEMMA RewindStep ==
    ASSUME TypeOK, AnnouncedNeverRewinds, KeptCovers, NEW n \in Node, OneOfTheKinds(n)
    PROVE  AnnouncedNeverRewinds' /\ KeptCovers'
<1>1. TypeOK'
  BY TypeStep
<1>2. ASSUME NEW m \in Node \ {n}
      PROVE  /\ \A e \in sent'[m] : DominatesOrEquals(record'[m].version, e.version)
             /\ pending'[m] =>
                  \A e \in sent'[m] : DominatesOrEquals(kept'[m].version, e.version)
  BY <1>2, OthersKeep DEF AnnouncedNeverRewinds, KeptCovers
<1>3. ASSUME NEW e \in sent'[n]
      PROVE  DominatesOrEquals(record'[n].version, e.version)
  <2>1. record[n] \in Entry /\ record'[n] \in Entry /\ sent[n] \subseteq Entry
    BY <1>1, TypesOf DEF TypeOK
  <2>2. CASE Reverted(n)
    BY <1>3, <2>2, OwnAfter DEF KeptCovers
  <2>3. CASE (Quiet(n) \/ Changed(n) \/ Taken(n) \/ Announced(n)) /\ e \in sent[n]
    <3>1. DominatesOrEquals(record[n].version, e.version)
      BY <2>3 DEF AnnouncedNeverRewinds
    <3>2. \A k \in Node : record[n].version[k] <= record'[n].version[k]
      BY <2>3, Forward
    <3>3. QED
      BY <2>1, <2>3, <3>1, <3>2, CoversTransitive
  <2>4. CASE Announced(n) /\ e = record[n]
    BY <2>1, <2>4, OwnAfter, CoversItself
  <2>5. QED
    BY <1>3, <2>2, <2>3, <2>4, OwnAfter DEF OneOfTheKinds
<1>4. ASSUME pending'[n], NEW e \in sent'[n]
      PROVE  DominatesOrEquals(kept'[n].version, e.version)
  <2>1. CASE Quiet(n)
    BY <1>4, <2>1, OwnAfter DEF KeptCovers
  <2>2. CASE Changed(n)
    BY <1>4, <2>2, OwnAfter DEF KeptCovers, AnnouncedNeverRewinds
  <2>3. QED
    BY <1>4, <2>1, <2>2, OwnAfter DEF OneOfTheKinds
<1>5. QED
  BY <1>2, <1>3, <1>4 DEF AnnouncedNeverRewinds, KeptCovers

LEMMA WantStep ==
    ASSUME TypeOK, WantDominates, NEW n \in Node, OneOfTheKinds(n)
    PROVE  WantDominates'
<1>1. TypeOK'
  BY TypeStep
<1>2. PICK extra : InboxMoves(n, extra) /\ extra \subseteq Entry
  <2>1. UNION {sent[m] : m \in Node} \subseteq Entry
    BY DEF TypeOK
  <2>2. {} \subseteq Entry
    OBVIOUS
  <2>3. QED
    BY <2>1, <2>2 DEF OneOfTheKinds, Quiet, Changed, Taken, Announced, Reverted
<1>3. ASSUME want'[n].state # "none"
      PROVE  Dominates(want'[n].entry.version, record'[n].version)
  <2>1. CASE want'[n] = NoWant
    BY <1>3, <2>1 DEF NoWant
  <2>2. CASE /\ record'[n] = record[n] /\ want'[n].entry = want[n].entry
             /\ want[n].state # "none"
    BY <2>2 DEF WantDominates
  <2>3. CASE \E e \in Outside(n) \cup extra :
               Applies(e, record'[n]) /\ want'[n].entry = Resolved(e, record'[n])
    <3>1. PICK e \in Outside(n) \cup extra :
               Applies(e, record'[n]) /\ want'[n].entry = Resolved(e, record'[n])
      BY <2>3
    <3>2. e.version \in Version /\ record'[n].version \in Version
      BY <1>1, <1>2, TypesOf DEF TypeOK, Entry
    <3>3. CASE Conflicts(e, record'[n])
      <4>1. want'[n].entry.version = Merge(e.version, record'[n].version)
        BY <3>1, <3>3 DEF Resolved, Merged
      <4>2. QED
        BY <3>2, <3>3, <4>1, MergeDominates DEF Conflicts
    <3>4. CASE ~Conflicts(e, record'[n])
      BY <3>1, <3>4 DEF Applies, Resolved
    <3>5. QED
      BY <3>3, <3>4
  <2>4. QED
    BY <1>2, <1>3, <2>1, <2>2, <2>3 DEF InboxMoves, WantMoves
<1>4. QED
  BY <1>3, OthersKeep DEF WantDominates

-----------------------------------------------------------------------------
(* Counters                                                                   *)

\* An entry that was in flight counts no pending change of anyone.
LEMMA ExtraIsCarried ==
    ASSUME NEW extra \in SUBSET UNION {sent[m] : m \in Node}, NEW x \in extra
    PROVE  \E m \in Node : x \in Outside(m) /\ x \in Carried(m)
<1>1. PICK m \in Node : x \in sent[m]
  OBVIOUS
<1>2. QED
  BY <1>1 DEF Outside, Carried

\* What the step brings to n's inbox was in flight.
LEMMA ExtraOf ==
    ASSUME TypeOK, NEW n \in Node, OneOfTheKinds(n)
    PROVE  \E extra \in SUBSET UNION {sent[m] : m \in Node} :
              extra \subseteq Entry /\ InboxMoves(n, extra)
<1>1. UNION {sent[m] : m \in Node} \subseteq Entry
  BY DEF TypeOK
<1>2. {} \in SUBSET UNION {sent[m] : m \in Node} /\ {} \subseteq Entry
  OBVIOUS
<1>3. QED
  BY <1>1, <1>2 DEF OneOfTheKinds, Quiet, Changed, Taken, Announced, Reverted

\* A step that does not revert keeps every counter below its node's own.
LEMMA OwnHighestForward ==
    ASSUME TypeOK, OwnHighest, NEW n \in Node, OneOfTheKinds(n), ~Reverted(n),
           NEW k \in Node
    PROVE  \A m \in Node : \A x \in Carried(m)' : x.version[k] <= record'[k].version[k]
<1> DEFINE S == Below(k, record'[k].version[k])
<1>1. TypeOK'
  BY TypeStep
<1>2. /\ record[k] \in Entry /\ record'[k] \in Entry /\ record'[n] \in Entry
      /\ kept'[n] \in Entry /\ sent'[n] \subseteq Entry
  BY <1>1 DEF TypeOK
<1>3. /\ record[k].version[k] \in Int /\ record'[k].version[k] \in Int
      /\ 0 <= record'[k].version[k]
  BY <1>2, CounterOf
<1>4. record[k].version[k] <= record'[k].version[k]
  BY <1>3, Forward, OthersKeep DEF OneOfTheKinds
<1>5. ASSUME NEW m \in Node, NEW x \in Carried(m)
      PROVE  x \in S
  <2>1. x \in Entry /\ x.version[k] <= record[k].version[k]
    BY TypesOf DEF OwnHighest
  <2>2. x.version[k] \in Int
    BY <2>1, CounterOf
  <2>3. QED
    BY <1>3, <1>4, <2>1, <2>2 DEF Below
<1>6. PICK extra \in SUBSET UNION {sent[m] : m \in Node} :
          extra \subseteq Entry /\ InboxMoves(n, extra)
  BY ExtraOf
<1>7. extra \subseteq S /\ Outside(n) \subseteq S /\ want[n].entry \in S /\ record[n] \in S
  BY <1>5, ExtraIsCarried DEF Carried
<1>8. Absent \in S
  BY <1>3, AbsentBelow
<1>9. record'[n] \in S
  <2>1. CASE Quiet(n) \/ Announced(n) \/ Taken(n)
    BY <1>7, <2>1, OwnAfter
  <2>2. CASE Changed(n) /\ k = n
    BY <1>2, <1>3, <2>2 DEF Below
  <2>3. CASE Changed(n) /\ k # n
    <3>1. PICK x \in Carried(n) : record'[n].version[k] <= x.version[k]
      BY <2>3, OwnAfter DEF NewChange
    <3>2. x.version[k] <= record'[k].version[k] /\ x \in Entry
      BY <1>5 DEF Below
    <3>3. record'[n].version[k] \in Int /\ x.version[k] \in Int
      BY <1>2, <3>2, CounterOf
    <3>4. QED
      BY <1>2, <1>3, <3>1, <3>2, <3>3 DEF Below
  <2>4. QED
    BY <2>1, <2>2, <2>3 DEF OneOfTheKinds
<1>10. kept'[n] \in S /\ sent'[n] \subseteq S
  <2>1. kept'[n] \in {Absent, kept[n], record[n]} /\ sent'[n] \subseteq sent[n] \cup {record[n]}
    BY OwnAfter DEF OneOfTheKinds
  <2>2. kept[n] \in S /\ sent[n] \subseteq S
    BY <1>7 DEF Outside
  <2>3. QED
    BY <1>7, <1>8, <2>1, <2>2
<1>11. \A a, b \in S : Resolved(a, b) \in S
  BY <1>3, BelowClosed
<1> HIDE DEF S
<1>12. Carried(n)' \subseteq S
  BY <1>6, <1>7, <1>8, <1>9, <1>10, <1>11, CarriedAfter
<1>13. ASSUME NEW m \in Node \ {n}
       PROVE  Carried(m)' \subseteq S
  BY <1>5, OthersKeep
<1>14. \A m \in Node : Carried(m)' \subseteq S
  BY <1>12, <1>13
<1>15. QED
  BY <1>14 DEF S, Below

\* Reverting goes back to a record that no other entry is past.
LEMMA OwnHighestReverted ==
    ASSUME TypeOK, OwnHighest, PendingNeverLeaks, NEW n \in Node, Reverted(n),
           NEW k \in Node
    PROVE  \A m \in Node : \A x \in Carried(m)' : x.version[k] <= record'[k].version[k]
<1> DEFINE S == Below(k, record'[k].version[k])
<1>1. TypeOK' /\ OneOfTheKinds(n)
  BY TypeStep DEF OneOfTheKinds
<1>2. /\ record'[n] = kept[n] /\ kept'[n] = Absent /\ pending[n] /\ sent'[n] = sent[n]
  BY OwnAfter
<1>3. record'[k] \in Entry /\ record'[n] \in Entry
  BY <1>1 DEF TypeOK
<1>4. record'[k].version[k] \in Int /\ 0 <= record'[k].version[k]
  BY <1>3, CounterOf
<1>5. ASSUME NEW m \in Node, NEW x, x \in Outside(m) \/ (m # n /\ x \in Carried(m))
      PROVE  x \in S
  <2>1. x \in Entry /\ x \in Carried(m)
    BY <1>5, TypesOf DEF Carried
  <2>2. CASE k = n
    BY <1>2, <1>5, <2>1, <2>2 DEF PendingNeverLeaks, Below
  <2>3. CASE k # n
    <3>1. record'[k] = record[k]
      BY <1>1, <2>3, OthersKeep
    <3>2. QED
      BY <2>1, <3>1 DEF OwnHighest, Below
  <2>4. QED
    BY <2>2, <2>3
<1>6. InboxMoves(n, {})
  BY DEF Reverted
<1>7. Outside(n) \subseteq S /\ kept[n] \in S /\ sent[n] \subseteq S
  BY <1>5 DEF Outside
<1>8. Absent \in S
  BY <1>4, AbsentBelow
<1>9. record'[n] = record[n] => want[n].entry \in S
  <2>1. SUFFICES ASSUME record'[n] = record[n]
                 PROVE  want[n].entry \in S
    OBVIOUS
  <2>2. record'[k] = record[k]
    BY <1>1, <2>1, OthersKeep
  <2>3. want[n].entry \in Carried(n) /\ want[n].entry \in Entry
    BY TypesOf DEF Carried
  <2>4. QED
    BY <2>2, <2>3 DEF OwnHighest, Below
<1>10. \A a, b \in S : Resolved(a, b) \in S
  BY <1>4, BelowClosed
<1> HIDE DEF S
<1>11. Carried(n)' \subseteq S
  <2>1. {} \subseteq S
    OBVIOUS
  <2>2. QED
    BY <1>2, <1>6, <1>7, <1>8, <1>9, <1>10, <2>1, CarriedAfter
<1>12. ASSUME NEW m \in Node \ {n}
       PROVE  Carried(m)' \subseteq S
  BY <1>1, <1>5, OthersKeep
<1>13. \A m \in Node : Carried(m)' \subseteq S
  BY <1>11, <1>12
<1>14. QED
  BY <1>13 DEF S, Below

LEMMA OwnHighestStep ==
    ASSUME TypeOK, OwnHighest, PendingNeverLeaks, NEW n \in Node, OneOfTheKinds(n)
    PROVE  OwnHighest'
<1>1. \A k, m \in Node : \A x \in Carried(m)' : x.version[k] <= record'[k].version[k]
  BY OwnHighestForward, OwnHighestReverted
<1>2. TypeOK'
  BY TypeStep
<1>3. ASSUME NEW c \in made'
      PROVE  c.count <= record'[c.node].version[c.node]
  <2>1. \A k \in Node : /\ record[k].version[k] \in Int /\ record'[k].version[k] \in Int
    BY <1>2, CounterOf DEF TypeOK
  <2>2. made \subseteq Change /\ made' \subseteq Change
    BY <1>2 DEF TypeOK
  <2>3. c.count \in Int /\ c.node \in Node
    BY <2>2, MaxCounterAssumption DEF Change
  <2>4. CASE c \in made /\ ~Reverted(n)
    <3>1. c.count <= record[c.node].version[c.node]
      BY <2>3, <2>4 DEF OwnHighest
    <3>2. record[c.node].version[c.node] <= record'[c.node].version[c.node]
      <4>1. CASE c.node = n
        BY <2>4, <4>1, Forward DEF OneOfTheKinds
      <4>2. CASE c.node # n
        BY <2>1, <2>3, <4>2, OthersKeep
      <4>3. QED
        BY <4>1, <4>2
    <3>3. QED
      BY <2>1, <2>3, <3>1, <3>2
  <2>5. CASE Reverted(n)
    <3>1. c \in made /\ (c.node = n => c.count <= kept[n].version[n])
      BY <2>5 DEF Reverted
    <3>2. CASE c.node = n
      BY <2>5, <3>1, <3>2, OwnAfter
    <3>3. CASE c.node # n
      BY <2>3, <3>1, <3>3, OthersKeep DEF OwnHighest
    <3>4. QED
      BY <3>2, <3>3
  <2>6. CASE Changed(n) /\ c \notin made
    <3>1. c.node = n /\ c.count = record'[n].version[n]
      BY <2>6, OwnAfter
    <3>2. QED
      BY <2>1, <2>3, <3>1
  <2>7. ~Changed(n) /\ ~Reverted(n) => c \in made
    BY DEF OneOfTheKinds, Quiet, Taken, Announced
  <2>8. QED
    BY <2>4, <2>5, <2>6, <2>7
<1>4. QED
  BY <1>1, <1>3 DEF OwnHighest

\* A pending change stays where it was made.
LEMMA LeakStepElsewhere ==
    ASSUME TypeOK, OwnHighest, PendingNeverLeaks, NEW n \in Node, OneOfTheKinds(n),
           NEW k \in Node \ {n}, pending'[k]
    PROVE  /\ \A m \in Node \ {k} : \A e \in Carried(m)' :
                 e.version[k] <= kept'[k].version[k]
           /\ \A e \in Outside(k)' : e.version[k] <= kept'[k].version[k]
<1> DEFINE S == Below(k, kept[k].version[k])
<1>1. pending[k] /\ kept'[k] = kept[k] /\ Outside(k)' = Outside(k)
  BY OthersKeep
<1>2. kept[k].version[k] \in Int /\ 0 <= kept[k].version[k]
  BY TypesOf, CounterOf
<1>3. TypeOK'
  BY TypeStep
<1>4. ASSUME NEW m \in Node \ {k}, NEW x \in Carried(m)
      PROVE  x \in S
  BY <1>1, <1>4, TypesOf DEF PendingNeverLeaks, Below
<1>5. ASSUME NEW x \in Outside(k)
      PROVE  x \in S
  BY <1>1, <1>5, TypesOf DEF PendingNeverLeaks, Below
<1>6. PICK extra \in SUBSET UNION {sent[m] : m \in Node} :
          extra \subseteq Entry /\ InboxMoves(n, extra)
  BY ExtraOf
<1>7. extra \subseteq S
  BY <1>4, <1>5, ExtraIsCarried
<1>8. Outside(n) \subseteq S /\ want[n].entry \in S /\ record[n] \in S /\ kept[n] \in S
  BY <1>4 DEF Carried, Outside
<1>9. Absent \in S
  BY <1>2, AbsentBelow
<1>10. record'[n] \in S
  <2>1. CASE Quiet(n) \/ Announced(n) \/ Taken(n) \/ Reverted(n)
    BY <1>8, <2>1, OwnAfter
  <2>2. CASE Changed(n)
    <3>1. PICK x \in Carried(n) : record'[n].version[k] <= x.version[k]
      BY <2>2, OwnAfter DEF NewChange
    <3>2. x.version[k] <= kept[k].version[k] /\ x \in Entry
      BY <1>4 DEF Below
    <3>3. record'[n] \in Entry
      BY <2>2, OwnAfter
    <3>4. record'[n].version[k] \in Int /\ x.version[k] \in Int
      BY <3>2, <3>3, CounterOf
    <3>5. QED
      BY <1>2, <3>1, <3>2, <3>3, <3>4 DEF Below
  <2>3. QED
    BY <2>1, <2>2 DEF OneOfTheKinds
<1>11. kept'[n] \in S /\ sent'[n] \subseteq S
  <2>1. kept'[n] \in {Absent, kept[n], record[n]} /\ sent'[n] \subseteq sent[n] \cup {record[n]}
    BY OwnAfter DEF OneOfTheKinds
  <2>2. sent[n] \subseteq S
    BY <1>8 DEF Outside
  <2>3. QED
    BY <1>8, <1>9, <2>1, <2>2
<1>12. \A a, b \in S : Resolved(a, b) \in S
  BY <1>2, BelowClosed
<1> HIDE DEF S
<1>13. Carried(n)' \subseteq S
  BY <1>6, <1>7, <1>8, <1>9, <1>10, <1>11, <1>12, CarriedAfter
<1>14. ASSUME NEW m \in Node \ {k}
       PROVE  Carried(m)' \subseteq S
  BY <1>4, <1>13, OthersKeep
<1>15. QED
  BY <1>1, <1>5, <1>14 DEF S, Below

LEMMA LeakStepOwn ==
    ASSUME TypeOK, OwnHighest, PendingNeverLeaks, NEW n \in Node, OneOfTheKinds(n),
           pending'[n]
    PROVE  /\ \A m \in Node \ {n} : \A e \in Carried(m)' :
                 e.version[n] <= kept'[n].version[n]
           /\ \A e \in Outside(n)' : e.version[n] <= kept'[n].version[n]
<1> DEFINE S == Below(n, kept'[n].version[n])
<1>1. \/ Quiet(n) /\ pending[n] /\ kept'[n] = kept[n]
      \/ Changed(n) /\ kept'[n] = IF pending[n] THEN kept[n] ELSE record[n]
  BY OwnAfter DEF OneOfTheKinds
<1>2. TypeOK' /\ kept'[n] \in Entry
  BY TypeStep DEF TypeOK
<1>3. kept'[n].version[n] \in Int /\ 0 <= kept'[n].version[n]
  BY <1>2, CounterOf
<1>4. ASSUME NEW m \in Node, NEW x, x \in Outside(m) \/ (m # n /\ x \in Carried(m))
      PROVE  x \in S
  <2>1. x \in Entry /\ x \in Carried(m)
    BY <1>4, TypesOf DEF Carried
  <2>2. CASE pending[n]
    BY <1>1, <1>4, <2>1, <2>2 DEF PendingNeverLeaks, Below
  <2>3. CASE ~pending[n]
    BY <1>1, <2>1, <2>3 DEF OwnHighest, Below
  <2>4. QED
    BY <2>2, <2>3
<1>5. PICK extra \in SUBSET UNION {sent[m] : m \in Node} :
          extra \subseteq Entry /\ InboxMoves(n, extra)
  BY ExtraOf
<1>6. extra \subseteq S /\ Outside(n) \subseteq S
  BY <1>4, ExtraIsCarried
<1>7. Absent \in S
  BY <1>3, AbsentBelow
<1>8. sent'[n] \subseteq S
  <2>1. sent'[n] = sent[n] /\ sent[n] \subseteq Outside(n)
    BY <1>1, OwnAfter DEF Outside
  <2>2. QED
    BY <1>6, <2>1
<1>9. kept'[n] \in S
  BY <1>2, <1>3 DEF Below
<1> HIDE DEF S
<1>10. Outside(n)' \subseteq S
  BY <1>5, <1>6, <1>7, <1>8, <1>9, OutsideAfter
<1>11. ASSUME NEW m \in Node \ {n}
       PROVE  Carried(m)' \subseteq S
  BY <1>4, OthersKeep
<1>12. QED
  BY <1>10, <1>11 DEF S, Below

LEMMA LeakStep ==
    ASSUME TypeOK, OwnHighest, PendingNeverLeaks, NEW n \in Node, OneOfTheKinds(n)
    PROVE  PendingNeverLeaks'
  BY LeakStepElsewhere, LeakStepOwn DEF PendingNeverLeaks

-----------------------------------------------------------------------------
(* What an entry says is a function of its vector                             *)

\* A body at least as high as another is stamped no lower, and a higher stamp
\* ranks higher.
LEMMA StampRanks ==
    ASSUME NEW a \in Body, NEW b \in Body
    PROVE  /\ AtLeast(a, b) => b.stamp <= a.stamp
           /\ b.stamp < a.stamp => AtLeast(a, b)
<1>1. AtLeast(a, b) <=> ~Above(b, a)
  BY AtLeastOrder
<1>2. a.stamp \in Int /\ b.stamp \in Int
  BY DEF Body
<1>3. a.stamp < b.stamp => Above(b, a)
  BY DEF Above, OutrankedBy
<1>4. b.stamp < a.stamp => Above(a, b)
  BY DEF Above, OutrankedBy
<1>5. b.stamp < a.stamp => ~Above(b, a)
  BY <1>4, AboveAsymmetric
<1>6. QED
  BY <1>1, <1>2, <1>3, <1>5

LEMMA ChangeTyped ==
    ASSUME NEW c \in Change
    PROVE  /\ c.node \in Node /\ c.body \in Body
           /\ c.count \in Int /\ 1 <= c.count
  BY MaxCounterAssumption DEF Change

\* Nothing has seen fewer changes than an empty vector.
LEMMA EmptySeesNothing ==
    ASSUME NEW changes \in SUBSET Change
    PROVE  Past(changes, Empty) = {}
<1>1. ASSUME NEW c \in changes
      PROVE  ~(c.count <= Empty[c.node])
  BY ChangeTyped DEF Empty
<1>2. QED
  BY <1>1 DEF Past

LEMMA OnlyAbsentIsEmpty ==
    ASSUME NEW changes \in SUBSET Change, NEW e \in Entry, Canonical(changes, e)
    PROVE  e = Absent <=> e.version = Empty
<1>1. e = Absent => e.version = Empty
  BY DEF Absent
<1>2. e.version = Empty => e = Absent
  BY EmptySeesNothing DEF Canonical
<1>3. QED
  BY <1>1, <1>2

\* Resolving two canonical entries gives a canonical one.
LEMMA CanonicalResolved ==
    ASSUME NEW changes \in SUBSET Change, NEW a \in Entry, NEW b \in Entry,
           Canonical(changes, a), Canonical(changes, b)
    PROVE  Canonical(changes, Resolved(a, b))
<1>1. a.version \in Version /\ b.version \in Version /\ a.body \in Body /\ b.body \in Body
  BY DEF Entry
<1>2. CASE ~Conflicts(a, b)
  BY <1>2 DEF Resolved
<1>3. CASE Conflicts(a, b)
  <2> DEFINE v == Merge(a.version, b.version)
             w == WinnerBody(a.body, b.body)
  <2>1. Resolved(a, b).version = v /\ Resolved(a, b).body = w
    BY <1>3 DEF Resolved, Merged
  <2>2. a # Absent /\ b # Absent
    <3>1. \A x \in Version : DominatesOrEquals(x, Empty)
      BY EmptyVersion, VersionOrder, Counters DEF Empty
    <3>2. ~DominatesOrEquals(a.version, b.version) /\ ~DominatesOrEquals(b.version, a.version)
      BY <1>1, <1>3, VersionOrder DEF Conflicts
    <3>3. QED
      BY <1>1, <3>1, <3>2 DEF Absent
  <2>3. Past(changes, v) = Past(changes, a.version) \cup Past(changes, b.version)
    <3>1. ASSUME NEW c \in changes
          PROVE  c.count <= v[c.node] <=>
                    c.count <= a.version[c.node] \/ c.count <= b.version[c.node]
      <4>1. c.node \in Node /\ c.count \in Int
        BY ChangeTyped
      <4>2. /\ v[c.node] \in {a.version[c.node], b.version[c.node]}
            /\ a.version[c.node] <= v[c.node] /\ b.version[c.node] <= v[c.node]
        BY <1>1, <4>1, MergeVersion
      <4>3. a.version[c.node] \in Int /\ b.version[c.node] \in Int
        BY <4>1, CounterOf
      <4>4. QED
        BY <4>1, <4>2, <4>3
    <3>2. QED
      BY <3>1 DEF Past
  <2>4. /\ w \in {a.body, b.body} /\ AtLeast(w, a.body) /\ AtLeast(w, b.body)
    BY <1>1, WinnerIsHighest
  <2>5. \E c \in Past(changes, v) : c.body = w
    BY <2>2, <2>3, <2>4 DEF Canonical
  <2>6. ASSUME NEW c \in Past(changes, v)
        PROVE  WinnerBody(w, c.body) = w
    <3>1. c.body \in Body /\ w \in Body
      BY <1>1, <2>4, ChangeTyped DEF Past
    <3>2. AtLeast(a.body, c.body) \/ AtLeast(b.body, c.body)
      BY <2>2, <2>3 DEF Canonical, AtLeast
    <3>3. AtLeast(w, c.body)
      BY <1>1, <2>4, <3>1, <3>2, AtLeastOrder
    <3>4. QED
      BY <3>3 DEF AtLeast
  <2> HIDE DEF v, w
  <2>7. QED
    BY <2>1, <2>5, <2>6 DEF Canonical
<1>4. QED
  BY <1>2, <1>3

\* An entry is canonical for any changes that its vector sees alike.
LEMMA CanonicalSame ==
    ASSUME NEW before, NEW after, NEW e, Canonical(before, e),
           Past(after, e.version) = Past(before, e.version)
    PROVE  Canonical(after, e)
  BY DEF Canonical

-----------------------------------------------------------------------------
(* Changes outrank what they were made on                                     *)

\* A new change outranks every change its vector has seen, and is a later one
\* of its author.
LEMMA NewOutranks ==
    ASSUME TypeOK, OwnHighest, AllCanonical, NEW n \in Node,
           NEW e \in Entry, NewChange(n, e),
           NEW d \in made, d.count <= e.version[d.node]
    PROVE  d.body.stamp < e.body.stamp
<1>1. d \in Change /\ d.node \in Node /\ d.body \in Body /\ d.count \in Int /\ 1 <= d.count
  BY ChangeTyped DEF TypeOK
<1>2. PICK from \in SUBSET Carried(n) :
          /\ \A k \in Node \ {n} : \E x \in from : e.version[k] <= x.version[k]
          /\ record[n] \in from \/ record[n].version = Empty
          /\ \A x \in from : x.version # Empty => x.body.stamp < e.body.stamp
  BY DEF NewChange
<1>3. from \subseteq Entry /\ record[n] \in Entry
  BY TypesOf
<1>4. \E x \in from : d.count <= x.version[d.node]
  <2>1. CASE d.node = n
    <3>1. d.count <= record[n].version[n]
      BY <2>1 DEF OwnHighest
    <3>2. record[n].version # Empty
      BY <1>1, <3>1 DEF Empty
    <3>3. QED
      BY <1>2, <2>1, <3>1, <3>2
  <2>2. CASE d.node # n
    <3>1. PICK x \in from : e.version[d.node] <= x.version[d.node]
      BY <1>1, <1>2, <2>2
    <3>2. e.version[d.node] \in Int /\ x.version[d.node] \in Int
      BY <1>1, <1>3, CounterOf
    <3>3. QED
      BY <1>1, <3>1, <3>2
  <2>3. QED
    BY <2>1, <2>2
<1>5. PICK x \in from : d.count <= x.version[d.node]
  BY <1>4
<1>6. x.version # Empty
  BY <1>1, <1>5 DEF Empty
<1>7. x.body.stamp < e.body.stamp
  BY <1>2, <1>6
<1>8. Canonical(made, x) /\ x # Absent
  BY <1>6 DEF AllCanonical, Absent
<1>9. AtLeast(x.body, d.body)
  BY <1>5, <1>8 DEF Canonical, Past, AtLeast
<1>10. x.body \in Body /\ e.body \in Body
  BY <1>3 DEF Entry
<1>11. d.body.stamp <= x.body.stamp
  BY <1>1, <1>9, <1>10, StampRanks
<1>12. d.body.stamp \in Int /\ x.body.stamp \in Int /\ e.body.stamp \in Int
  BY <1>1, <1>10 DEF Body
<1>13. QED
  BY <1>7, <1>11, <1>12

LEMMA MadeAfter ==
    ASSUME TypeOK, NEW n \in Node, OneOfTheKinds(n)
    PROVE  Changed(n) \/ made' \subseteq made
  BY DEF OneOfTheKinds, Quiet, Taken, Announced, Reverted

LEMMA AuthorsStep ==
    ASSUME TypeOK, OwnHighest, AllCanonical, AuthorsOrdered, NEW n \in Node,
           OneOfTheKinds(n)
    PROVE  AuthorsOrdered'
<1>1. CASE made' \subseteq made
  BY <1>1 DEF AuthorsOrdered
<1>2. CASE Changed(n)
  <2> DEFINE e   == record'[n]
             new == [node |-> n, count |-> e.version[n], body |-> e.body]
  <2>1. e \in Entry /\ NewChange(n, e) /\ made' = made \cup {new}
    BY <1>2, OwnAfter
  <2>2. new.node = n /\ new.count = e.version[n] /\ new.body = e.body /\ new.body.by = n
    BY <2>1 DEF NewChange
  <2>3. record[n].version[n] \in Int /\ e.version[n] = record[n].version[n] + 1
    BY <2>1, TypesOf, CounterOf DEF NewChange
  <2>4. ASSUME NEW d \in made, d.node = n
        PROVE  d.count < new.count /\ d.body.stamp < new.body.stamp /\ d.count \in Int
    <3>1. d.count \in Int
      BY ChangeTyped DEF TypeOK
    <3>2. d.count <= record[n].version[n]
      BY <2>4 DEF OwnHighest
    <3>3. d.count < e.version[n] /\ d.count <= e.version[d.node]
      BY <2>3, <2>4, <3>1, <3>2
    <3>4. d.body.stamp < e.body.stamp
      BY <2>1, <3>3, NewOutranks
    <3>5. QED
      BY <2>2, <3>1, <3>3, <3>4
  <2>5. new.count \in Int /\ new.body.stamp \in Int
    BY <2>1, <2>2, <2>3 DEF Entry, Body
  <2> HIDE DEF new, e
  <2>6. ASSUME NEW c \in made', NEW d \in made'
        PROVE  /\ c.body.by = c.node
               /\ c.node = d.node =>
                     /\ c.count = d.count => c = d
                     /\ c.count < d.count => c.body.stamp < d.body.stamp
    <3>1. CASE c \in made /\ d \in made
      BY <3>1 DEF AuthorsOrdered
    <3>2. CASE c = new /\ d = new
      BY <2>2, <2>5, <3>2
    <3>3. CASE c = new /\ d \in made
      BY <2>2, <2>4, <2>5, <3>3
    <3>4. CASE c \in made /\ d = new
      BY <2>2, <2>4, <2>5, <3>4 DEF AuthorsOrdered
    <3>5. QED
      BY <2>1, <3>1, <3>2, <3>3, <3>4
  <2>7. QED
    BY <2>6 DEF AuthorsOrdered
<1>3. QED
  BY <1>1, <1>2, MadeAfter

\* What was canonical stays so: a new change is one nothing has seen, and no
\* vector that stays has seen a discarded one.
LEMMA StillCanonical ==
    ASSUME TypeOK, OwnHighest, AllCanonical, NEW n \in Node, OneOfTheKinds(n),
           NEW m \in Node, NEW x \in Carried(m),
           Reverted(n) => x.version[n] <= kept[n].version[n]
    PROVE  x \in Entry /\ Canonical(made', x)
<1>1. x \in Entry /\ Canonical(made, x)
  BY TypesOf DEF AllCanonical
<1>2. x.version[n] \in Int
  BY <1>1, CounterOf
<1>3. Past(made', x.version) = Past(made, x.version)
  <2>1. CASE made' = made
    BY <2>1
  <2>2. CASE Changed(n)
    <3>1. made' = made \cup {[node  |-> n, count |-> record'[n].version[n],
                              body  |-> record'[n].body]}
      BY <2>2, OwnAfter
    <3>2. record'[n].version[n] = record[n].version[n] + 1
      BY <2>2, OwnAfter DEF NewChange
    <3>3. x.version[n] <= record[n].version[n] /\ record[n].version[n] \in Int
      BY TypesOf, CounterOf DEF OwnHighest
    <3>4. ~(record'[n].version[n] <= x.version[n])
      BY <1>2, <3>2, <3>3
    <3>5. QED
      BY <3>1, <3>4 DEF Past
  <2>3. CASE Reverted(n)
    <3>1. made' = {c \in made : c.node = n => c.count <= kept[n].version[n]}
      BY <2>3 DEF Reverted
    <3>2. ASSUME NEW c \in made, c.count <= x.version[c.node], c.node = n
          PROVE  c.count <= kept[n].version[n]
      <4>1. c.count \in Int /\ kept[n].version[n] \in Int
        BY ChangeTyped, TypesOf, CounterOf DEF TypeOK
      <4>2. QED
        BY <1>2, <2>3, <3>2, <4>1
    <3>3. QED
      BY <3>1, <3>2 DEF Past
  <2>4. QED
    BY <2>1, <2>2, <2>3 DEF OneOfTheKinds, Quiet, Taken, Announced
<1>4. QED
  BY <1>1, <1>3, CanonicalSame

\* The record a change leaves is canonical.
LEMMA NewIsCanonical ==
    ASSUME TypeOK, OwnHighest, AllCanonical, NEW n \in Node, Changed(n)
    PROVE  Canonical(made', record'[n])
<1> DEFINE e   == record'[n]
           new == [node |-> n, count |-> e.version[n], body |-> e.body]
<1>1. e \in Entry /\ NewChange(n, e) /\ made' = made \cup {new}
  BY OwnAfter
<1>2. e.body \in Body /\ e.version[n] \in Int
  BY <1>1, CounterOf DEF Entry
<1>3. new \in Past(made', e.version) /\ new.body = e.body
  BY <1>1, <1>2 DEF Past
<1>4. ASSUME NEW c \in Past(made', e.version)
      PROVE  WinnerBody(e.body, c.body) = e.body
  <2>1. CASE c = new
    BY <1>2, <2>1, AtLeastOrder DEF AtLeast
  <2>2. CASE c \in made
    <3>1. c.count <= e.version[c.node] /\ c.body \in Body
      BY <2>2, ChangeTyped DEF Past, TypeOK
    <3>2. c.body.stamp < e.body.stamp
      BY <1>1, <2>2, <3>1, NewOutranks
    <3>3. QED
      BY <1>2, <3>1, <3>2, StampRanks DEF AtLeast
  <2>3. QED
    BY <1>1, <2>1, <2>2 DEF Past
<1>5. QED
  BY <1>3, <1>4 DEF Canonical

LEMMA CanonicalStep ==
    ASSUME TypeOK, OwnHighest, PendingNeverLeaks, AllCanonical, NEW n \in Node,
           OneOfTheKinds(n)
    PROVE  AllCanonical'
<1> DEFINE S == {x \in Entry : Canonical(made', x)}
<1>1. TypeOK'
  BY TypeStep
<1>2. made' \in SUBSET Change /\ record'[n] \in Entry
  BY <1>1 DEF TypeOK
<1>3. \A a, b \in S : Resolved(a, b) \in S
  BY <1>2, ResolvedEntry, CanonicalResolved
<1>4. Absent \in S
  BY AbsentEntry DEF Canonical
<1>5. ASSUME NEW m \in Node, NEW x,
             \/ x \in Outside(m)
             \/ /\ m # n \/ ~Reverted(n) \/ kept[n] = record[n]
                /\ x \in Carried(m)
      PROVE  x \in S
  <2>1. x \in Carried(m)
    BY <1>5 DEF Carried
  <2>2. ASSUME Reverted(n)
        PROVE  x.version[n] <= kept[n].version[n]
    <3>1. pending[n]
      BY <2>2 DEF Reverted
    <3>2. CASE x \in Outside(m) \/ m # n
      BY <2>1, <3>1, <3>2 DEF PendingNeverLeaks, Carried
    <3>3. CASE kept[n] = record[n]
      BY <2>1, <3>3 DEF OwnHighest
    <3>4. QED
      BY <1>5, <2>2, <3>2, <3>3
  <2>3. QED
    BY <2>1, <2>2, StillCanonical
<1>6. PICK extra \in SUBSET UNION {sent[m] : m \in Node} :
          extra \subseteq Entry /\ InboxMoves(n, extra)
  BY ExtraOf
<1> HIDE DEF S
<1>7. Outside(n) \subseteq S /\ extra \subseteq S /\ kept[n] \in S /\ sent[n] \subseteq S
  <2>1. Outside(n) \subseteq S
    BY <1>5
  <2>2. ASSUME NEW m \in Node
        PROVE  sent[m] \subseteq S
    <3>1. sent[m] \subseteq Outside(m)
      BY DEF Outside
    <3>2. QED
      BY <1>5, <3>1
  <2>3. QED
    BY <1>6, <2>1, <2>2 DEF Outside
<1>8. ~Reverted(n) => record[n] \in S /\ want[n].entry \in S
  BY <1>5 DEF Carried
<1>9. record'[n] \in S
  <2>1. CASE Quiet(n) \/ Announced(n) \/ Taken(n)
    <3>1. CASE Reverted(n)
      BY <1>7, <3>1, OwnAfter
    <3>2. CASE ~Reverted(n)
      BY <1>8, <2>1, <3>2, OwnAfter
    <3>3. QED
      BY <3>1, <3>2
  <2>2. CASE Changed(n)
    BY <1>2, <2>2, NewIsCanonical DEF S
  <2>3. CASE Reverted(n)
    BY <1>7, <2>3, OwnAfter
  <2>4. QED
    BY <2>1, <2>2, <2>3 DEF OneOfTheKinds
<1>10. kept'[n] \in S
  <2>1. CASE Changed(n)
    <3>1. ~Reverted(n) \/ Reverted(n)
      OBVIOUS
    <3>2. QED
      BY <1>4, <1>7, <1>8, <2>1, OwnAfter
  <2>2. QED
    BY <1>4, <1>7, <2>1, OwnAfter DEF OneOfTheKinds
<1>11. sent'[n] \subseteq S
  <2>1. CASE Announced(n)
    BY <1>7, <1>9, <2>1, OwnAfter
  <2>2. QED
    BY <1>7, <2>1, OwnAfter DEF OneOfTheKinds
<1>12. record'[n] = record[n] => want[n].entry \in S
  <2>1. CASE Reverted(n)
    BY <1>5, <2>1, OwnAfter DEF Carried
  <2>2. CASE ~Reverted(n)
    BY <1>8, <2>2
  <2>3. QED
    BY <2>1, <2>2
<1>13. Carried(n)' \subseteq S
  BY <1>3, <1>4, <1>6, <1>7, <1>9, <1>10, <1>11, <1>12, CarriedAfter
<1>14. ASSUME NEW m \in Node \ {n}
       PROVE  Carried(m)' \subseteq S
  BY <1>5, OthersKeep
<1>15. \A m \in Node : Carried(m)' \subseteq S
  BY <1>13, <1>14
<1>16. QED
  BY <1>15 DEF S, AllCanonical

-----------------------------------------------------------------------------
(* The invariant holds of every behaviour                                     *)

LEMMA InitInvariant ==
    ASSUME Init
    PROVE  IInv
<1>1. Absent \in Entry /\ NoWant \in Want
  BY AbsentEntry, NoWantIsWant
<1>2. ASSUME NEW n \in Node
      PROVE  /\ record[n] = Absent /\ kept[n] = Absent /\ ~pending[n]
             /\ want[n] = NoWant /\ sent[n] = {} /\ got[n] = {}
             /\ deferred[n] = {} /\ frozen[n] = {}
             /\ held[n] = {} /\ denied[n] = {}
  BY DEF Init
<1>3. TypeOK
  <2>1. record \in [Node -> Entry] /\ kept \in [Node -> Entry] /\ want \in [Node -> Want]
    BY <1>1 DEF Init
  <2>2. made \in SUBSET Change
    BY DEF Init
  <2>3. /\ fresh \in [Node -> BOOLEAN] /\ pending \in [Node -> BOOLEAN]
        /\ keptFresh \in [Node -> BOOLEAN] /\ paused \in [Node -> BOOLEAN]
    BY DEF Init
  <2>4. /\ deferred \in [Node -> SUBSET Entry] /\ frozen \in [Node -> SUBSET Entry]
        /\ held \in [Node -> SUBSET Item] /\ denied \in [Node -> SUBSET Item]
        /\ sent \in [Node -> SUBSET Entry] /\ got \in [Node -> SUBSET Entry]
    BY DEF Init
  <2>5. QED
    BY <2>1, <2>2, <2>3, <2>4 DEF TypeOK
<1>4. made = {}
  BY DEF Init
<1>5. ASSUME NEW n \in Node
      PROVE  Carried(n) \subseteq {Absent}
  <2>1. ItemEntries(Quarantine(n)) = {}
    BY <1>2 DEF Quarantine, ItemEntries
  <2>2. Outside(n) \subseteq {Absent}
    BY <1>2, <2>1 DEF Outside, NoWant
  <2>3. QED
    BY <1>2, <2>2 DEF Carried, NoWant
<1>6. OwnHighest
  <2>1. ASSUME NEW n \in Node, NEW m \in Node, NEW e \in Carried(m)
        PROVE  e.version[n] <= record[n].version[n]
    <3>1. e = record[n]
      BY <1>2, <1>5
    <3>2. QED
      BY <1>1, <1>2, <3>1, CounterOf
  <2>2. QED
    BY <2>1, <1>4 DEF OwnHighest
<1>7. PendingNeverLeaks /\ KeptCovers
  BY <1>2 DEF PendingNeverLeaks, KeptCovers
<1>8. AllCanonical
  BY <1>5 DEF AllCanonical, Canonical
<1>9. AuthorsOrdered
  BY <1>4 DEF AuthorsOrdered
<1>10. AnnouncedNeverRewinds
  BY <1>2 DEF AnnouncedNeverRewinds
<1>11. WantDominates
  BY <1>2 DEF WantDominates, NoWant
<1>12. QED
  BY <1>3, <1>6, <1>7, <1>8, <1>9, <1>10, <1>11 DEF IInv

LEMMA NextInvariant ==
    ASSUME IInv, Next
    PROVE  IInv'
<1>1. PICK n \in Node : OneOfTheKinds(n)
  BY StepKinds DEF IInv
<1>2. TypeOK'
  BY <1>1, TypeStep DEF IInv
<1>3. OwnHighest'
  BY <1>1, OwnHighestStep DEF IInv
<1>4. PendingNeverLeaks'
  BY <1>1, LeakStep DEF IInv
<1>5. AllCanonical'
  BY <1>1, CanonicalStep DEF IInv
<1>6. AuthorsOrdered'
  BY <1>1, AuthorsStep DEF IInv
<1>7. AnnouncedNeverRewinds' /\ KeptCovers'
  BY <1>1, RewindStep DEF IInv
<1>8. WantDominates'
  BY <1>1, WantStep DEF IInv
<1>9. QED
  BY <1>2, <1>3, <1>4, <1>5, <1>6, <1>7, <1>8 DEF IInv

LEMMA StutterInvariant ==
    ASSUME IInv, UNCHANGED vars
    PROVE  IInv'
<1>1. /\ record' = record /\ fresh' = fresh /\ pending' = pending /\ kept' = kept
      /\ keptFresh' = keptFresh /\ paused' = paused /\ want' = want
      /\ deferred' = deferred /\ frozen' = frozen /\ held' = held
      /\ denied' = denied /\ sent' = sent /\ got' = got /\ made' = made
  BY DEF vars, index, inbox
<1>2. TypeOK'
  BY <1>1 DEF IInv, TypeOK
<1>3. \A n \in Node : Outside(n)' = Outside(n) /\ Carried(n)' = Carried(n)
  BY <1>1 DEF Outside, Carried, Quarantine
<1>4. OwnHighest' /\ PendingNeverLeaks' /\ AllCanonical'
  BY <1>1, <1>3 DEF IInv, OwnHighest, PendingNeverLeaks, AllCanonical
<1>5. AuthorsOrdered' /\ KeptCovers' /\ AnnouncedNeverRewinds' /\ WantDominates'
  BY <1>1 DEF IInv, AuthorsOrdered, KeptCovers, AnnouncedNeverRewinds, WantDominates
<1>6. QED
  BY <1>2, <1>4, <1>5 DEF IInv

\* The inductive invariant holds of every behaviour, whatever is lost,
\* repeated or reordered, held, denied, reverted, failed or restarted.
THEOREM Invariance == Spec => []IInv
<1>1. Init => IInv
  BY InitInvariant
<1>2. IInv /\ [Next]_vars => IInv'
  BY NextInvariant, StutterInvariant
<1>3. QED
  BY <1>1, <1>2, PTL DEF Spec

-----------------------------------------------------------------------------
(* What it means                                                              *)

\* Every variable stays in its type: in particular no counter passes the top
\* of its range.
THEOREM TypeCorrect == Spec => []TypeOK
<1>1. IInv => TypeOK
  BY DEF IInv
<1>2. QED
  BY <1>1, Invariance, PTL

\* A want always dominates the record it will replace, so the adoption of a
\* finished commit is never refused and never drops a local change
\* (index.rs, the debug assertion of `adopt`).
THEOREM WantsDominate == Spec => []WantDominates
<1>1. IInv => WantDominates
  BY DEF IInv
<1>2. QED
  BY <1>1, Invariance, PTL

\* No machine's record falls behind anything it announced, though revert puts
\* an older record back (folder.rs, `revert`).
THEOREM AnnouncedStands == Spec => []AnnouncedNeverRewinds
<1>1. IInv => AnnouncedNeverRewinds
  BY DEF IInv
<1>2. QED
  BY <1>1, Invariance, PTL

\* A pending change is nowhere but in its own record and want: what a revert
\* discards nobody has seen (index.rs, `revert_pending`).
THEOREM PendingStaysHome == Spec => []PendingNeverLeaks
<1>1. IInv => PendingNeverLeaks
  BY DEF IInv
<1>2. QED
  BY <1>1, Invariance, PTL

\* Two entries with one version that say what their changes made of it say
\* the same.
LEMMA CanonicalUnique ==
    ASSUME NEW changes \in SUBSET Change, NEW a \in Entry, NEW b \in Entry,
           Canonical(changes, a), Canonical(changes, b), a.version = b.version
    PROVE  a.body = b.body
<1>1. CASE a = Absent \/ b = Absent
  BY <1>1, OnlyAbsentIsEmpty
<1>2. CASE a # Absent /\ b # Absent
  <2>1. PICK c \in Past(changes, a.version) : c.body = a.body
    BY <1>2 DEF Canonical
  <2>2. PICK d \in Past(changes, a.version) : d.body = b.body
    BY <1>2 DEF Canonical
  <2>3. WinnerBody(a.body, b.body) = a.body
    BY <1>2, <2>2 DEF Canonical
  <2>4. WinnerBody(b.body, a.body) = b.body
    BY <1>2, <2>1 DEF Canonical
  <2>5. QED
    BY <2>3, <2>4, WinnerSymmetric DEF Entry
<1>3. QED
  BY <1>1, <1>2

\* A version names one content on every machine, wherever it waits: merges
\* give the same content under the same vector in whatever order machines
\* meet the changes, and a counter a revert gave back is not taken for the
\* discarded change (conflict.rs, `merged`).
THEOREM VersionNamesContent == Spec => []SameVersionSameContent
<1>1. IInv => SameVersionSameContent
  <2>1. SUFFICES ASSUME IInv, NEW n \in Node, NEW m \in Node,
                        NEW a \in Carried(n), NEW b \in Carried(m),
                        a.version = b.version
                 PROVE  a.body = b.body
    BY DEF SameVersionSameContent
  <2>2. TypeOK /\ AllCanonical
    BY <2>1 DEF IInv
  <2>3. a \in Entry /\ b \in Entry /\ made \in SUBSET Change
    BY <2>2, TypesOf DEF TypeOK
  <2>4. Canonical(made, a) /\ Canonical(made, b)
    BY <2>2 DEF AllCanonical
  <2>5. QED
    BY <2>1, <2>3, <2>4, CanonicalUnique
<1>2. QED
  BY <1>1, Invariance, PTL

\* Bodies only the total fallback would tell apart are one change's.
LEMMA FallbackSameContent ==
    ASSUME made \in SUBSET Change, AuthorsOrdered, NEW a \in Entry, NEW b \in Entry,
           Canonical(made, a), Canonical(made, b)
    PROVE  ~DecidedByFallback(a, b)
<1>1. SUFFICES ASSUME DecidedByFallback(a, b)
               PROVE  FALSE
  OBVIOUS
<1>2. /\ Conflicts(a, b) /\ ~SameContent(a.body, b.body) /\ Tied(a.body, b.body)
  BY <1>1 DEF DecidedByFallback, Winner
<1>3. a # Absent /\ b # Absent
  <2>1. \A x \in Version : DominatesOrEquals(x, Empty)
    BY EmptyVersion, VersionOrder, Counters DEF Empty
  <2>2. a.version \in Version /\ b.version \in Version
    BY DEF Entry
  <2>3. ~DominatesOrEquals(a.version, b.version) /\ ~DominatesOrEquals(b.version, a.version)
    BY <1>2, <2>2, VersionOrder DEF Conflicts
  <2>4. QED
    BY <2>1, <2>2, <2>3 DEF Absent
<1>4. PICK c \in made : c.body = a.body
  BY <1>3 DEF Canonical, Past
<1>5. PICK d \in made : d.body = b.body
  BY <1>3 DEF Canonical, Past
<1>6. a.body.by = b.body.by /\ a.body.stamp = b.body.stamp /\ a.body.stamp \in Int
  BY <1>2, TiedFields DEF Entry, Body
<1>7. c.node = d.node
  BY <1>4, <1>5, <1>6 DEF AuthorsOrdered
<1>8. c.count \in Int /\ d.count \in Int
  BY ChangeTyped
<1>9. c = d
  BY <1>4, <1>5, <1>6, <1>7, <1>8 DEF AuthorsOrdered
<1>10. QED
  BY <1>2, <1>4, <1>5, <1>9 DEF SameContent

\* No merge of two different contents is ever decided by comparing hashes:
\* changes of different authors are told apart by the author, and those of one
\* author by a stamp that rises with every change, bump and re-made change
\* (conflict.rs, `total_fallback`: "Should never happen").
THEOREM FallbackUnreached == Spec => []NeverFallback
<1>1. IInv => NeverFallback
  <2>1. SUFFICES ASSUME IInv, NEW n \in Node,
                        NEW e \in (UNION {sent[m] : m \in Node})
                                  \cup deferred[n] \cup frozen[n]
                 PROVE  ~DecidedByFallback(e, record[n])
    BY DEF NeverFallback
  <2>2. TypeOK /\ AllCanonical /\ AuthorsOrdered /\ made \in SUBSET Change
    BY <2>1 DEF IInv, TypeOK
  <2>3. \E m \in Node : e \in Carried(m)
    BY DEF Carried, Outside
  <2>4. record[n] \in Carried(n)
    BY DEF Carried
  <2>5. e \in Entry /\ record[n] \in Entry
    BY <2>2, <2>3, TypesOf
  <2>6. Canonical(made, e) /\ Canonical(made, record[n])
    BY <2>2, <2>3, <2>4 DEF AllCanonical
  <2>7. QED
    BY <2>2, <2>5, <2>6, FallbackSameContent
<1>2. QED
  BY <1>1, Invariance, PTL

-----------------------------------------------------------------------------
(* Nothing acknowledged is lost                                               *)

Overs(items) == UNION {i.over : i \in items}

\* Some entry of S counts as many of k's changes as c.
UpTo(k, c, S) == \E x \in S : c <= x.version[k]

\* What a want resolves to counts no more than its raw entry and the record it
\* was resolved against.
Shape(w, r) ==
    \A k \in Node :
        /\ w.raw.version[k] <= w.entry.version[k]
        /\ \/ w.entry.version[k] <= r.version[k]
           \/ w.state # "none" /\ w.entry.version[k] <= w.raw.version[k]

Raws(w) == IF w.state = "none" THEN {} ELSE {w.raw}

LEMMA ShapeOfNoWant ==
    ASSUME NEW r \in Entry
    PROVE  Shape(NoWant, r)
<1>1. ASSUME NEW k \in Node
      PROVE  /\ NoWant.raw.version[k] <= NoWant.entry.version[k]
             /\ NoWant.entry.version[k] <= r.version[k]
  <2>1. 0 <= r.version[k]
    BY CounterOf
  <2>2. NoWant.raw.version[k] = 0 /\ NoWant.entry.version[k] = 0
    BY DEF NoWant, Absent, Empty
  <2>3. QED
    BY <2>1, <2>2
<1>2. QED
  BY <1>1 DEF Shape

LEMMA ShapeOfWantFor ==
    ASSUME NEW e \in Entry, NEW r \in Entry
    PROVE  Shape(WantFor(e, r), r) /\ Raws(WantFor(e, r)) = {e}
<1>1. /\ WantFor(e, r).raw = e /\ WantFor(e, r).entry = Resolved(e, r)
      /\ WantFor(e, r).state = "wanted"
  BY DEF WantFor
<1>2. ASSUME NEW k \in Node
      PROVE  /\ e.version[k] <= Resolved(e, r).version[k]
             /\ \/ Resolved(e, r).version[k] <= r.version[k]
                \/ Resolved(e, r).version[k] <= e.version[k]
  <2>1. e.version[k] \in Int /\ r.version[k] \in Int
    BY CounterOf
  <2>2. CASE Conflicts(e, r)
    BY <2>1, <2>2, MergeVersion DEF Resolved, Merged, Entry
  <2>3. CASE ~Conflicts(e, r)
    BY <2>1, <2>3 DEF Resolved
  <2>4. QED
    BY <2>2, <2>3
<1>3. QED
  BY <1>1, <1>2 DEF Shape, Raws

LEMMA ShapeWider ==
    ASSUME NEW w \in Want, NEW r \in Entry, NEW s \in Entry, Shape(w, r),
           \A k \in Node : r.version[k] <= s.version[k]
    PROVE  Shape(w, s)
<1>1. ASSUME NEW k \in Node
      PROVE  w.entry.version[k] <= r.version[k] => w.entry.version[k] <= s.version[k]
  <2>1. /\ w.entry.version[k] \in Int /\ r.version[k] \in Int
        /\ s.version[k] \in Int
    BY CounterOf DEF Want
  <2>2. QED
    BY <2>1
<1>2. QED
  BY <1>1 DEF Shape

\* A want stands for whatever its entry covers: the record or its raw entry
\* has as much.
LEMMA WantStandsFor ==
    ASSUME NEW w \in Want, NEW r \in Entry, Shape(w, r), NEW e \in Entry,
           \A k \in Node : e.version[k] <= w.entry.version[k], NEW k \in Node
    PROVE  UpTo(k, e.version[k], {r} \cup Raws(w))
<1>1. /\ e.version[k] \in Int /\ w.entry.version[k] \in Int /\ r.version[k] \in Int
      /\ w.raw.version[k] \in Int
  BY CounterOf DEF Want
<1>2. CASE w.entry.version[k] <= r.version[k]
  BY <1>1, <1>2 DEF UpTo
<1>3. CASE w.state # "none" /\ w.entry.version[k] <= w.raw.version[k]
  BY <1>1, <1>3 DEF UpTo, Raws
<1>4. QED
  BY <1>2, <1>3 DEF Shape

\* What an admission does: every item keeps its versions, what waited waits,
\* and all that was admitted or wanted is in the record, the want, the
\* deferred entries or the items.
Keeping(n, raws, r, w, items, waiting) ==
    /\ Shape(want'[n], r)
    /\ want'[n] \in Want
    /\ waiting \subseteq deferred'[n]
    /\ \A i \in items : \E j \in held'[n] : i.over \subseteq j.over
    /\ \A k \in Node, e \in raws \cup {w.raw} :
          UpTo(k, e.version[k],
               {r} \cup Raws(want'[n]) \cup deferred'[n] \cup Overs(held'[n]))

LEMMA InsertKeeps ==
    ASSUME TypeOK, NEW n \in Node, NEW raws \in SUBSET Entry, NEW r \in Entry,
           NEW w \in Want, NEW waiting \in SUBSET Entry, Shape(w, r),
           Insert(n, raws, r, w, waiting)
    PROVE  /\ Shape(want'[n], r) /\ want'[n] \in Want
           /\ waiting \subseteq deferred'[n]
           /\ \A k \in Node : w.entry.version[k] <= want'[n].entry.version[k]
           /\ \A k \in Node, e \in raws :
                 UpTo(k, e.version[k], {r} \cup Raws(want'[n]) \cup deferred'[n])
<1>1. PICK top \in {WantFor(e, r) : e \in raws} \cup {w}, late \in SUBSET raws :
        /\ want'     = [want EXCEPT ![n] = top]
        /\ deferred' = [deferred EXCEPT ![n] = waiting \cup late]
        /\ top = w \/ Dominates(top.entry.version, w.entry.version)
        /\ \A e \in raws : e \notin late =>
              DominatesOrEquals(top.entry.version, Resolved(e, r).version)
  BY DEF Insert
<1>2. top \in Want /\ Shape(top, r)
  BY ShapeOfWantFor, WantForIsWant
<1>3. want'[n] = top /\ deferred'[n] = waiting \cup late
  BY <1>1 DEF TypeOK
<1>4. top.entry.version \in Version /\ w.entry.version \in Version
  BY <1>2 DEF Want, Entry
<1>5. ASSUME NEW k \in Node
      PROVE  w.entry.version[k] <= top.entry.version[k]
  <2>1. w.entry.version[k] \in Int
    BY <1>4, Counters
  <2>2. QED
    BY <1>1, <1>4, <2>1, VersionOrder
<1>6. ASSUME NEW k \in Node, NEW e \in raws
      PROVE  UpTo(k, e.version[k], {r} \cup Raws(top) \cup deferred'[n])
  <2>1. CASE e \in late
    <3>1. e.version[k] \in Int
      BY CounterOf
    <3>2. e \in deferred'[n] /\ e.version[k] <= e.version[k]
      BY <1>3, <2>1, <3>1
    <3>3. QED
      BY <3>2 DEF UpTo
  <2>2. CASE e \notin late
    <3>1. Resolved(e, r) \in Entry
      BY ResolvedEntry
    <3>2. ASSUME NEW j \in Node
          PROVE  e.version[j] <= top.entry.version[j]
      <4>1. Resolved(e, r).version[j] <= top.entry.version[j]
        BY <1>1, <1>4, <2>2, <3>1, VersionOrder DEF Entry
      <4>2. e.version[j] <= Resolved(e, r).version[j]
        BY ShapeOfWantFor DEF Shape, WantFor
      <4>3. /\ e.version[j] \in Int /\ Resolved(e, r).version[j] \in Int
            /\ top.entry.version[j] \in Int
        BY <1>2, <3>1, CounterOf DEF Want
      <4>4. QED
        BY <4>1, <4>2, <4>3
    <3>3. UpTo(k, e.version[k], {r} \cup Raws(top))
      BY <1>2, <3>2, WantStandsFor
    <3>4. QED
      BY <3>3 DEF UpTo
  <2>3. QED
    BY <2>1, <2>2
<1>7. QED
  BY <1>1, <1>2, <1>3, <1>5, <1>6

LEMMA AdmitKeeps ==
    ASSUME TypeOK, NEW n \in Node, NEW raws \in SUBSET Entry, NEW r \in Entry,
           NEW w \in Want, NEW items \in SUBSET Item, Shape(w, r),
           NEW waiting \in SUBSET Entry, NEW brake,
           Admit(n, raws, r, w, items, waiting, brake)
    PROVE  Keeping(n, raws, r, w, items, waiting)
<1> DEFINE news    == {e \in raws : Applies(e, r) /\ ~AlreadyWanted(w, Resolved(e, r))}
           joiners == {e \in news : Matching(items, e) # {}}
<1>1. PICK stopped \in SUBSET (news \ joiners), to \in [joiners -> items],
           latest \in [items -> joiners \cup {i.kept : i \in items}] :
           /\ held' = [held EXCEPT ![n] =
                          Quarantined(items, joiners, to, latest, stopped)]
           /\ Insert(n, news \ (joiners \cup stopped), r, w, waiting)
  BY DEF Admit
<1> DEFINE its == Quarantined(items, joiners, to, latest, stopped)
           all == {r} \cup Raws(want'[n]) \cup deferred'[n] \cup Overs(held'[n])
           wanted == news \ (joiners \cup stopped)
<1>2. held'[n] = its
  BY <1>1 DEF TypeOK
<1>3. wanted \in SUBSET Entry
  OBVIOUS
<1>4. /\ Shape(want'[n], r) /\ want'[n] \in Want
      /\ waiting \subseteq deferred'[n]
      /\ \A k \in Node : w.entry.version[k] <= want'[n].entry.version[k]
      /\ \A k \in Node, e \in wanted :
            UpTo(k, e.version[k], {r} \cup Raws(want'[n]) \cup deferred'[n])
  <2> HIDE DEF news, joiners
  <2>1. QED
    BY <1>1, <1>3, InsertKeeps
<1>5. ASSUME NEW i \in items
      PROVE  /\ [kept |-> latest[i], over |-> i.over \cup {e \in joiners : to[e] = i}]
                    \in held'[n]
             /\ i.over \cup {e \in joiners : to[e] = i} \subseteq Overs(held'[n])
  <2>1. [kept |-> latest[i], over |-> i.over \cup {e \in joiners : to[e] = i}] \in its
    BY DEF Quarantined
  <2>2. ASSUME NEW q \in i.over \cup {e \in joiners : to[e] = i}
        PROVE  \E j \in its : q \in j.over
    BY <2>1
  <2> HIDE DEF its, joiners
  <2>3. i.over \cup {e \in joiners : to[e] = i} \subseteq Overs(its)
    BY <2>2 DEF Overs
  <2>4. QED
    BY <1>2, <2>1, <2>3
<1>6. joiners \subseteq Overs(held'[n])
  BY <1>5
<1>7. stopped \subseteq Overs(held'[n])
  <2>1. ASSUME NEW e \in stopped
        PROVE  [kept |-> e, over |-> {e}] \in its
    BY DEF Quarantined
  <2>2. ASSUME NEW e \in stopped
        PROVE  \E j \in its : e \in j.over
    BY <2>1
  <2> HIDE DEF its
  <2>3. QED
    BY <1>2, <2>2 DEF Overs
<1>8. want'[n].entry \in Entry /\ \A k \in Node : UpTo(k, w.raw.version[k], all)
  <2>1. w.raw \in Entry /\ w.entry \in Entry /\ want'[n].entry \in Entry
    BY <1>4 DEF Want
  <2>2. ASSUME NEW k \in Node
        PROVE  w.raw.version[k] <= want'[n].entry.version[k]
    <3>1. /\ w.raw.version[k] \in Int /\ w.entry.version[k] \in Int
          /\ want'[n].entry.version[k] \in Int
      BY <2>1, CounterOf
    <3>2. w.raw.version[k] <= w.entry.version[k]
      BY DEF Shape
    <3>3. w.entry.version[k] <= want'[n].entry.version[k]
      BY <1>4
    <3>4. QED
      BY <3>1, <3>2, <3>3
  <2>3. \A k \in Node : UpTo(k, w.raw.version[k], {r} \cup Raws(want'[n]))
    BY <1>4, <2>1, <2>2, WantStandsFor
  <2>4. QED
    BY <2>1, <2>3 DEF UpTo
<1>9. ASSUME NEW k \in Node, NEW e \in raws
      PROVE  UpTo(k, e.version[k], all)
  <2>1. e.version[k] \in Int /\ r.version[k] \in Int
    BY CounterOf
  <2>2. CASE ~Applies(e, r)
    <3>1. DominatesOrEquals(r.version, e.version)
      BY <2>2, VersionOrder DEF Applies, Conflicts, Entry, Dominates
    <3>2. e.version[k] <= r.version[k]
      BY <3>1, VersionOrder DEF Entry
    <3>3. QED
      BY <3>2 DEF UpTo
  <2>3. CASE AlreadyWanted(w, Resolved(e, r))
    <3>1. Resolved(e, r) \in Entry /\ w.entry \in Entry
      BY ResolvedEntry DEF Want
    <3>2. ASSUME NEW j \in Node
          PROVE  e.version[j] <= want'[n].entry.version[j]
      <4>1. Resolved(e, r).version[j] <= w.entry.version[j]
        BY <2>3, <3>1, VersionOrder DEF AlreadyWanted, Entry
      <4>2. e.version[j] <= Resolved(e, r).version[j]
        BY ShapeOfWantFor DEF Shape, WantFor
      <4>3. w.entry.version[j] <= want'[n].entry.version[j]
        BY <1>4
      <4>4. /\ e.version[j] \in Int /\ Resolved(e, r).version[j] \in Int
            /\ w.entry.version[j] \in Int /\ want'[n].entry.version[j] \in Int
        BY <1>8, <3>1, CounterOf
      <4>5. QED
        BY <4>1, <4>2, <4>3, <4>4
    <3>3. UpTo(k, e.version[k], {r} \cup Raws(want'[n]))
      BY <1>4, <3>2, WantStandsFor
    <3>4. QED
      BY <3>3 DEF UpTo
  <2>4. CASE e \in joiners \cup stopped
    <3>1. e \in all
      BY <1>6, <1>7, <2>4
    <3>2. e.version[k] <= e.version[k]
      BY <2>1
    <3>3. QED
      BY <3>1, <3>2 DEF UpTo
  <2>5. CASE e \in wanted
    <3>1. UpTo(k, e.version[k], {r} \cup Raws(want'[n]) \cup deferred'[n])
      BY <1>4, <2>5
    <3>2. QED
      BY <3>1 DEF UpTo
  <2>6. QED
    BY <2>2, <2>3, <2>4, <2>5
<1>10. \A i \in items : \E j \in held'[n] : i.over \subseteq j.over
  BY <1>5
<1>11. \A k \in Node, e \in raws \cup {w.raw} : UpTo(k, e.version[k], all)
  BY <1>8, <1>9
<1>12. QED
  BY <1>4, <1>10, <1>11 DEF Keeping

\* What n has of the changes it was told about, besides its record.
Waiting(n) == Raws(want[n]) \cup deferred[n] \cup frozen[n]

Has(n) == {record[n]} \cup Waiting(n) \cup Overs(Quarantine(n))

\* A step of n forgets nothing: what waited, was quarantined or is new is
\* in the record, or still waits or is quarantined.
Remembers(n) ==
    \A k \in Node, y \in Waiting(n) \cup Overs(Quarantine(n)) \cup (got'[n] \ got[n]) :
        UpTo(k, y.version[k], Has(n)')

Stays(n) == Remembers(n) /\ Shape(want'[n], record'[n])

OversStay(n) == Overs(Quarantine(n)) \subseteq Overs(Quarantine(n))'

LEMMA OversTyped ==
    ASSUME NEW items \in SUBSET Item
    PROVE  Overs(items) \subseteq Entry
  BY DEF Overs, Item

LEMMA HasEntries ==
    ASSUME TypeOK, NEW n \in Node
    PROVE  /\ Has(n) \subseteq Entry
           /\ Waiting(n) \subseteq Entry /\ Overs(Quarantine(n)) \subseteq Entry
           /\ Overs(held[n]) \subseteq Entry /\ Overs(denied[n]) \subseteq Entry
           /\ Overs(Quarantine(n)) = Overs(held[n]) \cup Overs(denied[n])
           /\ Raws(want[n]) = RawWant(n)
           /\ Raws(want[n]) \subseteq {want[n].raw}
<1>2. /\ held[n] \in SUBSET Item /\ denied[n] \in SUBSET Item
      /\ record[n] \in Entry /\ want[n].raw \in Entry
      /\ deferred[n] \subseteq Entry /\ frozen[n] \subseteq Entry
  BY TypesOf
<1>3. Overs(Quarantine(n)) = Overs(held[n]) \cup Overs(denied[n])
  BY DEF Overs, Quarantine
<1>4. /\ Raws(want[n]) = RawWant(n)
      /\ Raws(want[n]) \subseteq {want[n].raw}
  BY DEF Raws, RawWant
<1>5. Overs(held[n]) \subseteq Entry /\ Overs(denied[n]) \subseteq Entry
  BY <1>2, OversTyped
<1>6. Waiting(n) \subseteq Entry
  BY <1>2, <1>4 DEF Waiting
<1>7. QED
  BY <1>2, <1>3, <1>4, <1>5, <1>6 DEF Has

LEMMA HasEntriesAfter ==
    ASSUME TypeOK', NEW n \in Node
    PROVE  /\ Has(n)' = {record'[n]} \cup Raws(want'[n]) \cup deferred'[n]
                        \cup frozen'[n] \cup Overs(held'[n]) \cup Overs(denied'[n])
           /\ Has(n)' \subseteq Entry
<1>1. Overs(Quarantine(n))' = Overs(held'[n]) \cup Overs(denied'[n])
  BY DEF Overs, Quarantine
<1>2. Has(n)' = {record'[n]} \cup Raws(want'[n]) \cup deferred'[n] \cup frozen'[n]
                 \cup Overs(held'[n]) \cup Overs(denied'[n])
  BY <1>1 DEF Has, Waiting
<1>3. /\ held'[n] \in SUBSET Item /\ denied'[n] \in SUBSET Item
      /\ record'[n] \in Entry /\ want'[n] \in Want
      /\ deferred'[n] \subseteq Entry /\ frozen'[n] \subseteq Entry
  BY DEF TypeOK
<1>4. Overs(held'[n]) \subseteq Entry /\ Overs(denied'[n]) \subseteq Entry
  BY <1>3, OversTyped
<1>5. Raws(want'[n]) \subseteq Entry
  BY <1>3 DEF Raws, Want
<1>6. QED
  BY <1>2, <1>3, <1>4, <1>5

LEMMA InIsUpTo ==
    ASSUME NEW S, NEW x \in S, x \in Entry, NEW k \in Node
    PROVE  UpTo(k, x.version[k], S)
<1>1. x.version[k] <= x.version[k]
  BY CounterOf
<1>2. QED
  BY <1>1 DEF UpTo

LEMMA UpToTransitive ==
    ASSUME NEW S \in SUBSET Entry, NEW x \in Entry, NEW y \in Entry, NEW k \in Node,
           y.version[k] <= x.version[k], UpTo(k, x.version[k], S)
    PROVE  UpTo(k, y.version[k], S)
<1>1. PICK z \in S : x.version[k] <= z.version[k]
  BY DEF UpTo
<1>2. x.version[k] \in Int /\ y.version[k] \in Int /\ z.version[k] \in Int
  BY CounterOf
<1>3. QED
  BY <1>1, <1>2 DEF UpTo

LEMMA AdmitRemembers ==
    ASSUME TypeOK, TypeOK', NEW n \in Node, NEW raws \in SUBSET Entry, NEW w \in Want,
           NEW items \in SUBSET Item, Shape(w, record'[n]),
           NEW waiting \in SUBSET Entry, NEW brake,
           Admit(n, raws, record'[n], w, items, waiting, brake)
    PROVE  /\ Shape(want'[n], record'[n])
           /\ Overs(items) \subseteq Overs(held'[n])
           /\ \A k \in Node, y \in raws \cup waiting \cup {w.raw} \cup Overs(items)
                                  \cup frozen'[n] \cup Overs(denied'[n]) :
                 UpTo(k, y.version[k], Has(n)')
<1>1. record'[n] \in Entry
  BY DEF TypeOK
<1>2. Keeping(n, raws, record'[n], w, items, waiting)
  BY <1>1, AdmitKeeps
<1>3. /\ Has(n)' = {record'[n]} \cup Raws(want'[n]) \cup deferred'[n] \cup frozen'[n]
                   \cup Overs(held'[n]) \cup Overs(denied'[n])
      /\ Has(n)' \subseteq Entry
  BY HasEntriesAfter
<1>4. Overs(items) \subseteq Overs(held'[n])
  BY <1>2 DEF Keeping, Overs
<1>5. ASSUME NEW k \in Node, NEW y \in raws \cup {w.raw}
      PROVE  UpTo(k, y.version[k], Has(n)')
  <2>1. UpTo(k, y.version[k],
             {record'[n]} \cup Raws(want'[n]) \cup deferred'[n] \cup Overs(held'[n]))
    BY <1>2 DEF Keeping
  <2>2. QED
    BY <1>3, <2>1 DEF UpTo
<1>6. ASSUME NEW k \in Node,
             NEW y \in waiting \cup Overs(items) \cup frozen'[n] \cup Overs(denied'[n])
      PROVE  UpTo(k, y.version[k], Has(n)')
  <2>1. y \in Has(n)'
    BY <1>2, <1>3, <1>4 DEF Keeping
  <2>2. QED
    BY <1>3, <2>1, InIsUpTo
<1>7. QED
  BY <1>2, <1>4, <1>5, <1>6 DEF Keeping

\* A machine that does not touch its inbox and its record still has all it had.
LEMMA SameInbox ==
    ASSUME TypeOK, NEW n \in Node, Shape(want[n], record[n]),
           record'[n] = record[n], got'[n] = got[n], frozen'[n] = frozen[n],
           held'[n] = held[n], deferred'[n] = deferred[n],
           want'[n].raw = want[n].raw, want'[n].entry = want[n].entry,
           want[n].state # "none" => want'[n].state # "none",
           \/ denied'[n] = denied[n]
           \/ \A q \in Overs(denied[n]) : \A k \in Node :
                 q.version[k] <= record[n].version[k]
    PROVE  Stays(n)
<1>1. /\ Waiting(n) \subseteq Waiting(n)'
      /\ Has(n)' = {record[n]} \cup Waiting(n)' \cup Overs(held[n]) \cup Overs(denied'[n])
  BY DEF Has, Waiting, Raws, Overs, Quarantine
<1>2. ASSUME NEW k \in Node, NEW y \in Waiting(n) \cup Overs(Quarantine(n))
      PROVE  UpTo(k, y.version[k], Has(n)')
  <2>1. CASE y \in Has(n)'
    BY <2>1, HasEntries, InIsUpTo
  <2>2. CASE y \notin Has(n)'
    <3>1. y \in Overs(denied[n]) /\ denied'[n] # denied[n]
      BY <1>1, <2>2, HasEntries
    <3>2. y.version[k] <= record[n].version[k]
      BY <3>1
    <3>3. QED
      BY <1>1, <3>2 DEF UpTo
  <2>3. QED
    BY <2>1, <2>2
<1>3. Shape(want'[n], record'[n])
  BY DEF Shape
<1>4. QED
  BY <1>2, <1>3 DEF Stays, Remembers

\* A local change at the path.
LEMMA LocalChangeStays ==
    ASSUME TypeOK, TypeOK', NEW n \in Node, NEW e \in Entry, LocalChange(n, e)
    PROVE  Stays(n) /\ OversStay(n)
<1>1. /\ record'[n] = e
      /\ Admit(n, RawWant(n) \cup deferred[n], e, NoWant, held[n], {}, n \in Braking)
      /\ frozen' = frozen /\ denied' = denied /\ got' = got
  BY DEF LocalChange, Write, TypeOK
<1>2. /\ RawWant(n) \cup deferred[n] \in SUBSET Entry /\ held[n] \in SUBSET Item
      /\ {} \in SUBSET Entry /\ NoWant \in Want /\ Shape(NoWant, e)
  BY TypesOf, HasEntries, NoWantIsWant, ShapeOfNoWant DEF Waiting
<1>3. /\ Shape(want'[n], record'[n])
      /\ Overs(held[n]) \subseteq Overs(held'[n])
      /\ \A k \in Node, y \in (RawWant(n) \cup deferred[n]) \cup {} \cup {NoWant.raw}
                              \cup Overs(held[n]) \cup frozen'[n] \cup Overs(denied'[n]) :
            UpTo(k, y.version[k], Has(n)')
  BY <1>1, <1>2, AdmitRemembers
<1>4. Waiting(n) = RawWant(n) \cup deferred[n] \cup frozen[n]
  BY HasEntries DEF Waiting
<1>5. Overs(Quarantine(n))' = Overs(held'[n]) \cup Overs(denied'[n])
  BY DEF Overs, Quarantine
<1>6. OversStay(n)
  BY <1>1, <1>3, <1>5, HasEntries DEF OversStay
<1>7. Remembers(n)
  BY <1>1, <1>3, <1>4, HasEntries DEF Remembers
<1>8. QED
  BY <1>3, <1>6, <1>7 DEF Stays

\* What waited is admitted again and nothing else moves.
LEMMA ReadmitStays ==
    ASSUME TypeOK, TypeOK', NEW n \in Node, Shape(want[n], record[n]),
           NEW w \in Want, w.raw = want[n].raw, w.entry = want[n].entry,
           want[n].state # "none" => w.state # "none",
           Admit(n, deferred[n], record[n], w, held[n], {}, n \in Braking),
           UNCHANGED <<index, paused, frozen, denied, sent, got, made>>
    PROVE  Stays(n) /\ OversStay(n)
<1>1. record' = record /\ frozen' = frozen /\ denied' = denied /\ got' = got
  BY DEF index
<1>2. /\ deferred[n] \in SUBSET Entry /\ held[n] \in SUBSET Item
      /\ {} \in SUBSET Entry /\ Shape(w, record[n])
  BY TypesOf DEF Shape
<1>3. /\ Shape(want'[n], record'[n])
      /\ Overs(held[n]) \subseteq Overs(held'[n])
      /\ \A k \in Node, y \in deferred[n] \cup {} \cup {w.raw}
                              \cup Overs(held[n]) \cup frozen'[n] \cup Overs(denied'[n]) :
            UpTo(k, y.version[k], Has(n)')
  BY <1>1, <1>2, AdmitRemembers
<1>4. Waiting(n) \subseteq {w.raw} \cup deferred[n] \cup frozen[n]
  BY HasEntries DEF Waiting
<1>5. Overs(Quarantine(n))' = Overs(held'[n]) \cup Overs(denied'[n])
  BY DEF Overs, Quarantine
<1>6. OversStay(n)
  BY <1>1, <1>3, <1>5, HasEntries DEF OversStay
<1>7. Remembers(n)
  BY <1>1, <1>3, <1>4, HasEntries DEF Remembers
<1>8. QED
  BY <1>3, <1>6, <1>7 DEF Stays

\* A commit that is done, or one there is nothing to do for, ends the want.
LEMMA AdoptStays ==
    ASSUME TypeOK, TypeOK', NEW n \in Node, Shape(want[n], record[n]), Adopt(n)
    PROVE  Stays(n) /\ OversStay(n)
<1> DEFINE w       == want[n]
           taken   == DominatesOrEquals(w.entry.version, record[n].version)
           now     == IF taken THEN w.entry ELSE record[n]
           waiting == IF taken THEN deferred[n] ELSE deferred[n] \cup {w.raw}
<1>1. /\ record'[n] = now
      /\ Admit(n, waiting, now, NoWant, held[n], {}, n \in Braking)
      /\ frozen' = frozen /\ denied' = denied /\ got' = got
  BY DEF Adopt, TypeOK
<1>2. /\ waiting \in SUBSET Entry /\ held[n] \in SUBSET Item /\ now \in Entry
      /\ {} \in SUBSET Entry /\ NoWant \in Want /\ Shape(NoWant, now)
      /\ w.raw \in Entry /\ w.entry \in Entry
  BY TypesOf, NoWantIsWant, ShapeOfNoWant
<1> HIDE DEF now, waiting
<1>3. /\ Shape(want'[n], record'[n])
      /\ Overs(held[n]) \subseteq Overs(held'[n])
      /\ \A k \in Node, y \in waiting \cup {} \cup {NoWant.raw}
                              \cup Overs(held[n]) \cup frozen'[n] \cup Overs(denied'[n]) :
            UpTo(k, y.version[k], Has(n)')
  BY <1>1, <1>2, AdmitRemembers
<1>4. ASSUME NEW k \in Node
      PROVE  UpTo(k, w.raw.version[k], Has(n)')
  <2>1. CASE taken
    <3>1. record'[n] = w.entry
      BY <1>1, <2>1 DEF now
    <3>2. w.raw.version[k] <= record'[n].version[k]
      BY <3>1 DEF Shape
    <3>3. QED
      BY <3>2 DEF UpTo, Has
  <2>2. CASE ~taken
    <3>1. w.raw \in waiting
      BY <2>2 DEF waiting
    <3>2. QED
      BY <1>3, <3>1
  <2>3. QED
    BY <2>1, <2>2
<1>5. /\ Waiting(n) \subseteq {w.raw} \cup waiting \cup frozen[n]
  BY HasEntries DEF Waiting, waiting
<1>6. Overs(Quarantine(n))' = Overs(held'[n]) \cup Overs(denied'[n])
  BY DEF Overs, Quarantine
<1>7. OversStay(n)
  BY <1>1, <1>3, <1>6, HasEntries DEF OversStay
<1>8. Remembers(n)
  BY <1>1, <1>3, <1>4, <1>5, HasEntries DEF Remembers
<1>9. QED
  BY <1>3, <1>7, <1>8 DEF Stays

\* The want of a commit that found no news underneath it waits.
LEMMA NoNewsStays ==
    ASSUME TypeOK, TypeOK', NEW n \in Node, NoNewsUnderneath(n)
    PROVE  Stays(n) /\ OversStay(n)
<1>1. /\ record' = record /\ frozen' = frozen /\ held' = held /\ denied' = denied
      /\ got' = got
  BY DEF NoNewsUnderneath, index
<1>2. want'[n] = NoWant /\ deferred'[n] = deferred[n] \cup {want[n].raw}
  BY DEF NoNewsUnderneath, TypeOK
<1>3. Waiting(n) \subseteq Waiting(n)'
  BY <1>1, <1>2 DEF Waiting, Raws
<1>4. Overs(Quarantine(n))' = Overs(Quarantine(n))
  BY <1>1 DEF Quarantine
<1>5. \A y \in Waiting(n) \cup Overs(Quarantine(n)) : y \in Has(n)'
  BY <1>3, <1>4 DEF Has
<1>6. Has(n)' \subseteq Entry
  BY HasEntriesAfter
<1>7. Remembers(n)
  BY <1>1, <1>5, <1>6, InIsUpTo DEF Remembers
<1>8. Shape(want'[n], record'[n])
  BY <1>1, <1>2, TypesOf, ShapeOfNoWant
<1>9. QED
  BY <1>4, <1>7, <1>8 DEF Stays, OversStay

\* Entries that come in wait or are quarantined, unless the record has them.
LEMMA ReceiveStays ==
    ASSUME TypeOK, TypeOK', NEW n \in Node, Shape(want[n], record[n]),
           NEW m \in Node, NEW e, Receive(n, m, e)
    PROVE  Stays(n) /\ OversStay(n)
<1>1. /\ e \in sent[m] /\ got' = [got EXCEPT ![n] = @ \cup {e}]
      /\ record' = record /\ denied' = denied
  BY DEF Receive, index
<1>2. e \in Entry /\ got'[n] \ got[n] \subseteq {e}
  BY <1>1, TypesOf DEF TypeOK
<1>3. Overs(Quarantine(n))' = Overs(held'[n]) \cup Overs(denied'[n])
  BY DEF Overs, Quarantine
<1>4. CASE /\ frozen' = [frozen EXCEPT ![n] = @ \cup {e}]
           /\ UNCHANGED <<want, deferred, held>>
  <2>1. /\ frozen'[n] = frozen[n] \cup {e} /\ want'[n] = want[n]
        /\ deferred'[n] = deferred[n] /\ held'[n] = held[n] /\ denied'[n] = denied[n]
    BY <1>1, <1>4 DEF TypeOK
  <2>2. Has(n)' = Has(n) \cup {e}
    BY <1>1, <2>1 DEF Has, Waiting, Quarantine
  <2>3. Has(n)' \subseteq Entry
    BY <1>2, <2>2, HasEntries
  <2>4. \A y \in Waiting(n) \cup Overs(Quarantine(n)) \cup (got'[n] \ got[n]) : y \in Has(n)'
    BY <1>2, <2>2 DEF Has
  <2>5. Remembers(n)
    BY <2>3, <2>4, InIsUpTo DEF Remembers
  <2>6. Shape(want'[n], record'[n])
    BY <1>1, <2>1
  <2>7. OversStay(n)
    BY <1>3, <2>1, HasEntries DEF OversStay
  <2>8. QED
    BY <2>5, <2>6, <2>7 DEF Stays
<1>5. CASE /\ Admit(n, {e}, record[n], want[n], held[n], deferred[n], n \in Braking)
           /\ frozen' = frozen
  <2>1. /\ {e} \in SUBSET Entry /\ want[n] \in Want /\ held[n] \in SUBSET Item
        /\ deferred[n] \in SUBSET Entry /\ record'[n] = record[n]
    BY <1>1, <1>2, TypesOf
  <2>2. /\ Shape(want'[n], record'[n])
        /\ Overs(held[n]) \subseteq Overs(held'[n])
        /\ \A k \in Node, y \in {e} \cup deferred[n] \cup {want[n].raw}
                              \cup Overs(held[n]) \cup frozen'[n] \cup Overs(denied'[n]) :
              UpTo(k, y.version[k], Has(n)')
    BY <1>5, <2>1, AdmitRemembers
  <2>3. Waiting(n) \subseteq {want[n].raw} \cup deferred[n] \cup frozen[n]
    BY HasEntries DEF Waiting
  <2>4. OversStay(n)
    BY <1>1, <1>3, <2>2, HasEntries DEF OversStay
  <2>5. Remembers(n)
    BY <1>1, <1>2, <1>5, <2>2, <2>3, HasEntries DEF Remembers
  <2>6. QED
    BY <2>2, <2>4, <2>5 DEF Stays
<1>6. QED
  BY <1>4, <1>5 DEF Receive

\* The paused batch is sent, and what froze behind it is admitted.  The denies
\* it announces cannot be undone: the record has what they consumed.
LEMMA ApprovePausedStays ==
    ASSUME TypeOK, TypeOK', NEW n \in Node, Shape(want[n], record[n]),
           \A q \in Overs(denied[n]) : \A k \in Node :
              q.version[k] <= record[n].version[k],
           ApprovePaused(n)
    PROVE  Stays(n)
<1>1. /\ record' = record /\ got' = got
      /\ Admit(n, frozen[n], record[n], want[n], held[n], deferred[n], n \in Braking)
  BY DEF ApprovePaused, Unfreeze
<1>2. /\ frozen[n] \in SUBSET Entry /\ want[n] \in Want /\ held[n] \in SUBSET Item
      /\ deferred[n] \in SUBSET Entry /\ record'[n] = record[n]
  BY <1>1, TypesOf
<1>3. /\ Shape(want'[n], record'[n])
      /\ \A k \in Node, y \in frozen[n] \cup deferred[n] \cup {want[n].raw}
                            \cup Overs(held[n]) \cup frozen'[n] \cup Overs(denied'[n]) :
            UpTo(k, y.version[k], Has(n)')
  BY <1>1, <1>2, AdmitRemembers
<1>4. Waiting(n) \subseteq {want[n].raw} \cup deferred[n] \cup frozen[n]
  BY HasEntries DEF Waiting
<1>5. ASSUME NEW k \in Node, NEW y \in Overs(denied[n])
      PROVE  UpTo(k, y.version[k], Has(n)')
  BY <1>2 DEF UpTo, Has
<1>6. Remembers(n)
  BY <1>1, <1>3, <1>4, <1>5, HasEntries DEF Remembers
<1>7. QED
  BY <1>3, <1>6 DEF Stays

\* A revert gives back what the denies it undoes consumed, and admits again
\* what was resolved against the record it discards.
LEMMA RevertStays ==
    ASSUME TypeOK, TypeOK', NEW n \in Node, Shape(want[n], record[n]), Revert(n)
    PROVE  Stays(n) /\ OversStay(n)
<1> DEFINE back  == IF pending[n] THEN kept[n] ELSE record[n]
           stale == IF pending[n] THEN RawWant(n) ELSE {}
           still == IF pending[n] THEN NoWant ELSE want[n]
<1>1. /\ record'[n] = back /\ got' = got /\ denied'[n] = {}
      /\ Admit(n, stale \cup frozen[n], back, still, held[n] \cup denied[n], deferred[n],
               n \in Braking)
  BY DEF Revert, Unfreeze, TypeOK
<1>2. /\ stale \cup frozen[n] \in SUBSET Entry /\ still \in Want
      /\ held[n] \cup denied[n] \in SUBSET Item /\ deferred[n] \in SUBSET Entry
      /\ back \in Entry
  BY TypesOf, HasEntries, NoWantIsWant DEF Waiting
<1>3. Shape(still, back)
  BY <1>2, ShapeOfNoWant
<1>4. Waiting(n) \subseteq (stale \cup frozen[n]) \cup deferred[n] \cup {still.raw}
  BY HasEntries DEF Waiting
<1> HIDE DEF back, stale, still
<1>5. /\ Shape(want'[n], record'[n])
      /\ Overs(held[n] \cup denied[n]) \subseteq Overs(held'[n])
      /\ \A k \in Node, y \in (stale \cup frozen[n]) \cup deferred[n] \cup {still.raw}
                            \cup Overs(held[n] \cup denied[n])
                            \cup frozen'[n] \cup Overs(denied'[n]) :
            UpTo(k, y.version[k], Has(n)')
  BY <1>1, <1>2, <1>3, AdmitRemembers
<1>6. Overs(held[n] \cup denied[n]) = Overs(Quarantine(n))
  BY DEF Quarantine
<1>7. OversStay(n)
  BY <1>5, <1>6 DEF OversStay, Overs, Quarantine
<1>8. Remembers(n)
  BY <1>1, <1>4, <1>5, <1>6 DEF Remembers
<1>9. QED
  BY <1>5, <1>7, <1>8 DEF Stays

\* An approval of an item whose latest entry covers what joined it.
LEMMA ApproveHeldStays ==
    ASSUME TypeOK, TypeOK', NEW n \in Node, Shape(want[n], record[n]),
           NEW i \in held[n], ApproveHeld(n, i),
           \A q \in i.over : DominatesOrEquals(i.kept.version, q.version)
    PROVE  Stays(n)
<1>1. /\ record' = record /\ frozen' = frozen /\ denied' = denied /\ got' = got
      /\ Admit(n, {i.kept}, record[n], want[n], held[n] \ {i}, deferred[n], FALSE)
  BY DEF ApproveHeld, index
<1>2. /\ {i.kept} \in SUBSET Entry /\ want[n] \in Want /\ held[n] \ {i} \in SUBSET Item
      /\ deferred[n] \in SUBSET Entry /\ record'[n] = record[n] /\ i \in Item
      /\ i.over \subseteq Entry /\ i.kept \in Entry
  BY <1>1, TypesOf DEF Item
<1>3. /\ Shape(want'[n], record'[n])
      /\ \A k \in Node, y \in {i.kept} \cup deferred[n] \cup {want[n].raw}
                            \cup Overs(held[n] \ {i}) \cup frozen'[n] \cup Overs(denied'[n]) :
            UpTo(k, y.version[k], Has(n)')
  BY <1>1, <1>2, AdmitRemembers
<1>4. Waiting(n) \subseteq {want[n].raw} \cup deferred[n] \cup frozen[n]
  BY HasEntries DEF Waiting
<1>5. Has(n)' \subseteq Entry
  BY HasEntriesAfter
<1>6. ASSUME NEW k \in Node, NEW y \in i.over
      PROVE  UpTo(k, y.version[k], Has(n)')
  <2>1. y \in Entry /\ y.version[k] <= i.kept.version[k]
    BY <1>2, VersionOrder DEF Entry
  <2>2. UpTo(k, i.kept.version[k], Has(n)')
    BY <1>3
  <2>3. QED
    BY <1>2, <1>5, <2>1, <2>2, UpToTransitive
<1>7. Overs(held[n]) \subseteq Overs(held[n] \ {i}) \cup i.over
  BY DEF Overs
<1>8. Remembers(n)
  BY <1>1, <1>3, <1>4, <1>6, <1>7, HasEntries DEF Remembers
<1>9. QED
  BY <1>3, <1>8 DEF Stays

\* A deny keeps the item it consumed as long as it may be undone.
LEMMA BumpStays ==
    ASSUME TypeOK, TypeOK', NEW n \in Node, NEW i \in held[n], NEW e \in Entry, Write(n, e),
           Admit(n, RawWant(n), e, NoWant, held[n] \ {i}, deferred[n], n \in Braking),
           denied' = [denied EXCEPT ![n] = @ \cup {i}],
           UNCHANGED <<paused, frozen, sent, got>>
    PROVE  Stays(n) /\ OversStay(n)
<1>1. /\ record'[n] = e /\ frozen' = frozen /\ denied'[n] = denied[n] \cup {i} /\ got' = got
  BY DEF Write, TypeOK
<1>2. /\ RawWant(n) \in SUBSET Entry /\ held[n] \ {i} \in SUBSET Item
      /\ deferred[n] \in SUBSET Entry /\ NoWant \in Want /\ Shape(NoWant, e)
  BY TypesOf, HasEntries, NoWantIsWant, ShapeOfNoWant DEF Waiting
<1>3. /\ Shape(want'[n], record'[n])
      /\ Overs(held[n] \ {i}) \subseteq Overs(held'[n])
      /\ \A k \in Node, y \in RawWant(n) \cup deferred[n] \cup {NoWant.raw}
                            \cup Overs(held[n] \ {i}) \cup frozen'[n] \cup Overs(denied'[n]) :
            UpTo(k, y.version[k], Has(n)')
  BY <1>1, <1>2, AdmitRemembers
<1>4. Waiting(n) = RawWant(n) \cup deferred[n] \cup frozen[n]
  BY HasEntries DEF Waiting
<1>5. Overs(held[n]) \cup Overs(denied[n]) \subseteq Overs(held[n] \ {i}) \cup Overs(denied'[n])
  BY <1>1 DEF Overs
<1>6. Overs(Quarantine(n))' = Overs(held'[n]) \cup Overs(denied'[n])
  BY DEF Overs, Quarantine
<1>7. OversStay(n)
  BY <1>3, <1>5, <1>6, HasEntries DEF OversStay
<1>8. Remembers(n)
  BY <1>1, <1>3, <1>4, <1>5, HasEntries DEF Remembers
<1>9. QED
  BY <1>3, <1>7, <1>8 DEF Stays

-----------------------------------------------------------------------------
(* The invariant: what stays with a machine even if it reverts                *)

\* The record that a revert would leave: only members that pause revert.
Base(n) == IF pending[n] /\ n \in Pausing THEN kept[n] ELSE record[n]

\* What the pending change counts of the others is counted by the record it
\* was made on, or by what denies consumed and a revert would give back.
RevertKnown(n) ==
    pending[n] /\ n \in Pausing =>
       \A k \in Node \ {n} :
          IF denied[n] = {} THEN record[n].version[k] <= kept[n].version[k]
          ELSE UpTo(k, record[n].version[k], {kept[n]} \cup Overs(Quarantine(n)))

\* The record is past every version that a deny consumed.
DeniedUnder(n) ==
    \A q \in Overs(denied[n]) : \A k \in Node : q.version[k] <= record[n].version[k]

KeptUnder(n) ==
    pending[n] => \A k \in Node : kept[n].version[k] <= record[n].version[k]

Stock(n) == {Base(n)} \cup Waiting(n) \cup Overs(Quarantine(n))

\* All that was acknowledged of the others is in what a revert would leave.
GotKnown(n) ==
    \A e \in got[n] : \A k \in Node \ {n} : UpTo(k, e.version[k], Stock(n))

Covered(n) ==
    /\ Shape(want[n], record[n])
    /\ DeniedUnder(n)
    /\ KeptUnder(n)
    /\ RevertKnown(n)
    /\ GotKnown(n)
    /\ paused[n] => n \in Pausing

\* Only a member that pauses reverts.
KindOf(n) ==
    \/ Quiet(n) \/ Changed(n) \/ Taken(n) \/ Announced(n)
    \/ Reverted(n) /\ n \in Pausing

\* What a step of n must see to for the rest to follow.
Settles(n) == KindOf(n) /\ Stays(n) /\ DeniedUnder(n)' /\ RevertKnown(n)'

LEMMA KeptUnderStep ==
    ASSUME TypeOK, TypeOK', NEW n \in Node, KeptUnder(n), OneOfTheKinds(n)
    PROVE  KeptUnder(n)'
<1>1. CASE Quiet(n)
  BY <1>1, OwnAfter DEF KeptUnder
<1>2. CASE Changed(n)
  <2>1. ASSUME NEW k \in Node
        PROVE  kept'[n].version[k] <= record'[n].version[k]
    <3>1. /\ record[n].version[k] \in Int /\ record'[n].version[k] \in Int
          /\ kept[n].version[k] \in Int
      BY CounterOf DEF TypeOK
    <3>2. record[n].version[k] <= record'[n].version[k]
      BY <1>2, Forward
    <3>3. kept'[n] = IF pending[n] THEN kept[n] ELSE record[n]
      BY <1>2, OwnAfter
    <3>4. QED
      BY <3>1, <3>2, <3>3 DEF KeptUnder
  <2>2. QED
    BY <2>1 DEF KeptUnder
<1>3. CASE Taken(n) \/ Announced(n) \/ Reverted(n)
  BY <1>3, OwnAfter DEF KeptUnder
<1>4. QED
  BY <1>1, <1>2, <1>3 DEF OneOfTheKinds

\* What a revert would leave only grows.
LEMMA BaseGrows ==
    ASSUME TypeOK, TypeOK', NEW n \in Node, KeptUnder(n), KindOf(n),
           NEW k \in Node
    PROVE  Base(n).version[k] <= Base(n)'.version[k]
<1>1. /\ record[n].version[k] \in Int /\ record'[n].version[k] \in Int
      /\ kept[n].version[k] \in Int
  BY CounterOf DEF TypeOK
<1>2. Base(n).version[k] \in Int /\ Base(n).version[k] <= record[n].version[k]
  BY <1>1 DEF Base, KeptUnder
<1>3. CASE Quiet(n)
  <2>1. Base(n)' = Base(n)
    BY <1>3, OwnAfter DEF Base
  <2>2. QED
    BY <1>2, <2>1
<1>4. CASE Changed(n)
  <2>1. record[n].version[k] <= record'[n].version[k]
    BY <1>4, Forward
  <2>2. Base(n)' = IF n \in Pausing THEN Base(n) ELSE record'[n]
    BY <1>4, OwnAfter DEF Base
  <2>3. QED
    BY <1>1, <1>2, <2>1, <2>2
<1>5. CASE Taken(n) \/ Announced(n)
  <2>1. record[n].version[k] <= record'[n].version[k]
    BY <1>5, Forward
  <2>2. Base(n)' = record'[n]
    BY <1>5, OwnAfter DEF Base
  <2>3. QED
    BY <1>1, <1>2, <2>1, <2>2
<1>6. CASE Reverted(n) /\ n \in Pausing
  <2>1. Base(n)' = Base(n)
    BY <1>6, OwnAfter DEF Base
  <2>2. QED
    BY <1>2, <2>1
<1>7. QED
  BY <1>3, <1>4, <1>5, <1>6 DEF KindOf

LEMMA GotKnownStep ==
    ASSUME TypeOK, TypeOK', NEW n \in Node, Covered(n), Settles(n)
    PROVE  GotKnown(n)'
<1>1. /\ Has(n)' \subseteq Entry /\ Stock(n)' \subseteq Entry /\ Stock(n) \subseteq Entry
      /\ Has(n)' = {record'[n]} \cup (Waiting(n)' \cup Overs(Quarantine(n))')
      /\ Stock(n)' = {Base(n)'} \cup (Waiting(n)' \cup Overs(Quarantine(n))')
  <2>1. /\ Has(n)' = {record'[n]} \cup (Waiting(n)' \cup Overs(Quarantine(n))')
        /\ Stock(n)' = {Base(n)'} \cup (Waiting(n)' \cup Overs(Quarantine(n))')
    BY DEF Has, Stock
  <2>2. Has(n)' \subseteq Entry
    BY HasEntriesAfter
  <2>3. Base(n)' \in Entry /\ Base(n) \in Entry
    BY DEF Base, TypeOK
  <2>4. QED
    BY <2>1, <2>2, <2>3, HasEntries DEF Stock
<1>2. ASSUME NEW k \in Node \ {n}
      PROVE  UpTo(k, record'[n].version[k], Stock(n)')
  <2>1. CASE ~(pending'[n] /\ n \in Pausing)
    <3>1. Base(n)' = record'[n]
      BY <2>1 DEF Base
    <3>2. QED
      BY <1>1, <3>1, InIsUpTo
  <2>2. CASE pending'[n] /\ n \in Pausing
    <3>1. Base(n)' = kept'[n]
      BY <2>2 DEF Base
    <3>2. \/ record'[n].version[k] <= kept'[n].version[k]
          \/ UpTo(k, record'[n].version[k], {kept'[n]} \cup Overs(Quarantine(n))')
      BY <2>2 DEF Settles, RevertKnown
    <3>3. QED
      BY <1>1, <3>1, <3>2 DEF UpTo
  <2>3. QED
    BY <2>1, <2>2
<1>3. ASSUME NEW k \in Node \ {n}, NEW y \in Entry, UpTo(k, y.version[k], Has(n)')
      PROVE  UpTo(k, y.version[k], Stock(n)')
  <2>1. PICK z \in Has(n)' : y.version[k] <= z.version[k]
    BY <1>3 DEF UpTo
  <2>2. UpTo(k, z.version[k], Stock(n)')
    <3>1. CASE z = record'[n]
      BY <1>2, <3>1
    <3>2. CASE z \in Stock(n)'
      BY <1>1, <3>2, InIsUpTo
    <3>3. QED
      BY <1>1, <3>1, <3>2
  <2>3. z \in Entry
    BY <1>1
  <2>4. QED
    BY <1>1, <2>1, <2>2, <2>3, UpToTransitive
<1>4. ASSUME NEW k \in Node \ {n}, NEW y \in Stock(n)
      PROVE  UpTo(k, y.version[k], Stock(n)')
  <2>1. CASE y = Base(n)
    <3>1. y.version[k] <= Base(n)'.version[k]
      BY <2>1, BaseGrows DEF Covered, Settles
    <3>2. QED
      BY <1>1, <3>1 DEF UpTo
  <2>2. CASE y \in Waiting(n) \cup Overs(Quarantine(n))
    <3>1. UpTo(k, y.version[k], Has(n)')
      BY <2>2 DEF Settles, Stays, Remembers
    <3>2. QED
      BY <1>1, <1>3, <3>1
  <2>3. QED
    BY <2>1, <2>2 DEF Stock
<1>5. ASSUME NEW e \in got'[n], NEW k \in Node \ {n}
      PROVE  UpTo(k, e.version[k], Stock(n)')
  <2>1. e \in Entry
    BY DEF TypeOK
  <2>2. CASE e \in got[n]
    <3>1. PICK y \in Stock(n) : e.version[k] <= y.version[k]
      BY <2>2 DEF Covered, GotKnown, UpTo
    <3>2. y \in Entry /\ UpTo(k, y.version[k], Stock(n)')
      BY <1>1, <1>4
    <3>3. QED
      BY <1>1, <2>1, <3>1, <3>2, UpToTransitive
  <2>3. CASE e \notin got[n]
    <3>1. UpTo(k, e.version[k], Has(n)')
      BY <2>3 DEF Settles, Stays, Remembers
    <3>2. QED
      BY <1>3, <2>1, <3>1
  <2>4. QED
    BY <2>2, <2>3
<1>6. QED
  BY <1>5 DEF GotKnown

-----------------------------------------------------------------------------
(* Every step of a machine settles what it must                               *)

\* A step that leaves the record and the denies alone.
LEMMA QuietSettles ==
    ASSUME TypeOK, NEW n \in Node, Covered(n), Quiet(n), Stays(n),
           denied'[n] = denied[n],
           OversStay(n) \/ denied[n] = {} \/ n \notin Pausing
    PROVE  Settles(n)
<1>1. /\ record'[n] = record[n] /\ kept'[n] = kept[n] /\ pending'[n] = pending[n]
  BY OwnAfter
<1>2. DeniedUnder(n)'
  BY <1>1 DEF Covered, DeniedUnder
<1>3. RevertKnown(n)'
  <2>1. SUFFICES ASSUME pending[n], n \in Pausing, NEW k \in Node \ {n},
                        denied[n] # {}
                 PROVE  UpTo(k, record[n].version[k], {kept[n]} \cup Overs(Quarantine(n))')
    BY <1>1 DEF Covered, RevertKnown
  <2>2. UpTo(k, record[n].version[k], {kept[n]} \cup Overs(Quarantine(n)))
    BY <2>1 DEF Covered, RevertKnown
  <2>3. QED
    BY <2>1, <2>2 DEF OversStay, UpTo
<1>4. QED
  BY <1>2, <1>3 DEF Settles, KindOf

\* A step after which no change is pending.
LEMMA ClearedSettles ==
    ASSUME TypeOK, TypeOK', NEW n \in Node, Covered(n), Stays(n),
           \/ Taken(n) /\ denied'[n] = denied[n]
           \/ Announced(n) /\ denied'[n] = {}
           \/ Reverted(n) /\ n \in Pausing /\ denied'[n] = {}
    PROVE  Settles(n)
<1>1. ~pending'[n]
  BY OwnAfter
<1>2. RevertKnown(n)'
  BY <1>1 DEF RevertKnown
<1>3. DeniedUnder(n)'
  <2>1. CASE denied'[n] = {}
    BY <2>1 DEF DeniedUnder, Overs
  <2>2. CASE Taken(n) /\ denied'[n] = denied[n]
    <3>1. ASSUME NEW q \in Overs(denied[n]), NEW k \in Node
          PROVE  q.version[k] <= record'[n].version[k]
      <4>1. q \in Entry /\ record[n] \in Entry /\ record'[n] \in Entry
        BY HasEntries DEF TypeOK
      <4>2. /\ q.version[k] \in Int /\ record[n].version[k] \in Int
            /\ record'[n].version[k] \in Int
        BY <4>1, CounterOf
      <4>3. q.version[k] <= record[n].version[k]
        BY DEF Covered, DeniedUnder
      <4>4. record[n].version[k] <= record'[n].version[k]
        BY <2>2, Forward
      <4>5. QED
        BY <4>2, <4>3, <4>4
    <3>2. QED
      BY <2>2, <3>1 DEF DeniedUnder
  <2>3. QED
    BY <2>1, <2>2
<1>4. QED
  BY <1>2, <1>3 DEF Settles, KindOf

\* A change on the record as it is counts nothing new of the others.
LEMMA LocalChangeSettles ==
    ASSUME TypeOK, TypeOK', NEW n \in Node, CanChange(n), Covered(n),
           NEW e \in Entry, NewChange(n, e), LocalChange(n, e),
           e.version = Incremented(record[n].version, n)
    PROVE  Settles(n)
<1>1. Changed(n) /\ Stays(n) /\ OversStay(n)
  BY LocalChangeKind, LocalChangeStays
<1>2. record'[n] = e /\ denied' = denied
  BY DEF LocalChange, Write, TypeOK
<1>3. /\ pending'[n] /\ kept'[n] = IF pending[n] THEN kept[n] ELSE record[n]
  BY <1>1, OwnAfter
<1>4. /\ record[n] \in Entry /\ kept[n] \in Entry
      /\ \A k \in Node : record[n].version[k] <= e.version[k]
      /\ \A k \in Node \ {n} : e.version[k] <= record[n].version[k]
  BY ChangeMovesOn, TypesOf
<1>5. DeniedUnder(n)'
  <2>1. ASSUME NEW q \in Overs(denied[n]), NEW k \in Node
        PROVE  q.version[k] <= e.version[k]
    <3>1. q.version[k] <= record[n].version[k] /\ q \in Entry
      BY HasEntries DEF Covered, DeniedUnder
    <3>2. q.version[k] \in Int /\ record[n].version[k] \in Int /\ e.version[k] \in Int
      BY <1>4, <3>1, CounterOf
    <3>3. QED
      BY <1>4, <3>1, <3>2
  <2>2. QED
    BY <1>2, <2>1 DEF DeniedUnder
<1>6. RevertKnown(n)'
  <2>1. SUFFICES ASSUME n \in Pausing, NEW k \in Node \ {n}
                 PROVE  IF denied[n] = {} THEN e.version[k] <= kept'[n].version[k]
                        ELSE UpTo(k, e.version[k], {kept'[n]} \cup Overs(Quarantine(n))')
    BY <1>2 DEF RevertKnown
  <2>2. e.version[k] \in Int /\ record[n].version[k] \in Int /\ kept[n].version[k] \in Int
    BY <1>4, CounterOf
  <2>3. e.version[k] <= record[n].version[k]
    BY <1>4
  <2>4. CASE ~pending[n]
    BY <1>3, <2>3, <2>4 DEF UpTo
  <2>5. CASE pending[n] /\ denied[n] = {}
    <3>1. record[n].version[k] <= kept[n].version[k]
      BY <2>1, <2>5 DEF Covered, RevertKnown
    <3>2. QED
      BY <1>3, <2>2, <2>3, <2>5, <3>1
  <2>6. CASE pending[n] /\ denied[n] # {}
    <3>1. PICK x \in {kept[n]} \cup Overs(Quarantine(n)) :
             record[n].version[k] <= x.version[k]
      BY <2>1, <2>6 DEF Covered, RevertKnown, UpTo
    <3>2. x \in Entry /\ x.version[k] \in Int
      BY <1>4, HasEntries, CounterOf
    <3>3. e.version[k] <= x.version[k]
      BY <2>2, <2>3, <3>1, <3>2
    <3>4. x \in {kept'[n]} \cup Overs(Quarantine(n))'
      BY <1>1, <1>3, <2>6 DEF OversStay
    <3>5. QED
      BY <2>6, <3>3, <3>4 DEF UpTo
  <2>7. QED
    BY <2>4, <2>5, <2>6
<1>7. QED
  BY <1>1, <1>5, <1>6 DEF Settles, KindOf

\* A deny counts what the held items count, and keeps its own as long as it
\* may be undone.
LEMMA DenySettles ==
    ASSUME TypeOK, TypeOK', OwnHighest, NEW n \in Node, Covered(n),
           NEW i \in held[n], NEW at \in Mtimes, Deny(n, i, at)
    PROVE  Settles(n)
<1>1. /\ CanChange(n) /\ denied' = [denied EXCEPT ![n] = @ \cup {i}]
      /\ UNCHANGED <<paused, frozen, sent, got>>
  BY DEF Deny
<1>2. \E e \in Entry :
        /\ NewChange(n, e) /\ Write(n, e)
        /\ Admit(n, RawWant(n), e, NoWant, held[n] \ {i}, deferred[n], n \in Braking)
        /\ \A k \in Node : \A x \in BumpedOver(n) : x.version[k] <= e.version[k]
        /\ \A k \in Node \ {n} : \E x \in BumpedOver(n) : e.version[k] <= x.version[k]
  <2>1. PICK v \in [Node -> {e.version[k] : e \in BumpedOver(n), k \in Node}],
             top \in {e.body.stamp : e \in BumpedOver(n)} :
             BumpOver(n, i, v, top, at)
    BY DEF Deny
  <2>2. IsCeiling(v, top, BumpedOver(n))
    BY <2>1 DEF BumpOver
  <2>3. /\ Bumped(n, v, top, at) \in Entry /\ NewChange(n, Bumped(n, v, top, at))
        /\ \A k \in Node : \A x \in BumpedOver(n) :
              x.version[k] <= Bumped(n, v, top, at).version[k]
        /\ \A k \in Node \ {n} : \E x \in BumpedOver(n) :
              Bumped(n, v, top, at).version[k] <= x.version[k]
    BY <1>1, <2>2, DenyIsNew
  <2>4. QED
    BY <2>1, <2>3 DEF BumpOver
<1>3. PICK b \in Entry :
        /\ NewChange(n, b) /\ Write(n, b)
        /\ Admit(n, RawWant(n), b, NoWant, held[n] \ {i}, deferred[n], n \in Braking)
        /\ \A k \in Node : \A x \in BumpedOver(n) : x.version[k] <= b.version[k]
        /\ \A k \in Node \ {n} : \E x \in BumpedOver(n) : b.version[k] <= x.version[k]
  BY <1>2
<1>4. /\ b \in Entry /\ NewChange(n, b)
      /\ \A k \in Node : \A x \in BumpedOver(n) : x.version[k] <= b.version[k]
      /\ \A k \in Node \ {n} : \E x \in BumpedOver(n) : b.version[k] <= x.version[k]
  BY <1>3
<1>5. Changed(n) /\ Stays(n) /\ OversStay(n)
  <2>1. Changed(n)
    BY <1>1, <1>3, <1>4, BumpKind
  <2>2. Stays(n) /\ OversStay(n)
    BY <1>1, <1>3, <1>4, BumpStays
  <2>3. QED
    BY <2>1, <2>2
<1>6. /\ record'[n] = b /\ denied'[n] = denied[n] \cup {i}
  BY <1>1, <1>3 DEF Write, TypeOK
<1>7. /\ pending'[n] /\ kept'[n] = IF pending[n] THEN kept[n] ELSE record[n]
  BY <1>5, OwnAfter
<1>8. /\ Overs(held[n]) \subseteq BumpedOver(n)
      /\ BumpedOver(n) \subseteq Overs(held[n]) \cup {record[n]}
  BY DEF Overs, BumpedOver
<1>9. record[n] \in Entry /\ kept[n] \in Entry
      /\ \A k \in Node : record[n].version[k] <= b.version[k]
  BY <1>4, TypesOf DEF NewChange
<1>10. DeniedUnder(n)'
  <2>1. ASSUME NEW q \in Overs(denied'[n]), NEW k \in Node
        PROVE  q.version[k] <= b.version[k]
    <3>1. CASE q \in Overs(held[n])
      BY <1>4, <1>8, <3>1
    <3>2. CASE q \in Overs(denied[n])
      <4>1. q.version[k] <= record[n].version[k] /\ q \in Entry
        BY <3>2, HasEntries DEF Covered, DeniedUnder
      <4>2. q.version[k] \in Int /\ record[n].version[k] \in Int /\ b.version[k] \in Int
        BY <1>4, <1>9, <4>1, CounterOf
      <4>3. QED
        BY <1>9, <4>1, <4>2
    <3>3. q \in Overs(held[n]) \cup Overs(denied[n])
      BY <1>6 DEF Overs
    <3>4. QED
      BY <3>1, <3>2, <3>3
  <2>2. QED
    BY <1>6, <2>1 DEF DeniedUnder
<1>11. RevertKnown(n)'
  <2>1. denied'[n] # {} /\ record'[n] = b
    BY <1>6
  <2>2. SUFFICES ASSUME n \in Pausing, NEW k \in Node \ {n}
                 PROVE  UpTo(k, b.version[k], {kept'[n]} \cup Overs(Quarantine(n))')
    BY <2>1 DEF RevertKnown
  <2>3. PICK x \in BumpedOver(n) : b.version[k] <= x.version[k]
    BY <1>4
  <2>4. CASE x \in Overs(held[n])
    <3>1. x \in Overs(Quarantine(n))'
      BY <1>5, <2>4, HasEntries DEF OversStay
    <3>2. QED
      BY <2>3, <3>1 DEF UpTo
  <2>5. CASE x = record[n] /\ ~pending[n]
    BY <1>7, <2>3, <2>5 DEF UpTo
  <2>6. CASE x = record[n] /\ pending[n]
    <3>1. UpTo(k, record[n].version[k], {kept[n]} \cup Overs(Quarantine(n)))
      BY <2>2, <2>6 DEF Covered, RevertKnown, UpTo
    <3>2. PICK y \in {kept[n]} \cup Overs(Quarantine(n)) :
             record[n].version[k] <= y.version[k]
      BY <3>1 DEF UpTo
    <3>3. y \in Entry /\ b.version[k] <= y.version[k]
      <4>1. y \in Entry
        BY <1>9, HasEntries
      <4>2. y.version[k] \in Int /\ record[n].version[k] \in Int /\ b.version[k] \in Int
        BY <1>4, <1>9, <4>1, CounterOf
      <4>3. QED
        BY <2>3, <2>6, <3>2, <4>1, <4>2
    <3>4. y \in {kept'[n]} \cup Overs(Quarantine(n))'
      BY <1>5, <1>7, <2>6 DEF OversStay
    <3>5. QED
      BY <3>3, <3>4 DEF UpTo
  <2>7. QED
    BY <1>8, <2>3, <2>4, <2>5, <2>6
<1>12. QED
  BY <1>5, <1>10, <1>11 DEF Settles, KindOf

\* An approval takes an item whole if its latest entry covers every version
\* that joined it, and no deny that a revert may undo stands over it.
Whole(n, i) ==
    /\ \A q \in i.over : DominatesOrEquals(i.kept.version, q.version)
    /\ denied[n] = {} \/ n \notin Pausing

ApprovesWhole == \A n \in Node : \A i \in held[n] : ApproveHeld(n, i) => Whole(n, i)

\* Commits start, fail and die without the record.
LEMMA CommitStateSettles ==
    ASSUME TypeOK, NEW n \in Node, Covered(n),
           StartCommit(n) \/ Restart(n) \/ Pause(n)
    PROVE  Settles(n)
<1>1. Quiet(n)
  BY StartCommitKind, RestartKind, PauseKind
<1>2. /\ record' = record /\ deferred' = deferred /\ frozen' = frozen /\ held' = held
      /\ denied' = denied /\ got' = got
  BY DEF StartCommit, Restart, Pause, index, inbox
<1>3. /\ want'[n].raw = want[n].raw /\ want'[n].entry = want[n].entry
      /\ want[n].state # "none" => want'[n].state # "none"
  <2>1. want \in [Node -> Want] /\ want[n] \in Want
    BY TypesOf DEF TypeOK
  <2>2. CASE StartCommit(n)
    <3>1. want'[n] = [want[n] EXCEPT !.state = "committing"]
      BY <2>1, <2>2 DEF StartCommit
    <3>2. QED
      BY <2>1, <3>1 DEF Want
  <2>3. CASE Restart(n)
    <3>1. want'[n] = [want[n] EXCEPT !.state = "wanted"]
      BY <2>1, <2>3 DEF Restart
    <3>2. QED
      BY <2>1, <3>1 DEF Want
  <2>4. CASE Pause(n)
    BY <2>4 DEF Pause, inbox
  <2>5. QED
    BY <2>2, <2>3, <2>4
<1>4. Stays(n)
  BY <1>2, <1>3, SameInbox DEF Covered
<1>5. OversStay(n)
  BY <1>2 DEF OversStay, Quarantine
<1>6. QED
  BY <1>1, <1>2, <1>4, <1>5, QuietSettles

\* Without a record to write: what waited is looked at again, an entry comes
\* in, an item is approved whole.
LEMMA InboxSettles ==
    ASSUME TypeOK, TypeOK', ApprovesWhole, NEW n \in Node, Covered(n),
           \/ ObserveUnchanged(n) \/ NoNewsUnderneath(n) \/ CommitFailed(n)
           \/ \E m \in Node : \E e \in sent[m] : Receive(n, m, e)
           \/ \E i \in held[n] : ApproveHeld(n, i)
    PROVE  Settles(n)
<1>1. want[n] \in Want /\ Shape(want[n], record[n])
  BY TypesOf DEF Covered
<1>2. CASE ObserveUnchanged(n)
  <2>1. /\ Admit(n, deferred[n], record[n], want[n], held[n], {}, n \in Braking)
        /\ UNCHANGED <<index, paused, frozen, denied, sent, got, made>>
    BY <1>2 DEF ObserveUnchanged
  <2>2. Stays(n) /\ OversStay(n)
    BY <1>1, <2>1, ReadmitStays
  <2>3. QED
    BY <1>2, <2>1, <2>2, ObserveUnchangedKind, QuietSettles
<1>3. CASE CommitFailed(n)
  <2>1. PICK w \in Want : w = [want[n] EXCEPT !.state = "wanted"]
    BY <1>1 DEF Want
  <2>2. w.raw = want[n].raw /\ w.entry = want[n].entry /\ w.state # "none"
    BY <1>1, <2>1 DEF Want
  <2>3. /\ Admit(n, deferred[n], record[n], w, held[n], {}, n \in Braking)
        /\ UNCHANGED <<index, paused, frozen, denied, sent, got, made>>
    BY <1>3, <2>1 DEF CommitFailed
  <2>4. Stays(n) /\ OversStay(n)
    BY <1>1, <2>2, <2>3, ReadmitStays
  <2>5. QED
    BY <1>3, <2>3, <2>4, CommitFailedKind, QuietSettles
<1>4. CASE \E m \in Node : \E e \in sent[m] : Receive(n, m, e)
  <2>1. PICK m \in Node : \E e \in sent[m] : Receive(n, m, e)
    BY <1>4
  <2>2. PICK e \in sent[m] : Receive(n, m, e)
    BY <2>1
  <2>3. Quiet(n) /\ Stays(n) /\ OversStay(n)
    BY <1>1, <2>2, ReceiveKind, ReceiveStays
  <2>4. denied' = denied
    BY <2>2 DEF Receive
  <2>5. QED
    BY <2>3, <2>4, QuietSettles
<1>5. CASE \E i \in held[n] : ApproveHeld(n, i)
  <2>1. PICK i \in held[n] : ApproveHeld(n, i)
    BY <1>5
  <2>2. Whole(n, i)
    BY <2>1 DEF ApprovesWhole
  <2>3. Quiet(n) /\ Stays(n)
    BY <1>1, <2>1, <2>2, ApproveHeldKind, ApproveHeldStays DEF Whole
  <2>4. denied' = denied
    BY <2>1 DEF ApproveHeld
  <2>5. QED
    BY <2>2, <2>3, <2>4, QuietSettles DEF Whole
<1>6. CASE NoNewsUnderneath(n)
  <2>1. denied' = denied
    BY <1>6 DEF NoNewsUnderneath
  <2>2. QED
    BY <1>6, <2>1, NoNewsKind, NoNewsStays, QuietSettles
<1>7. QED
  BY <1>2, <1>3, <1>4, <1>5, <1>6

\* Local changes: found by a scan, by the watcher or by a commit's guard.
LEMMA ChangeSettles ==
    ASSUME TypeOK, TypeOK', NEW n \in Node, Covered(n),
           \/ \E hash \in Hashes, exec \in Execs, mtime \in Mtimes :
                 Observe(n, hash, exec, mtime) \/ ChangedUnderneath(n, hash, exec, mtime)
           \/ \E at \in Mtimes : ObserveAbsent(n, at) \/ VanishedUnderneath(n, at)
    PROVE  Settles(n)
<1>1. CanChange(n)
  BY DEF Observe, ChangedUnderneath, ObserveAbsent, VanishedUnderneath, CanEdit
<1>2. \E e \in Entry : /\ NewChange(n, e) /\ LocalChange(n, e)
                       /\ e.version = Incremented(record[n].version, n)
  <2>1. CASE \E hash \in Hashes, exec \in Execs, mtime \in Mtimes :
                Observe(n, hash, exec, mtime) \/ ChangedUnderneath(n, hash, exec, mtime)
    <3>1. PICK hash \in Hashes, exec \in Execs, mtime \in Mtimes :
             LocalChange(n, Observed(n, hash, exec, mtime))
      BY <2>1 DEF Observe, ChangedUnderneath
    <3>2. /\ Observed(n, hash, exec, mtime) \in Entry
          /\ NewChange(n, Observed(n, hash, exec, mtime))
      BY <1>1, ObservedIsNew
    <3>3. Observed(n, hash, exec, mtime).version = Incremented(record[n].version, n)
      BY DEF Observed
    <3>4. QED
      BY <3>1, <3>2, <3>3
  <2>2. CASE \E at \in Mtimes : ObserveAbsent(n, at) \/ VanishedUnderneath(n, at)
    <3>1. PICK at \in Mtimes : LocalChange(n, Tombstone(n, at))
      BY <2>2 DEF ObserveAbsent, VanishedUnderneath
    <3>2. Tombstone(n, at) \in Entry /\ NewChange(n, Tombstone(n, at))
      BY <1>1, TombstoneIsNew
    <3>3. Tombstone(n, at).version = Incremented(record[n].version, n)
      BY DEF Tombstone
    <3>4. QED
      BY <3>1, <3>2, <3>3
  <2>3. QED
    BY <2>1, <2>2
<1>3. PICK e \in Entry : /\ NewChange(n, e) /\ LocalChange(n, e)
                         /\ e.version = Incremented(record[n].version, n)
  BY <1>2
<1>4. QED
  BY <1>1, <1>3, LocalChangeSettles

\* The want is adopted, a batch is announced, a pause decided.
LEMMA DecisionSettles ==
    ASSUME TypeOK, TypeOK', OwnHighest, NEW n \in Node, Covered(n),
           Applied(n) \/ AdoptIndexOnly(n) \/ Announce(n) \/ ApprovePaused(n) \/ Revert(n)
    PROVE  Settles(n)
<1>1. /\ Shape(want[n], record[n])
      /\ \A q \in Overs(denied[n]) : \A k \in Node :
            q.version[k] <= record[n].version[k]
  BY DEF Covered, DeniedUnder
<1>2. CASE Applied(n) \/ AdoptIndexOnly(n)
  <2>1. Adopt(n)
    BY <1>2 DEF Applied, AdoptIndexOnly
  <2>2. /\ Quiet(n) \/ Taken(n)
        /\ Stays(n) /\ OversStay(n)
    BY <1>1, <2>1, AdoptKind, AdoptStays
  <2>3. denied' = denied
    BY <2>1 DEF Adopt
  <2>4. CASE Quiet(n)
    BY <2>2, <2>3, <2>4, QuietSettles
  <2>5. CASE Taken(n)
    BY <2>2, <2>3, <2>5, ClearedSettles
  <2>6. QED
    BY <2>2, <2>4, <2>5
<1>3. CASE Announce(n)
  <2>1. Announced(n)
    BY <1>3, AnnounceKind
  <2>2. /\ MarkAnnounced(n)
        /\ UNCHANGED <<record, paused, want, deferred, frozen, held, got, made>>
    BY <1>3 DEF Announce
  <2>3. denied'[n] = {}
    BY <2>2 DEF MarkAnnounced, TypeOK
  <2>4. Stays(n)
    BY <1>1, <2>2, SameInbox
  <2>5. QED
    BY <2>1, <2>3, <2>4, ClearedSettles
<1>4. CASE ApprovePaused(n)
  <2>1. Announced(n) /\ Stays(n)
    BY <1>1, <1>4, ApprovePausedKind, ApprovePausedStays
  <2>2. denied'[n] = {}
    BY <1>4 DEF ApprovePaused, MarkAnnounced, TypeOK
  <2>3. QED
    BY <2>1, <2>2, ClearedSettles
<1>5. CASE Revert(n)
  <2>1. (Announced(n) \/ Reverted(n)) /\ Stays(n)
    BY <1>1, <1>5, RevertKind, RevertStays
  <2>2. denied'[n] = {} /\ n \in Pausing
    BY <1>5 DEF Revert, TypeOK, Covered
  <2>3. QED
    BY <2>1, <2>2, ClearedSettles
<1>6. QED
  BY <1>2, <1>3, <1>4, <1>5

LEMMA StepSettles ==
    ASSUME TypeOK, TypeOK', OwnHighest, ApprovesWhole, NEW n \in Node, Covered(n), StepOf(n)
    PROVE  Settles(n)
<1>1. ASSUME NEW i \in held[n], NEW at \in Mtimes, Deny(n, i, at)
      PROVE  Settles(n)
  BY <1>1, DenySettles
<1>2. QED
  BY <1>1, CommitStateSettles, InboxSettles, ChangeSettles, DecisionSettles DEF StepOf

\* Only a member that pauses is ever paused.
LEMMA PausedStep ==
    ASSUME TypeOK, NEW n \in Node, StepOf(n), NEW m \in Node, paused'[m]
    PROVE  paused[m] \/ m \in Pausing
<1>1. CASE paused' = paused
  BY <1>1
<1>2. CASE ApprovePaused(n) \/ Revert(n)
  BY <1>2 DEF ApprovePaused, Revert, TypeOK
<1>3. CASE Pause(n)
  BY <1>3 DEF Pause, TypeOK
<1>4. ASSUME NEW e, LocalChange(n, e)
      PROVE  paused' = paused
  BY <1>4 DEF LocalChange
<1>5. CASE \/ \E hash \in Hashes, exec \in Execs, mtime \in Mtimes :
                 Observe(n, hash, exec, mtime) \/ ChangedUnderneath(n, hash, exec, mtime)
           \/ \E at \in Mtimes : ObserveAbsent(n, at) \/ VanishedUnderneath(n, at)
  BY <1>1, <1>4, <1>5 DEF Observe, ChangedUnderneath, ObserveAbsent, VanishedUnderneath
<1>6. CASE \/ ObserveUnchanged(n) \/ StartCommit(n) \/ NoNewsUnderneath(n)
           \/ CommitFailed(n) \/ Restart(n) \/ Announce(n)
  BY <1>1, <1>6 DEF ObserveUnchanged, StartCommit, NoNewsUnderneath, CommitFailed,
                    Restart, Announce
<1>7. CASE Applied(n) \/ AdoptIndexOnly(n)
  <2>1. Adopt(n)
    BY <1>7 DEF Applied, AdoptIndexOnly
  <2>2. QED
    BY <1>1, <2>1 DEF Adopt
<1>8. CASE \/ \E k \in Node : \E e \in sent[k] : Receive(n, k, e)
           \/ \E i \in held[n] : ApproveHeld(n, i)
           \/ \E i \in held[n], at \in Mtimes : Deny(n, i, at)
  <2>1. ASSUME NEW k \in Node, NEW e \in sent[k], Receive(n, k, e)
        PROVE  paused' = paused
    BY <2>1 DEF Receive
  <2>2. ASSUME NEW i \in held[n], ApproveHeld(n, i)
        PROVE  paused' = paused
    BY <2>2 DEF ApproveHeld
  <2>3. ASSUME NEW i \in held[n], NEW at \in Mtimes, Deny(n, i, at)
        PROVE  paused' = paused
    BY <2>3 DEF Deny
  <2>4. QED
    BY <1>1, <1>8, <2>1, <2>2, <2>3
<1>9. QED
  BY <1>2, <1>3, <1>5, <1>6, <1>7, <1>8 DEF StepOf

\* A step of n leaves what the others have as it is.
LEMMA ElsewhereCovered ==
    ASSUME TypeOK, NEW n \in Node, OneOfTheKinds(n), NEW m \in Node \ {n}, Covered(m),
           paused'[m] => m \in Pausing
    PROVE  Covered(m)'
<1>1. /\ record'[m] = record[m] /\ kept'[m] = kept[m] /\ pending'[m] = pending[m]
  BY OthersKeep
<1>2. /\ want'[m] = want[m] /\ deferred'[m] = deferred[m]
      /\ frozen'[m] = frozen[m] /\ held'[m] = held[m]
      /\ denied'[m] = denied[m] /\ got'[m] = got[m]
  BY DEF OneOfTheKinds, Quiet, Changed, Taken, Announced, Reverted, InboxMoves
<1>3. /\ Waiting(m)' = Waiting(m) /\ Quarantine(m)' = Quarantine(m) /\ Base(m)' = Base(m)
  BY <1>1, <1>2 DEF Waiting, Quarantine, Base
<1>4. Stock(m)' = Stock(m)
  BY <1>3 DEF Stock
<1>5. DeniedUnder(m)' /\ KeptUnder(m)'
  BY <1>1, <1>2 DEF Covered, DeniedUnder, KeptUnder
<1>6. RevertKnown(m)'
  BY <1>1, <1>2, <1>3 DEF Covered, RevertKnown
<1>7. GotKnown(m)'
  BY <1>2, <1>4 DEF Covered, GotKnown
<1>8. QED
  BY <1>1, <1>2, <1>5, <1>6, <1>7 DEF Covered

AllCovered == \A n \in Node : Covered(n)

LEMMA InitCovered ==
    ASSUME Init
    PROVE  AllCovered
<1>1. SUFFICES ASSUME NEW n \in Node
               PROVE  Covered(n)
  BY DEF AllCovered
<1>2. /\ record[n] = Absent /\ ~pending[n] /\ ~paused[n] /\ want[n] = NoWant
      /\ denied[n] = {} /\ got[n] = {}
  BY DEF Init
<1>3. Shape(want[n], record[n])
  BY <1>2, ShapeOfNoWant, AbsentEntry
<1>4. QED
  BY <1>2, <1>3 DEF Covered, DeniedUnder, KeptUnder, RevertKnown, GotKnown, Overs

LEMMA NextCovered ==
    ASSUME IInv, IInv', AllCovered, ApprovesWhole, Next
    PROVE  AllCovered'
<1>1. PICK n \in Node : StepOf(n)
  BY DEF Next, StepOf
<1>2. TypeOK /\ TypeOK' /\ OwnHighest /\ Covered(n)
  BY DEF IInv, AllCovered
<1>3. Settles(n)
  BY <1>1, <1>2, StepSettles
<1>4. OneOfTheKinds(n)
  BY <1>3 DEF Settles, KindOf, OneOfTheKinds
<1>5. \A m \in Node : paused'[m] => m \in Pausing
  BY <1>1, <1>2, PausedStep DEF AllCovered, Covered
<1>6. Covered(n)'
  <2>1. GotKnown(n)'
    BY <1>2, <1>3, GotKnownStep
  <2>2. KeptUnder(n)'
    BY <1>2, <1>4, KeptUnderStep DEF Covered
  <2>3. Shape(want'[n], record'[n]) /\ DeniedUnder(n)' /\ RevertKnown(n)'
    BY <1>3 DEF Settles, Stays
  <2>4. QED
    BY <1>5, <2>1, <2>2, <2>3 DEF Covered
<1>7. \A m \in Node \ {n} : Covered(m)'
  BY <1>2, <1>4, <1>5, ElsewhereCovered DEF AllCovered
<1>8. QED
  BY <1>6, <1>7 DEF AllCovered

LEMMA StutterCovered ==
    ASSUME AllCovered, UNCHANGED vars
    PROVE  AllCovered'
<1>1. SUFFICES ASSUME NEW n \in Node
               PROVE  Covered(n)'
  BY DEF AllCovered
<1>2. /\ record' = record /\ kept' = kept /\ pending' = pending /\ paused' = paused
      /\ want' = want /\ deferred' = deferred /\ frozen' = frozen /\ held' = held
      /\ denied' = denied /\ got' = got
  BY DEF vars, index, inbox
<1>3. /\ Waiting(n)' = Waiting(n) /\ Quarantine(n)' = Quarantine(n)
      /\ Stock(n)' = Stock(n)
  BY <1>2 DEF Waiting, Quarantine, Stock, Base
<1>4. Covered(n)
  BY DEF AllCovered
<1>5. QED
  BY <1>2, <1>3, <1>4
     DEF Covered, DeniedUnder, KeptUnder, RevertKnown, GotKnown

\* What stays even if a machine reverts is remembered as it is.
LEMMA CoveredRemembers ==
    ASSUME TypeOK, OwnHighest, NEW n \in Node, Covered(n), NEW e \in got[n], NEW k \in Node
    PROVE  \E x \in Remembered(n) : e.version[k] <= x.version[k]
<1>1. /\ record[n] \in Entry /\ kept[n] \in Entry /\ e \in Entry
      /\ record[n] \in Remembered(n)
  BY TypesOf DEF TypeOK, Remembered
<1>2. CASE k = n
  <2>1. e \in Carried(n)
    BY DEF Carried, Outside
  <2>2. e.version[n] <= record[n].version[n]
    BY <2>1 DEF OwnHighest
  <2>3. QED
    BY <1>1, <1>2, <2>2
<1>3. CASE k # n
  <2>1. PICK x \in Stock(n) : e.version[k] <= x.version[k]
    BY <1>3 DEF Covered, GotKnown, UpTo
  <2>2. CASE x = Base(n)
    <3>1. /\ record[n].version[k] \in Int /\ kept[n].version[k] \in Int
          /\ e.version[k] \in Int
      BY <1>1, CounterOf
    <3>2. Base(n).version[k] <= record[n].version[k] /\ Base(n).version[k] \in Int
      BY <3>1 DEF Base, Covered, KeptUnder
    <3>3. e.version[k] <= record[n].version[k]
      BY <2>1, <2>2, <3>1, <3>2
    <3>4. QED
      BY <1>1, <3>3
  <2>3. CASE x \in Waiting(n) \cup Overs(Quarantine(n))
    <3>1. x \in Remembered(n)
      BY <2>3 DEF Waiting, Raws, Overs, Remembered
    <3>2. QED
      BY <2>1, <3>1
  <2>4. QED
    BY <2>1, <2>2, <2>3 DEF Stock
<1>4. QED
  BY <1>2, <1>3

LEMMA CoveredAlways ==
    Spec /\ [][ApprovesWhole]_vars => []AllCovered
<1>1. Init => AllCovered
  BY InitCovered
<1>2. IInv /\ IInv' /\ AllCovered /\ [Next]_vars /\ [ApprovesWhole]_vars => AllCovered'
  BY NextCovered, StutterCovered
<1>3. QED
  BY <1>1, <1>2, Invariance, PTL DEF Spec

\* A change acknowledged to its sender stays in the record or waits, whatever
\* the members edit, commit, pause, revert, deny and undo, as long as every
\* approved item is taken whole (folder.rs, `approve` takes the latest entry
\* of each path only): approving in any other way is the one step of the
\* engine that loses a version.
THEOREM NothingElseLoses == Spec /\ [][ApprovesWhole]_vars => []NothingLost
<1>1. IInv /\ AllCovered => NothingLost
  BY CoveredRemembers DEF IInv, AllCovered, NothingLost
<1>2. QED
  BY <1>1, Invariance, CoveredAlways, PTL

\* Machines with nothing left to do agree.
LEMMA SettledRecords ==
    ASSUME IInv, AllCovered, Settled, NEW n \in Node, NEW m \in Node, NEW k \in Node
    PROVE  record[m].version[k] <= record[n].version[k]
<1>1. TypeOK /\ OwnHighest /\ Covered(n) /\ record[n] \in Entry /\ record[m] \in Entry
  BY TypesOf DEF IInv, AllCovered
<1>2. /\ record[n].version[k] \in Int /\ 0 <= record[n].version[k]
      /\ kept[n].version[k] \in Int /\ record[m].version[k] \in Int
  BY <1>1, TypesOf, CounterOf
<1>3. CASE m = n
  BY <1>2, <1>3
<1>4. CASE record[m] = Absent
  <2>1. record[m].version[k] = 0
    BY <1>4 DEF Absent, Empty
  <2>2. QED
    BY <1>2, <2>1
<1>5. CASE k = n
  <2>1. record[m] \in Carried(m)
    BY DEF Carried
  <2>2. QED
    BY <1>1, <1>5, <2>1 DEF OwnHighest
<1>6. CASE m # n /\ record[m] # Absent /\ k # n
  <2>1. record[m] \in got[n]
    BY <1>6 DEF Settled
  <2>2. UpTo(k, record[m].version[k], Stock(n))
    BY <1>1, <1>6, <2>1 DEF Covered, GotKnown
  <2>3. Waiting(n) = {} /\ Overs(Quarantine(n)) = {}
    BY DEF Settled, Waiting, Raws, Overs
  <2>4. record[m].version[k] <= Base(n).version[k]
    BY <2>2, <2>3 DEF Stock, UpTo
  <2>5. Base(n).version[k] <= record[n].version[k] /\ Base(n).version[k] \in Int
    BY <1>1, <1>2 DEF Base, Covered, KeptUnder
  <2>6. QED
    BY <1>2, <2>4, <2>5
<1>7. QED
  BY <1>3, <1>4, <1>5, <1>6

LEMMA SettledMeansAgreed ==
    ASSUME IInv, AllCovered
    PROVE  SettledAgree
<1>1. SUFFICES ASSUME Settled, NEW n \in Node, NEW m \in Node
               PROVE  record[n] = record[m]
  BY DEF SettledAgree
<1>2. TypeOK /\ record[n] \in Entry /\ record[m] \in Entry
  BY TypesOf DEF IInv
<1>3. record[n].version \in Version /\ record[m].version \in Version
  BY <1>2 DEF Entry
<1>4. ASSUME NEW k \in Node
      PROVE  record[n].version[k] = record[m].version[k]
  <2>1. record[n].version[k] <= record[m].version[k]
    BY <1>1, SettledRecords
  <2>2. record[m].version[k] <= record[n].version[k]
    BY <1>1, SettledRecords
  <2>3. record[n].version[k] \in Int /\ record[m].version[k] \in Int
    BY <1>2, CounterOf
  <2>4. QED
    BY <2>1, <2>2, <2>3, OrderAntisymmetric
<1>5. record[n].version = record[m].version
  BY <1>3, <1>4 DEF Version
<1>6. record[n].body = record[m].body
  <2>1. Canonical(made, record[n]) /\ Canonical(made, record[m]) /\ made \in SUBSET Change
    BY DEF IInv, AllCanonical, Carried, TypeOK
  <2>2. QED
    BY <1>2, <1>5, <2>1, CanonicalUnique
<1>7. QED
  BY <1>2, <1>5, <1>6 DEF Entry

\* Machines that announced, received and decided everything hold the same
\* record (conflict.rs: both sides of a merge keep the same), as long as every
\* approved item is taken whole.
THEOREM SettledMembersAgree == Spec /\ [][ApprovesWhole]_vars => []SettledAgree
<1>1. IInv /\ AllCovered => SettledAgree
  BY SettledMeansAgreed
<1>2. QED
  BY <1>1, Invariance, CoveredAlways, PTL

-----------------------------------------------------------------------------
(* Where every approval is whole                                              *)

\* What the others announced.
Heard(n) == UNION {sent[m] : m \in Node \ {n}}

\* What a step of n admits it had already or has just been sent, and so is
\* what the want was and the items were.
Admits(n) ==
    \E raws \in SUBSET (Waiting(n) \cup ItemEntries(Quarantine(n)) \cup Heard(n)),
       r \in Entry, w \in Want, items \in SUBSET Quarantine(n),
       waiting \in SUBSET Waiting(n) :
       /\ Raws(w) \subseteq Waiting(n)
       /\ \/ Admit(n, raws, r, w, items, waiting, n \in Braking)
          \/ Admit(n, raws, r, w, items, waiting, FALSE)

Draws(n) ==
    /\ \/ Admits(n)
       \/ /\ held'[n] = held[n] /\ deferred'[n] \subseteq Waiting(n)
          /\ Raws(want'[n]) \subseteq Waiting(n)
    /\ frozen'[n] \subseteq frozen[n] \cup Heard(n)
    /\ denied'[n] \subseteq Quarantine(n)

LEMMA DrawsFrom ==
    ASSUME NEW n \in Node, NEW raws, NEW r, NEW w, NEW items, NEW waiting,
           raws \subseteq Waiting(n) \cup ItemEntries(Quarantine(n)) \cup Heard(n),
           r \in Entry, w \in Want, Raws(w) \subseteq Waiting(n),
           items \subseteq Quarantine(n), waiting \subseteq Waiting(n),
           \/ Admit(n, raws, r, w, items, waiting, n \in Braking)
           \/ Admit(n, raws, r, w, items, waiting, FALSE)
    PROVE  Admits(n)
  BY DEF Admits

LEMMA WaitingParts ==
    ASSUME TypeOK, NEW n \in Node
    PROVE  /\ RawWant(n) \subseteq Waiting(n) /\ Raws(want[n]) \subseteq Waiting(n)
           /\ deferred[n] \subseteq Waiting(n) /\ frozen[n] \subseteq Waiting(n)
           /\ {} \subseteq Waiting(n)
           /\ held[n] \subseteq Quarantine(n) /\ denied[n] \subseteq Quarantine(n)
           /\ Raws(NoWant) = {}
           /\ record[n] \in Entry /\ want[n] \in Want /\ NoWant \in Want
<1>1. /\ Raws(want[n]) \subseteq Waiting(n)
      /\ deferred[n] \subseteq Waiting(n) /\ frozen[n] \subseteq Waiting(n)
      /\ {} \subseteq Waiting(n)
  BY DEF Waiting
<1>2. Raws(want[n]) = RawWant(n)
  BY HasEntries
<1>3. held[n] \subseteq Quarantine(n) /\ denied[n] \subseteq Quarantine(n)
  BY DEF Quarantine
<1>4. Raws(NoWant) = {} /\ NoWant \in Want
  BY NoWantIsWant DEF Raws, NoWant
<1>5. record[n] \in Entry /\ want[n] \in Want
  BY TypesOf
<1>6. QED
  BY <1>1, <1>2, <1>3, <1>4, <1>5

LEMMA LocalChangeDraws ==
    ASSUME TypeOK, NEW n \in Node, NEW e \in Entry, LocalChange(n, e)
    PROVE  Draws(n)
<1>1. /\ Admit(n, RawWant(n) \cup deferred[n], e, NoWant, held[n], {}, n \in Braking)
      /\ frozen' = frozen /\ denied' = denied
  BY DEF LocalChange
<1>2. Admits(n)
  BY <1>1, WaitingParts, DrawsFrom
<1>3. QED
  BY <1>1, <1>2, WaitingParts DEF Draws

\* The steps that admit something for the record as it is.
LEMMA ReadmitDraws ==
    ASSUME TypeOK, NEW n \in Node,
           \/ ObserveUnchanged(n) \/ CommitFailed(n)
           \/ \E m \in Node : \E e \in sent[m] : Receive(n, m, e)
           \/ \E i \in held[n] : ApproveHeld(n, i)
    PROVE  Draws(n)
<1>1. CASE ObserveUnchanged(n)
  <2>1. /\ Admit(n, deferred[n], record[n], want[n], held[n], {}, n \in Braking)
        /\ frozen' = frozen /\ denied' = denied
    BY <1>1 DEF ObserveUnchanged
  <2>2. Admits(n)
    BY <2>1, WaitingParts, DrawsFrom
  <2>3. QED
    BY <2>1, <2>2, WaitingParts DEF Draws
<1>2. CASE CommitFailed(n)
  <2>1. PICK w \in Want : w = [want[n] EXCEPT !.state = "wanted"]
    BY WaitingParts DEF Want
  <2>2. Raws(w) \subseteq Waiting(n)
    BY <1>2, <2>1, WaitingParts DEF Raws, Want, CommitFailed
  <2>3. /\ Admit(n, deferred[n], record[n], w, held[n], {}, n \in Braking)
        /\ frozen' = frozen /\ denied' = denied
    BY <1>2, <2>1 DEF CommitFailed
  <2>4. Admits(n)
    BY <2>2, <2>3, WaitingParts, DrawsFrom
  <2>5. QED
    BY <2>3, <2>4, WaitingParts DEF Draws
<1>3. CASE \E m \in Node : \E e \in sent[m] : Receive(n, m, e)
  <2>1. PICK m \in Node : \E e \in sent[m] : Receive(n, m, e)
    BY <1>3
  <2>2. PICK e \in sent[m] : Receive(n, m, e)
    BY <2>1
  <2>3. e \in Heard(n) /\ denied' = denied
    BY <2>2 DEF Heard, Receive
  <2>4. CASE /\ frozen' = [frozen EXCEPT ![n] = @ \cup {e}]
             /\ UNCHANGED <<want, deferred, held>>
    <3>1. /\ frozen'[n] \subseteq frozen[n] \cup {e} /\ held'[n] = held[n]
          /\ deferred'[n] = deferred[n] /\ want'[n] = want[n]
      BY <2>4 DEF TypeOK
    <3>2. QED
      BY <2>3, <3>1, WaitingParts DEF Draws
  <2>5. CASE /\ Admit(n, {e}, record[n], want[n], held[n], deferred[n], n \in Braking)
             /\ frozen' = frozen
    <3>1. /\ {e} \subseteq Waiting(n) \cup ItemEntries(Quarantine(n)) \cup Heard(n)
          /\ held[n] \subseteq Quarantine(n) /\ deferred[n] \subseteq Waiting(n)
          /\ record[n] \in Entry /\ want[n] \in Want /\ Raws(want[n]) \subseteq Waiting(n)
      BY <2>3, WaitingParts
    <3>3. Admits(n)
      BY <2>5, <3>1, DrawsFrom
    <3>2. QED
      BY <2>3, <2>5, <3>3, WaitingParts DEF Draws
  <2>6. QED
    BY <2>2, <2>4, <2>5 DEF Receive
<1>4. CASE \E i \in held[n] : ApproveHeld(n, i)
  <2>1. PICK i \in held[n] : ApproveHeld(n, i)
    BY <1>4
  <2>2. /\ Admit(n, {i.kept}, record[n], want[n], held[n] \ {i}, deferred[n], FALSE)
        /\ frozen' = frozen /\ denied' = denied
    BY <2>1 DEF ApproveHeld
  <2>3. {i.kept} \subseteq ItemEntries(Quarantine(n))
    BY WaitingParts DEF ItemEntries
  <2>4. /\ {i.kept} \subseteq Waiting(n) \cup ItemEntries(Quarantine(n)) \cup Heard(n)
        /\ held[n] \ {i} \subseteq Quarantine(n)
    BY <2>3, WaitingParts
  <2>6. Admits(n)
    BY <2>2, <2>4, WaitingParts, DrawsFrom
  <2>7. QED
    BY <2>2, <2>6, WaitingParts DEF Draws
<1>5. QED
  BY <1>1, <1>2, <1>3, <1>4

LEMMA DecisionDraws ==
    ASSUME TypeOK, NEW n \in Node,
           Applied(n) \/ AdoptIndexOnly(n) \/ ApprovePaused(n) \/ Revert(n)
    PROVE  Draws(n)
<1>1. CASE Applied(n) \/ AdoptIndexOnly(n)
  <2> DEFINE w       == want[n]
             taken   == DominatesOrEquals(w.entry.version, record[n].version)
             now     == IF taken THEN w.entry ELSE record[n]
             waiting == IF taken THEN deferred[n] ELSE deferred[n] \cup {w.raw}
  <2>1. /\ Admit(n, waiting, now, NoWant, held[n], {}, n \in Braking)
        /\ frozen' = frozen /\ denied' = denied
    BY <1>1 DEF Applied, AdoptIndexOnly, Adopt
  <2>2. w.state # "none"
    BY <1>1 DEF Applied, AdoptIndexOnly
  <2>3. waiting \subseteq Waiting(n) /\ now \in Entry
    BY <2>2, WaitingParts, TypesOf DEF RawWant
  <2> HIDE DEF waiting, now
  <2>4. PICK raws \in SUBSET Waiting(n), r \in Entry : raws = waiting /\ r = now
    BY <2>3
  <2>5. Admit(n, raws, r, NoWant, held[n], {}, n \in Braking)
    BY <2>1, <2>4
  <2>6. Admits(n)
    BY <2>5, WaitingParts, DrawsFrom
  <2>7. QED
    BY <2>1, <2>6, WaitingParts DEF Draws
<1>2. CASE ApprovePaused(n)
  <2>1. /\ Admit(n, frozen[n], record[n], want[n], held[n], deferred[n], n \in Braking)
        /\ frozen'[n] = {} /\ denied'[n] = {}
    BY <1>2 DEF ApprovePaused, Unfreeze, MarkAnnounced, TypeOK
  <2>2. Admits(n)
    BY <2>1, WaitingParts, DrawsFrom
  <2>3. QED
    BY <2>1, <2>2 DEF Draws
<1>3. CASE Revert(n)
  <2> DEFINE back  == IF pending[n] THEN kept[n] ELSE record[n]
             stale == IF pending[n] THEN RawWant(n) ELSE {}
             still == IF pending[n] THEN NoWant ELSE want[n]
  <2>1. /\ Admit(n, stale \cup frozen[n], back, still, held[n] \cup denied[n], deferred[n],
                 n \in Braking)
        /\ frozen'[n] = {} /\ denied'[n] = {}
    BY <1>3 DEF Revert, Unfreeze, TypeOK
  <2>2. /\ stale \cup frozen[n] \subseteq Waiting(n) /\ back \in Entry
        /\ still \in Want /\ Raws(still) \subseteq Waiting(n)
        /\ held[n] \cup denied[n] \in SUBSET Quarantine(n)
    BY WaitingParts, TypesOf
  <2> HIDE DEF back, stale, still
  <2>3. PICK raws \in SUBSET Waiting(n), r \in Entry, w \in Want :
           raws = stale \cup frozen[n] /\ r = back /\ w = still
    BY <2>2
  <2>4. /\ Admit(n, raws, r, w, held[n] \cup denied[n], deferred[n], n \in Braking)
        /\ Raws(w) \subseteq Waiting(n)
    BY <2>1, <2>2, <2>3
  <2>5. Admits(n)
    BY <2>2, <2>4, WaitingParts, DrawsFrom
  <2>6. QED
    BY <2>1, <2>5 DEF Draws
<1>4. QED
  BY <1>1, <1>2, <1>3

LEMMA StateDraws ==
    ASSUME TypeOK, NEW n \in Node,
           \/ StartCommit(n) \/ Restart(n) \/ Pause(n) \/ Announce(n)
           \/ NoNewsUnderneath(n)
    PROVE  Draws(n)
<1>1. /\ frozen' = frozen /\ held' = held
      /\ denied' = denied \/ denied'[n] = {}
  BY DEF StartCommit, Restart, Pause, Announce, NoNewsUnderneath, MarkAnnounced, index,
         inbox, TypeOK
<1>2. Raws(want'[n]) \subseteq Raws(want[n])
  <2>1. want \in [Node -> Want] /\ want[n] \in Want
    BY TypesOf DEF TypeOK
  <2>2. CASE StartCommit(n)
    <3>1. want'[n] = [want[n] EXCEPT !.state = "committing"] /\ want[n].state = "wanted"
      BY <2>1, <2>2 DEF StartCommit
    <3>2. QED
      BY <2>1, <3>1 DEF Want, Raws
  <2>3. CASE Restart(n)
    <3>1. want'[n] = [want[n] EXCEPT !.state = "wanted"] /\ want[n].state = "committing"
      BY <2>1, <2>3 DEF Restart
    <3>2. QED
      BY <2>1, <3>1 DEF Want, Raws
  <2>4. CASE Pause(n) \/ Announce(n)
    BY <2>4 DEF Pause, Announce, inbox
  <2>5. CASE NoNewsUnderneath(n)
    <3>1. want'[n] = NoWant
      BY <2>1, <2>5 DEF NoNewsUnderneath
    <3>2. QED
      BY <3>1, WaitingParts
  <2>6. QED
    BY <2>2, <2>3, <2>4, <2>5
<1>3. deferred'[n] \subseteq Waiting(n)
  <2>1. CASE deferred' = deferred
    BY <2>1, WaitingParts
  <2>2. CASE NoNewsUnderneath(n)
    <3>1. /\ deferred'[n] = deferred[n] \cup {want[n].raw}
          /\ want[n].state = "committing"
      BY <2>2 DEF NoNewsUnderneath, TypeOK
    <3>2. want[n].raw \in Raws(want[n])
      BY <3>1 DEF Raws
    <3>3. QED
      BY <3>1, <3>2, WaitingParts
  <2>3. QED
    BY <2>1, <2>2 DEF StartCommit, Restart, Pause, Announce, inbox
<1>4. QED
  BY <1>1, <1>2, <1>3, WaitingParts DEF Draws

LEMMA DenyAdmits ==
    ASSUME TypeOK, NEW n \in Node, NEW e \in Entry, NEW i,
           Admit(n, RawWant(n), e, NoWant, held[n] \ {i}, deferred[n], n \in Braking)
    PROVE  Admits(n)
<1>1. /\ held[n] \ {i} \subseteq Quarantine(n)
      /\ RawWant(n) \subseteq Waiting(n) \cup ItemEntries(Quarantine(n)) \cup Heard(n)
      /\ deferred[n] \subseteq Waiting(n)
      /\ NoWant \in Want /\ Raws(NoWant) \subseteq Waiting(n)
  BY WaitingParts
<1>2. QED
  BY <1>1, DrawsFrom

LEMMA ChangeDraws ==
    ASSUME TypeOK, OwnHighest, NEW n \in Node,
           \/ \E hash \in Hashes, exec \in Execs, mtime \in Mtimes :
                 Observe(n, hash, exec, mtime) \/ ChangedUnderneath(n, hash, exec, mtime)
           \/ \E at \in Mtimes : ObserveAbsent(n, at) \/ VanishedUnderneath(n, at)
           \/ \E i \in held[n], at \in Mtimes : Deny(n, i, at)
    PROVE  Draws(n)
<1>1. CanChange(n)
  BY DEF Observe, ChangedUnderneath, ObserveAbsent, VanishedUnderneath, CanEdit, Deny
<1>2. CASE \E hash \in Hashes, exec \in Execs, mtime \in Mtimes :
              Observe(n, hash, exec, mtime) \/ ChangedUnderneath(n, hash, exec, mtime)
  <2>1. PICK hash \in Hashes, exec \in Execs, mtime \in Mtimes :
           LocalChange(n, Observed(n, hash, exec, mtime))
    BY <1>2 DEF Observe, ChangedUnderneath
  <2>2. PICK e \in Entry : e = Observed(n, hash, exec, mtime)
    BY <1>1, ObservedIsNew
  <2>3. LocalChange(n, e)
    BY <2>1, <2>2
  <2>4. QED
    BY <2>3, LocalChangeDraws
<1>3. CASE \E at \in Mtimes : ObserveAbsent(n, at) \/ VanishedUnderneath(n, at)
  <2>1. PICK at \in Mtimes : LocalChange(n, Tombstone(n, at))
    BY <1>3 DEF ObserveAbsent, VanishedUnderneath
  <2>2. PICK e \in Entry : e = Tombstone(n, at)
    BY <1>1, TombstoneIsNew
  <2>3. LocalChange(n, e)
    BY <2>1, <2>2
  <2>4. QED
    BY <2>3, LocalChangeDraws
<1>4. CASE \E i \in held[n], at \in Mtimes : Deny(n, i, at)
  <2>1. PICK i \in held[n], at \in Mtimes : Deny(n, i, at)
    BY <1>4
  <2>2. /\ denied' = [denied EXCEPT ![n] = @ \cup {i}] /\ frozen' = frozen
    BY <2>1 DEF Deny
  <2>3. \E e \in Entry :
           Admit(n, RawWant(n), e, NoWant, held[n] \ {i}, deferred[n], n \in Braking)
    <3>1. PICK v \in [Node -> {e.version[k] : e \in BumpedOver(n), k \in Node}],
               top \in {e.body.stamp : e \in BumpedOver(n)} :
               BumpOver(n, i, v, top, at)
      BY <2>1 DEF Deny
    <3>2. IsCeiling(v, top, BumpedOver(n))
      BY <3>1 DEF BumpOver
    <3>3. Bumped(n, v, top, at) \in Entry
      BY <1>1, <3>2, DenyIsNew
    <3>4. QED
      BY <3>1, <3>3 DEF BumpOver
  <2>4. PICK e \in Entry :
           Admit(n, RawWant(n), e, NoWant, held[n] \ {i}, deferred[n], n \in Braking)
    BY <2>3
  <2>8. Admits(n)
    BY <2>4, DenyAdmits
  <2>9. denied'[n] \subseteq Quarantine(n)
    BY <2>2, WaitingParts DEF TypeOK
  <2>10. QED
    BY <2>2, <2>8, <2>9 DEF Draws
<1>5. QED
  BY <1>2, <1>3, <1>4

LEMMA StepDraws ==
    ASSUME TypeOK, OwnHighest, NEW n \in Node, StepOf(n)
    PROVE  Draws(n)
  BY ReadmitDraws, DecisionDraws, StateDraws, ChangeDraws DEF StepOf

-----------------------------------------------------------------------------
(* Without a brake nothing is quarantined                                     *)

Unbraked(n) == n \notin Braking => Quarantine(n) = {}

LEMMA UnbrakedStep ==
    ASSUME NEW n \in Node, n \notin Braking, Quarantine(n) = {}, TypeOK, Draws(n)
    PROVE  Quarantine(n)' = {}
<1>1. denied'[n] = {}
  BY DEF Draws
<1>2. CASE Admits(n)
  <2>1. PICK raws \in SUBSET (Waiting(n) \cup ItemEntries(Quarantine(n)) \cup Heard(n)),
             r \in Entry, w \in Want, items \in SUBSET Quarantine(n),
             waiting \in SUBSET Waiting(n) :
             \/ Admit(n, raws, r, w, items, waiting, n \in Braking)
             \/ Admit(n, raws, r, w, items, waiting, FALSE)
    BY <1>2 DEF Admits
  <2> DEFINE news    == {e \in raws : Applies(e, r) /\ ~AlreadyWanted(w, Resolved(e, r))}
             joiners == {e \in news : Matching(items, e) # {}}
  <2>2. PICK stopped \in {{}}, to \in [joiners -> items],
             latest \in [items -> joiners \cup {i.kept : i \in items}] :
             held' = [held EXCEPT ![n] = Quarantined(items, joiners, to, latest, stopped)]
    BY <2>1 DEF Admit
  <2>3. items = {}
    OBVIOUS
  <2>4. Quarantined(items, joiners, to, latest, stopped) = {}
    BY <2>3 DEF Quarantined
  <2>5. held'[n] = {}
    BY <2>2, <2>4 DEF TypeOK
  <2>6. QED
    BY <1>1, <2>5 DEF Quarantine
<1>3. CASE held'[n] = held[n]
  BY <1>1, <1>3 DEF Quarantine
<1>4. QED
  BY <1>2, <1>3 DEF Draws

AllUnbraked == \A n \in Node : Unbraked(n)

\* What a step of n leaves of the others' inboxes.
LEMMA Elsewhere ==
    ASSUME NEW n \in Node, OneOfTheKinds(n), NEW m \in Node \ {n}
    PROVE  Quarantine(m)' = Quarantine(m) /\ Waiting(m)' = Waiting(m)
<1>1. /\ want'[m] = want[m] /\ deferred'[m] = deferred[m]
      /\ frozen'[m] = frozen[m] /\ held'[m] = held[m] /\ denied'[m] = denied[m]
  BY DEF OneOfTheKinds, Quiet, Changed, Taken, Announced, Reverted, InboxMoves
<1>2. QED
  BY <1>1 DEF Quarantine, Waiting

LEMMA SameQuarantine ==
    ASSUME UNCHANGED vars, NEW n \in Node
    PROVE  /\ Quarantine(n)' = Quarantine(n) /\ Waiting(n)' = Waiting(n)
           /\ sent' = sent
  BY DEF vars, index, inbox, Quarantine, Waiting

LEMMA UnbrakedAlways == Spec => []AllUnbraked
<1>1. Init => AllUnbraked
  BY DEF Init, AllUnbraked, Unbraked, Quarantine
<1>2. IInv /\ AllUnbraked /\ [Next]_vars => AllUnbraked'
  <2>1. ASSUME IInv, AllUnbraked, Next, NEW m \in Node, m \notin Braking
        PROVE  Quarantine(m)' = {}
    <3>1. PICK n \in Node : StepOf(n)
      BY <2>1 DEF Next, StepOf
    <3>2. TypeOK /\ OwnHighest /\ Quarantine(m) = {}
      BY <2>1 DEF IInv, AllUnbraked, Unbraked
    <3>3. CASE m = n
      BY <2>1, <3>1, <3>2, <3>3, StepDraws, UnbrakedStep
    <3>4. CASE m # n
      BY <3>1, <3>2, <3>4, StepKind, Elsewhere
    <3>5. QED
      BY <3>3, <3>4
  <2>2. CASE Next
    BY <2>1, <2>2 DEF AllUnbraked, Unbraked
  <2>3. CASE UNCHANGED vars
    BY <2>3, SameQuarantine DEF AllUnbraked, Unbraked
  <2>4. QED
    BY <2>2, <2>3
<1>3. QED
  BY <1>1, <1>2, Invariance, PTL DEF Spec

\* In a folder whose members have no receiver brake nothing acknowledged is
\* lost and settled machines agree, however many they are.
THEOREM UnbrakedLoseNothing ==
    ASSUME Braking = {}
    PROVE  Spec => [](NothingLost /\ SettledAgree)
<1>1. AllUnbraked => ApprovesWhole
  BY DEF AllUnbraked, Unbraked, Quarantine, ApprovesWhole
<1>2. Spec => [][ApprovesWhole]_vars
  BY <1>1, UnbrakedAlways, PTL
<1>3. QED
  BY <1>2, NothingElseLoses, SettledMembersAgree, PTL

-----------------------------------------------------------------------------
(* Two members: what one announces comes in a row                             *)

Ordered(a, b) ==
    DominatesOrEquals(a.version, b.version) \/ DominatesOrEquals(b.version, a.version)

\* What a machine announces never goes back, so it comes in a row.
InARow == \A m \in Node : \A a, b \in sent[m] : Ordered(a, b)

Direct(n) == Waiting(n) \cup ItemEntries(Quarantine(n)) \subseteq Heard(n)

WholeItems(n) ==
    \A i \in Quarantine(n) : \A q \in i.over : DominatesOrEquals(i.kept.version, q.version)

LEMMA SentGrows ==
    ASSUME TypeOK, NEW n \in Node, OneOfTheKinds(n), NEW m \in Node
    PROVE  /\ sent[m] \subseteq sent'[m] /\ sent'[m] \subseteq sent[m] \cup {record[m]}
           /\ Heard(m) \subseteq Heard(m)'
<1>1. \A k \in Node : /\ sent[k] \subseteq sent'[k]
                      /\ sent'[k] \subseteq sent[k] \cup {record[k]}
  BY DEF OneOfTheKinds, Quiet, Changed, Taken, Announced, Reverted, TypeOK
<1>2. QED
  BY <1>1 DEF Heard

LEMMA RowStep ==
    ASSUME TypeOK, AnnouncedNeverRewinds, InARow, NEW n \in Node, OneOfTheKinds(n)
    PROVE  InARow'
<1>1. SUFFICES ASSUME NEW m \in Node, NEW a \in sent'[m], NEW b \in sent'[m]
               PROVE  Ordered(a, b)
  BY DEF InARow
<1>2. record[m] \in Entry /\ a \in sent[m] \cup {record[m]} /\ b \in sent[m] \cup {record[m]}
  BY SentGrows, TypesOf
<1>3. \A e \in sent[m] : DominatesOrEquals(record[m].version, e.version)
  BY DEF AnnouncedNeverRewinds
<1>4. DominatesOrEquals(record[m].version, record[m].version)
  BY <1>2, CoversItself
<1>5. QED
  BY <1>2, <1>3, <1>4 DEF InARow, Ordered

\* Of two machines each hears the other only.
LEMMA HeardInARow ==
    ASSUME \A a, b, c \in Node : a = b \/ b = c \/ a = c, InARow, NEW n \in Node
    PROVE  \A a, b \in Heard(n) : Ordered(a, b)
<1>1. SUFFICES ASSUME NEW a \in Heard(n), NEW b \in Heard(n)
               PROVE  Ordered(a, b)
  OBVIOUS
<1>2. PICK m \in Node \ {n} : a \in sent[m]
  BY DEF Heard
<1>3. PICK k \in Node \ {n} : b \in sent[k]
  BY DEF Heard
<1>4. m = k
  OBVIOUS
<1>5. QED
  BY <1>2, <1>3, <1>4 DEF InARow

\* Of entries in a row the latest of an item covers all that joined it.
LEMMA LatestCovers ==
    ASSUME NEW i \in Item, NEW k \in Entry, NEW joined \in SUBSET Entry,
           IsLatest(k, i, joined), \A e \in joined : Ordered(e, k),
           \A q \in i.over : DominatesOrEquals(i.kept.version, q.version)
    PROVE  \A q \in i.over \cup joined : DominatesOrEquals(k.version, q.version)
<1>1. i.kept \in Entry /\ i.over \subseteq Entry
  BY DEF Item
<1>2. \A x \in Node : i.kept.version[x] <= k.version[x]
  <2>1. DominatesOrEquals(k.version, i.kept.version)
    BY <1>1, CoversItself DEF IsLatest
  <2>2. QED
    BY <1>1, <2>1, VersionOrder DEF Entry
<1>3. ASSUME NEW q \in i.over
      PROVE  DominatesOrEquals(k.version, q.version)
  BY <1>1, <1>2, CoversTransitive
<1>4. ASSUME NEW e \in joined
      PROVE  DominatesOrEquals(k.version, e.version)
  <2>1. e.version \in Version /\ k.version \in Version
    BY DEF Entry
  <2>2. ~Dominates(e.version, k.version)
    BY DEF IsLatest
  <2>3. CASE DominatesOrEquals(e.version, k.version)
    <3>1. e.version = k.version
      BY <2>1, <2>2, <2>3, VersionOrder
    <3>2. QED
      BY <3>1, CoversItself
  <2>4. QED
    BY <2>3 DEF Ordered
<1>5. QED
  BY <1>3, <1>4

\* What n admits it has heard of, and so is what it then has.
LEMMA AdmitsHeard ==
    ASSUME TypeOK, NEW n \in Node, Direct(n), Admits(n)
    PROVE  /\ Raws(want'[n]) \subseteq Heard(n) /\ deferred'[n] \subseteq Heard(n)
           /\ ItemEntries(held'[n]) \subseteq Heard(n)
<1>1. PICK raws \in SUBSET (Waiting(n) \cup ItemEntries(Quarantine(n)) \cup Heard(n)),
           r \in Entry, w \in Want, items \in SUBSET Quarantine(n),
           waiting \in SUBSET Waiting(n) :
           /\ Raws(w) \subseteq Waiting(n)
           /\ \/ Admit(n, raws, r, w, items, waiting, n \in Braking)
              \/ Admit(n, raws, r, w, items, waiting, FALSE)
  BY DEF Admits
<1>2. /\ raws \subseteq Heard(n) /\ waiting \subseteq Heard(n)
      /\ Raws(w) \subseteq Heard(n)
  BY <1>1 DEF Direct
<1>3. ItemEntries(items) \subseteq Heard(n)
  <2>1. ItemEntries(items) \subseteq ItemEntries(Quarantine(n))
    BY DEF ItemEntries
  <2>2. QED
    BY <2>1 DEF Direct
<1>4. Heard(n) \subseteq Entry /\ items \subseteq Item
  BY TypesOf DEF Heard, TypeOK, Quarantine
<1>5. Admitted(n, raws, r, w, items, waiting)
  <2>1. raws \in SUBSET Entry /\ waiting \in SUBSET Entry /\ items \in SUBSET Item
    BY <1>2, <1>4
  <2>2. CASE Admit(n, raws, r, w, items, waiting, n \in Braking)
    BY <2>1, <2>2, AdmitFacts
  <2>3. CASE Admit(n, raws, r, w, items, waiting, FALSE)
    BY <2>1, <2>3, AdmitFacts
  <2>4. QED
    BY <1>1, <2>2, <2>3
<1>6. PICK t \in Want, late \in SUBSET raws, its \in SUBSET Item :
        /\ want'     = [want EXCEPT ![n] = t]
        /\ deferred' = [deferred EXCEPT ![n] = waiting \cup late]
        /\ held'     = [held EXCEPT ![n] = its]
        /\ \/ t = w
           \/ \E e \in raws : Applies(e, r) /\ t = WantFor(e, r)
        /\ ItemEntries(its) \subseteq ItemEntries(items) \cup raws
  BY <1>5 DEF Admitted
<1>7. want'[n] = t /\ deferred'[n] = waiting \cup late /\ held'[n] = its
  BY <1>6 DEF TypeOK
<1>8. Raws(t) \subseteq Heard(n)
  <2>1. CASE t = w
    BY <1>2, <2>1
  <2>2. CASE \E e \in raws : t = WantFor(e, r)
    <3>1. PICK e \in raws : t = WantFor(e, r)
      BY <2>2
    <3>2. t.raw = e
      BY <3>1 DEF WantFor
    <3>3. QED
      BY <1>2, <3>2 DEF Raws
  <2>3. QED
    BY <1>6, <2>1, <2>2
<1>9. QED
  BY <1>2, <1>3, <1>6, <1>7, <1>8

LEMMA DirectStep ==
    ASSUME TypeOK, NEW n \in Node, Direct(n), Draws(n), Heard(n) \subseteq Heard(n)'
    PROVE  Direct(n)'
<1>1. ItemEntries(denied'[n]) \subseteq Heard(n) /\ frozen'[n] \subseteq Heard(n)
  BY DEF Draws, Direct, ItemEntries, Waiting
<1>2. /\ Raws(want'[n]) \subseteq Heard(n) /\ deferred'[n] \subseteq Heard(n)
      /\ ItemEntries(held'[n]) \subseteq Heard(n)
  <2>1. CASE Admits(n)
    BY <2>1, AdmitsHeard
  <2>2. CASE /\ held'[n] = held[n] /\ deferred'[n] \subseteq Waiting(n)
             /\ Raws(want'[n]) \subseteq Waiting(n)
    BY <2>2 DEF Direct, Waiting, ItemEntries, Quarantine
  <2>3. QED
    BY <2>1, <2>2 DEF Draws
<1>3. ItemEntries(held'[n] \cup denied'[n]) \subseteq Heard(n)
  BY <1>1, <1>2 DEF ItemEntries
<1>4. QED
  BY <1>1, <1>2, <1>3 DEF Direct, Waiting, Quarantine

LEMMA AdmitsWhole ==
    ASSUME TypeOK, NEW n \in Node, Direct(n), WholeItems(n), Admits(n),
           \A a, b \in Heard(n) : Ordered(a, b), NEW j \in held'[n]
    PROVE  \A q \in j.over : DominatesOrEquals(j.kept.version, q.version)
<1>1. PICK raws \in SUBSET (Waiting(n) \cup ItemEntries(Quarantine(n)) \cup Heard(n)),
           r \in Entry, w \in Want, items \in SUBSET Quarantine(n),
           waiting \in SUBSET Waiting(n) :
           \/ Admit(n, raws, r, w, items, waiting, n \in Braking)
           \/ Admit(n, raws, r, w, items, waiting, FALSE)
  BY DEF Admits
<1>2. raws \subseteq Heard(n) /\ raws \subseteq Entry /\ items \subseteq Item
  <2>1. raws \subseteq Heard(n)
    BY DEF Direct
  <2>2. Heard(n) \subseteq Entry
    BY DEF Heard, TypeOK
  <2>3. Quarantine(n) \subseteq Item
    BY TypesOf DEF Quarantine
  <2>4. QED
    BY <2>1, <2>2, <2>3
<1> DEFINE news    == {e \in raws : Applies(e, r) /\ ~AlreadyWanted(w, Resolved(e, r))}
           joiners == {e \in news : Matching(items, e) # {}}
<1>3. PICK stopped \in SUBSET (news \ joiners), to \in [joiners -> items],
           latest \in [items -> joiners \cup {i.kept : i \in items}] :
           /\ \A i \in items : IsLatest(latest[i], i, {e \in joiners : to[e] = i})
           /\ held' = [held EXCEPT ![n] =
                          Quarantined(items, joiners, to, latest, stopped)]
  BY <1>1 DEF Admit
<1>4. joiners \subseteq raws /\ stopped \subseteq raws
  OBVIOUS
<1> HIDE DEF news, joiners
<1>5. j \in Quarantined(items, joiners, to, latest, stopped)
  BY <1>3 DEF TypeOK
<1>6. CASE \E e \in stopped : j = [kept |-> e, over |-> {e}]
  BY <1>2, <1>4, <1>6, CoversItself
<1>7. CASE \E i \in items :
              j = [kept |-> latest[i], over |-> i.over \cup {e \in joiners : to[e] = i}]
  <2>1. PICK i \in items :
           j = [kept |-> latest[i], over |-> i.over \cup {e \in joiners : to[e] = i}]
    BY <1>7
  <2> DEFINE joined == {e \in joiners : to[e] = i}
  <2>2. /\ joined \subseteq Heard(n) /\ joined \subseteq Entry
        /\ IsLatest(latest[i], i, joined)
    BY <1>2, <1>3, <1>4
  <2>3. /\ i \in Quarantine(n) /\ i \in Item
        /\ \A q \in i.over : DominatesOrEquals(i.kept.version, q.version)
    BY <1>2 DEF WholeItems
  <2>4. i.kept \in Heard(n)
    BY <2>3 DEF Direct, ItemEntries
  <2>5. latest[i] \in Heard(n)
    BY <2>2, <2>4 DEF IsLatest
  <2>6. latest[i] \in Entry
    BY <2>5 DEF Heard, TypeOK
  <2>7. \A e \in joined : Ordered(e, latest[i])
    BY <2>2, <2>5
  <2> HIDE DEF joined
  <2>8. \A q \in i.over \cup joined : DominatesOrEquals(latest[i].version, q.version)
    BY <2>2, <2>3, <2>6, <2>7, LatestCovers
  <2>9. j.kept = latest[i] /\ j.over = i.over \cup joined
    BY <2>1 DEF joined
  <2>10. QED
    BY <2>8, <2>9
<1>8. QED
  BY <1>5, <1>6, <1>7 DEF Quarantined

LEMMA WholeItemsStep ==
    ASSUME TypeOK, NEW n \in Node, Direct(n), WholeItems(n), Draws(n),
           \A a, b \in Heard(n) : Ordered(a, b)
    PROVE  WholeItems(n)'
<1>1. SUFFICES ASSUME NEW j \in Quarantine(n)'
               PROVE  \A q \in j.over : DominatesOrEquals(j.kept.version, q.version)
  BY DEF WholeItems
<1>2. CASE j \in Quarantine(n)
  BY <1>2 DEF WholeItems
<1>3. CASE j \in held'[n] /\ Admits(n)
  BY <1>3, AdmitsWhole
<1>4. QED
  BY <1>2, <1>3 DEF Draws, Quarantine

\* Every item of every member is whole, and all of it was announced to it.
Paired ==
    /\ InARow
    /\ \A n \in Node : Direct(n) /\ WholeItems(n)

LEMMA PairedStep ==
    ASSUME \A a, b, c \in Node : a = b \/ b = c \/ a = c,
           IInv, Paired, Next
    PROVE  Paired'
<1>1. PICK n \in Node : StepOf(n)
  BY DEF Next, StepOf
<1>2. TypeOK /\ OwnHighest /\ AnnouncedNeverRewinds /\ InARow
  BY DEF IInv, Paired
<1>3. OneOfTheKinds(n) /\ Draws(n)
  BY <1>1, <1>2, StepKind, StepDraws
<1>4. \A m \in Node : Heard(m) \subseteq Heard(m)'
  BY <1>2, <1>3, SentGrows
<1>5. InARow'
  BY <1>2, <1>3, RowStep
<1>6. ASSUME NEW m \in Node
      PROVE  Direct(m)' /\ WholeItems(m)'
  <2>1. Direct(m) /\ WholeItems(m)
    BY DEF Paired
  <2>2. CASE m = n
    <3>1. \A a, b \in Heard(n) : Ordered(a, b)
      BY <1>2, HeardInARow
    <3>2. QED
      BY <1>2, <1>3, <1>4, <2>1, <2>2, <3>1, DirectStep, WholeItemsStep
  <2>3. CASE m # n
    <3>1. Quarantine(m)' = Quarantine(m) /\ Waiting(m)' = Waiting(m)
      BY <1>3, <2>3, Elsewhere
    <3>2. QED
      BY <1>4, <2>1, <3>1 DEF Direct, WholeItems
  <2>4. QED
    BY <2>2, <2>3
<1>7. QED
  BY <1>5, <1>6 DEF Paired

LEMMA PairedAlways ==
    ASSUME \A a, b, c \in Node : a = b \/ b = c \/ a = c
    PROVE  Spec => []Paired
<1>1. Init => Paired
  BY DEF Init, Paired, InARow, Direct, WholeItems, Quarantine, Waiting, Raws, NoWant,
         ItemEntries, Heard
<1>2. IInv /\ Paired /\ [Next]_vars => Paired'
  <2>1. ASSUME IInv, Paired, UNCHANGED vars
        PROVE  Paired'
    <3>1. /\ \A n \in Node : Quarantine(n)' = Quarantine(n) /\ Waiting(n)' = Waiting(n)
          /\ sent' = sent
      BY <2>1, SameQuarantine DEF vars
    <3>2. QED
      BY <2>1, <3>1 DEF Paired, InARow, Direct, WholeItems, Heard
  <2>2. QED
    BY <2>1, PairedStep
<1>3. QED
  BY <1>1, <1>2, Invariance, PTL DEF Spec

\* Of two machines none of which both brakes and pauses nothing acknowledged is
\* lost and the two agree when they settle: what one announces comes in a row,
\* so the latest entry of an item covers the item, and every approval is whole.
THEOREM TwoLoseNothing ==
    ASSUME \A a, b, c \in Node : a = b \/ b = c \/ a = c, Braking \cap Pausing = {}
    PROVE  Spec => [](NothingLost /\ SettledAgree)
<1>1. Paired /\ AllUnbraked => ApprovesWhole
  BY DEF Paired, WholeItems, AllUnbraked, Unbraked, Quarantine, ApprovesWhole, Whole
<1>2. Spec => [][ApprovesWhole]_vars
  BY <1>1, PairedAlways, UnbrakedAlways, PTL
<1>3. QED
  BY <1>2, NothingElseLoses, SettledMembersAgree, PTL

=============================================================================
