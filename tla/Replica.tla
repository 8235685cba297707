------------------------------ MODULE Replica -------------------------------
(* One path of one folder on every member: how a local change, an             *)
(* announcement, a received entry, a commit, the receiver's brake and the     *)
(* sender's pause move a machine's record of the path (crates/engine/src/     *)
(* index.rs, folder.rs, want.rs, quarantine.rs).                              *)
(*                                                                            *)
(* Data that decides no version is left out: sequence numbers (a record is    *)
(* only fresh, written since the last batch, or not), sources and fetches,    *)
(* the disk and other paths.  An action is one handler of the engine, with    *)
(* everything it re-derives before it returns.                                *)
EXTENDS Entries, FiniteSets

CONSTANTS
    Hashes,     \* contents a file can be given
    Mtimes,     \* modification times an observation can report
    Execs,      \* exec bits an observation can report
    Editing,    \* members whose user changes the path
    Braking,    \* members whose receiver brake may hold an entry
    Pausing,    \* members whose sender pre-check may pause the folder
    Faulty      \* members whose commits fail and whose process restarts

ASSUME InputAssumption ==
    /\ Hashes \subseteq Nat \ {NoContent}
    /\ Mtimes \subseteq Int
    /\ Execs \subseteq BOOLEAN

VARIABLES
    record,     \* the index record of the path, Absent if there is none
    fresh,      \* written since the last batch: seq > announced_seq
    pending,    \* there is an unannounced local change ...
    kept,       \* ... and this is the record peers last saw before it
    keptFresh,  \* whether that record itself was never announced
    paused,     \* the sender pre-check has paused the folder
    want,       \* the want-list's row for the path
    deferred,   \* entries waiting for the next observation or commit
    frozen,     \* entries received over a pending change while paused
    held,       \* quarantined items
    denied,     \* items a deny consumed whose bumps are not announced yet
    sent,       \* everything announced: batches may be lost, repeated, late
    got,        \* everything received and acknowledged
    made        \* history: the local changes not discarded by a revert

index  == <<record, fresh, pending, kept, keptFresh>>
inbox  == <<want, deferred, frozen, held, denied>>
vars   == <<index, paused, inbox, sent, got, made>>

NoWant == [state |-> "none", entry |-> Absent, raw |-> Absent, local |-> FALSE]

Want == [state : {"none", "wanted", "committing"}, entry : Entry, raw : Entry,
         local : BOOLEAN]

\* kept: the latest entry as received; over: every version that joined.
Item == [kept : Entry, over : SUBSET Entry]

ItemEntries(items) == UNION {{i.kept} \cup i.over : i \in items}

Change == [node : Node, count : 1..MaxCounter, body : Body]

TypeOK ==
    /\ record    \in [Node -> Entry]
    /\ fresh     \in [Node -> BOOLEAN]
    /\ pending   \in [Node -> BOOLEAN]
    /\ kept      \in [Node -> Entry]
    /\ keptFresh \in [Node -> BOOLEAN]
    /\ paused    \in [Node -> BOOLEAN]
    /\ want      \in [Node -> Want]
    /\ deferred  \in [Node -> SUBSET Entry]
    /\ frozen    \in [Node -> SUBSET Entry]
    /\ held      \in [Node -> SUBSET Item]
    /\ denied    \in [Node -> SUBSET Item]
    /\ sent      \in [Node -> SUBSET Entry]
    /\ got       \in [Node -> SUBSET Entry]
    /\ made      \in SUBSET Change

Init ==
    /\ record    = [n \in Node |-> Absent]
    /\ fresh     = [n \in Node |-> FALSE]
    /\ pending   = [n \in Node |-> FALSE]
    /\ kept      = [n \in Node |-> Absent]
    /\ keptFresh = [n \in Node |-> FALSE]
    /\ paused    = [n \in Node |-> FALSE]
    /\ want      = [n \in Node |-> NoWant]
    /\ deferred  = [n \in Node |-> {}]
    /\ frozen    = [n \in Node |-> {}]
    /\ held      = [n \in Node |-> {}]
    /\ denied    = [n \in Node |-> {}]
    /\ sent      = [n \in Node |-> {}]
    /\ got       = [n \in Node |-> {}]
    /\ made      = {}

-----------------------------------------------------------------------------
(* The index                                                                  *)

\* The hash of the last version peers could have seen.
AnnouncedHash(n) ==
    IF pending[n] THEN kept[n].body.hash ELSE record[n].body.hash

\* A content change stamps at least its mtime; every change stamps past the
\* record it replaces; a first record stamps its mtime.
StampFor(n, mtime, contentChanged) ==
    CASE record[n].version = Empty                       -> mtime
      [] contentChanged /\ mtime > record[n].body.stamp  -> mtime
      [] OTHER                                           -> record[n].body.stamp + 1

Observed(n, hash, exec, mtime) ==
    [version |-> Incremented(record[n].version, n),
     body |-> [stamp   |-> StampFor(n, mtime, hash # AnnouncedHash(n)),
               deleted |-> FALSE,
               hash    |-> hash,
               prev    |-> AnnouncedHash(n),
               exec    |-> exec,
               mtime   |-> mtime,
               by      |-> n]]

Tombstone(n, at) ==
    [version |-> Incremented(record[n].version, n),
     body |-> [stamp   |-> record[n].body.stamp + 1,
               deleted |-> TRUE,
               hash    |-> NoContent,
               prev    |-> AnnouncedHash(n),
               exec    |-> FALSE,
               mtime   |-> at,
               by      |-> n]]

\* Mutant: a local change does not keep the record peers last saw.
WriteKeepsNothing(n, e) ==
    /\ record'    = [record EXCEPT ![n] = e]
    /\ fresh'     = [fresh EXCEPT ![n] = TRUE]
    /\ pending'   = [pending EXCEPT ![n] = TRUE]
    /\ UNCHANGED <<kept, keptFresh>>
    /\ made'      = made \cup {[node  |-> n,
                                count |-> e.version[n],
                                body  |-> e.body]}

\* A local change is recorded.  The first one since the last batch keeps the
\* record peers last saw.
Write(n, e) ==
    /\ record'    = [record EXCEPT ![n] = e]
    /\ fresh'     = [fresh EXCEPT ![n] = TRUE]
    /\ pending'   = [pending EXCEPT ![n] = TRUE]
    /\ kept'      = [kept EXCEPT ![n] = IF pending[n] THEN @ ELSE record[n]]
    /\ keptFresh' = [keptFresh EXCEPT ![n] = IF pending[n] THEN @ ELSE fresh[n]]
    /\ made'      = made \cup {[node  |-> n,
                                count |-> e.version[n],
                                body  |-> e.body]}

\* No pending change is left: it was announced, adopted over or reverted.
ClearPending(n) ==
    /\ pending'   = [pending EXCEPT ![n] = FALSE]
    /\ kept'      = [kept EXCEPT ![n] = Absent]
    /\ keptFresh' = [keptFresh EXCEPT ![n] = FALSE]

\* Mutant: an announced change can still be reverted.
AnnouncedStaysPending(n) ==
    /\ sent'   = [sent EXCEPT ![n] = IF fresh[n] THEN @ \cup {record[n]} ELSE @]
    /\ fresh'  = [fresh EXCEPT ![n] = FALSE]
    /\ denied' = [denied EXCEPT ![n] = {}]
    /\ UNCHANGED <<pending, kept, keptFresh>>

\* The batch window closes over everything written since the last one.
MarkAnnounced(n) ==
    /\ sent'   = [sent EXCEPT ![n] = IF fresh[n] THEN @ \cup {record[n]} ELSE @]
    /\ fresh'  = [fresh EXCEPT ![n] = FALSE]
    /\ denied' = [denied EXCEPT ![n] = {}]
    /\ ClearPending(n)

-----------------------------------------------------------------------------
(* Admitting entries: the want-list, the quarantine and the brake             *)

AlreadyWanted(w, e) == DominatesOrEquals(w.entry.version, e.version)

\* The item of the earliest quarantined version the entry equals or dominates:
\* the one that has the entry already, or else one of those that match.
Matches(i, e) == \E q \in i.over : DominatesOrEquals(e.version, q.version)

Matching(items, e) ==
    IF \E i \in items : e \in i.over
    THEN {i \in items : e \in i.over}
    ELSE {i \in items : Matches(i, e)}

WantFor(e, r) ==
    [state |-> "wanted", entry |-> Resolved(e, r), raw |-> e,
     local |-> IndexOnly(e, r)]

\* The raw entries are put in the want-list one after another.  Each replaces
\* a want it dominates unless that one is committing; one that does not is
\* refused, and deferred.  Whatever the order, the want that is left has
\* nothing dominating it, and nothing it does not cover is dropped.
Insert(n, raws, r, w, waiting) ==
    \E top \in {WantFor(e, r) : e \in raws} \cup {w}, late \in SUBSET raws :
        /\ want'     = [want EXCEPT ![n] = top]
        /\ deferred' = [deferred EXCEPT ![n] = waiting \cup late]
        /\ top = w \/ /\ w.state # "committing"
                      /\ Dominates(top.entry.version, w.entry.version)
        /\ \A e \in raws :
              LET v == Resolved(e, r).version
                  t == top.entry.version
              IN  /\ e \notin late => DominatesOrEquals(t, v)
                  /\ e \in late    => t # v
                  /\ w.state # "committing" => ~Dominates(v, t)

\* Joiners are quarantined with an item they match and replace its entry if
\* they dominate or equal it; the entries the brake stops make their own.
Quarantined(items, joiners, to, latest, stopped) ==
    {[kept |-> latest[i], over |-> i.over \cup {e \in joiners : to[e] = i}] :
        i \in items}
    \cup {[kept |-> e, over |-> {e}] : e \in stopped}

IsLatest(k, i, joined) ==
    /\ k = i.kept \/ (k \in joined /\ DominatesOrEquals(k.version, i.kept.version))
    /\ \A e \in joined : ~Dominates(e.version, k.version)

\* admit: classify the raw entries against the record r the handler leaves,
\* drop what the index or the want w has caught up with, quarantine what
\* belongs to the items or what the brake stops, want the rest.
Admit(n, raws, r, w, items, waiting, brake) ==
    LET news    == {e \in raws : Applies(e, r) /\ ~AlreadyWanted(w, Resolved(e, r))}
        joiners == {e \in news : Matching(items, e) # {}}
    IN  \E stopped \in IF brake THEN SUBSET (news \ joiners) ELSE {{}} :
        \E to \in [joiners -> items] :
        \E latest \in [items -> joiners \cup {i.kept : i \in items}] :
           /\ \A e \in joiners : to[e] \in Matching(items, e)
           /\ \A i \in items : IsLatest(latest[i], i, {e \in joiners : to[e] = i})
           /\ held' = [held EXCEPT ![n] =
                          Quarantined(items, joiners, to, latest, stopped)]
           /\ Insert(n, news \ (joiners \cup stopped), r, w, waiting)

\* The raw entry of the want, if there is one: what a re-derivation admits.
RawWant(n) == IF want[n].state = "none" THEN {} ELSE {want[n].raw}

\* Mutant: a want is left as it was resolved against the replaced record.
WantNotRederived(n, e) ==
    /\ Write(n, e)
    /\ Admit(n, deferred[n], e, want[n], held[n], {}, n \in Braking)
    /\ UNCHANGED <<paused, frozen, denied, sent, got>>

\* A local change at the path: the want is re-derived from the entry it
\* received and the deferred entries are classified again.
LocalChange(n, e) ==
    /\ Write(n, e)
    /\ Admit(n, RawWant(n) \cup deferred[n], e, NoWant, held[n], {}, n \in Braking)
    /\ UNCHANGED <<paused, frozen, denied, sent, got>>

-----------------------------------------------------------------------------
(* Observations                                                               *)

\* Bound: the counters of a path stay below the one that saturates.
CanChange(n) == record[n].version[n] < MaxCounter

CanEdit(n) == n \in Editing /\ CanChange(n)

Differs(n, hash, exec, mtime) ==
    \/ ~Live(record[n])
    \/ record[n].body.hash # hash
    \/ record[n].body.exec # exec
    \/ record[n].body.mtime # mtime

\* The scanner, or the watcher, found a file that is not what the record says.
\* While a commit holds the path it is the host's own work and ignored.
Observe(n, hash, exec, mtime) ==
    /\ CanEdit(n)
    /\ want[n].state # "committing"
    /\ Differs(n, hash, exec, mtime)
    /\ LocalChange(n, Observed(n, hash, exec, mtime))

\* Nothing was found where a live record is.
ObserveAbsent(n, at) ==
    /\ CanEdit(n)
    /\ want[n].state # "committing"
    /\ Live(record[n])
    /\ LocalChange(n, Tombstone(n, at))

\* The path was found as its record says: only what waited is looked at again.
ObserveUnchanged(n) ==
    /\ want[n].state # "committing"
    /\ deferred[n] # {}
    /\ Admit(n, deferred[n], record[n], want[n], held[n], {}, n \in Braking)
    /\ UNCHANGED <<index, paused, frozen, denied, sent, got, made>>

-----------------------------------------------------------------------------
(* Commits                                                                    *)

\* dispatch: the host is asked to commit the want.
StartCommit(n) ==
    /\ want[n].state = "wanted"
    /\ ~want[n].local
    /\ want' = [want EXCEPT ![n].state = "committing"]
    /\ UNCHANGED <<index, paused, deferred, frozen, held, denied, sent, got, made>>

\* Mutant: what came in behind the commit is forgotten when it is done.
AdoptDropsDeferred(n) ==
    LET w == want[n]
    IN  /\ record' = [record EXCEPT ![n] = w.entry]
        /\ fresh'  = [fresh EXCEPT ![n] = TRUE]
        /\ ClearPending(n)
        /\ want'     = [want EXCEPT ![n] = NoWant]
        /\ deferred' = [deferred EXCEPT ![n] = {}]
        /\ UNCHANGED <<held, paused, frozen, denied, sent, got, made>>

\* The index takes the wanted entry over, unless its record moved on, in which
\* case the entry waits; either way the want ends.
Adopt(n) ==
    LET w       == want[n]
        taken   == DominatesOrEquals(w.entry.version, record[n].version)
        now     == IF taken THEN w.entry ELSE record[n]
        waiting == IF taken THEN deferred[n] ELSE deferred[n] \cup {w.raw}
    IN  /\ record' = [record EXCEPT ![n] = now]
        /\ fresh'  = [fresh EXCEPT ![n] = @ \/ taken]
        /\ IF taken THEN ClearPending(n) ELSE UNCHANGED <<pending, kept, keptFresh>>
        /\ Admit(n, waiting, now, NoWant, held[n], {}, n \in Braking)
        /\ UNCHANGED <<paused, frozen, denied, sent, got, made>>

\* The host reported the commit done.
Applied(n) ==
    /\ want[n].state = "committing"
    /\ Adopt(n)

\* dispatch: nothing to do on disk.
AdoptIndexOnly(n) ==
    /\ want[n].state = "wanted"
    /\ want[n].local
    /\ Adopt(n)

\* The guard found another file than the record says: the want ends, what it
\* received waits, and the find is a local change that takes it up again.
ChangedUnderneath(n, hash, exec, mtime) ==
    /\ CanEdit(n)
    /\ want[n].state = "committing"
    /\ Differs(n, hash, exec, mtime)
    /\ LocalChange(n, Observed(n, hash, exec, mtime))

\* The guard found nothing where the record has a live file.
VanishedUnderneath(n, at) ==
    /\ CanEdit(n)
    /\ want[n].state = "committing"
    /\ Live(record[n])
    /\ LocalChange(n, Tombstone(n, at))

\* The guard failed and what it found is no news, or it could not look: the
\* want ends, and what it received waits for the next observation.
NoNewsUnderneath(n) ==
    /\ n \in Faulty
    /\ want[n].state = "committing"
    /\ want'     = [want EXCEPT ![n] = NoWant]
    /\ deferred' = [deferred EXCEPT ![n] = @ \cup {want[n].raw}]
    /\ UNCHANGED <<index, paused, frozen, held, denied, sent, got, made>>

\* The commit failed on this machine: the want is tried again later and what
\* waited for the report is classified against the record as it was.
CommitFailed(n) ==
    /\ n \in Faulty
    /\ want[n].state = "committing"
    /\ Admit(n, deferred[n], record[n], [want[n] EXCEPT !.state = "wanted"],
             held[n], {}, n \in Braking)
    /\ UNCHANGED <<index, paused, frozen, denied, sent, got, made>>

\* The process restarted: everything above is durable but the commit died.
Restart(n) ==
    /\ n \in Faulty
    /\ want[n].state = "committing"
    /\ want' = [want EXCEPT ![n].state = "wanted"]
    /\ UNCHANGED <<index, paused, deferred, frozen, held, denied, sent, got, made>>

-----------------------------------------------------------------------------
(* Batches                                                                    *)

\* The window is due and the pre-check passes.
Announce(n) ==
    /\ ~paused[n]
    /\ fresh[n]
    /\ MarkAnnounced(n)
    /\ UNCHANGED <<record, paused, want, deferred, frozen, held, got, made>>

\* The window is due and the pre-check, which counts local changes, holds.
Pause(n) ==
    /\ n \in Pausing
    /\ ~paused[n]
    /\ fresh[n]
    /\ pending[n]
    /\ paused' = [paused EXCEPT ![n] = TRUE]
    /\ UNCHANGED <<index, inbox, sent, got, made>>

\* Entries frozen while the folder was paused are admitted now.
Unfreeze(n, raws, r, w, items) ==
    /\ frozen' = [frozen EXCEPT ![n] = {}]
    /\ Admit(n, raws, r, w, items, deferred[n], n \in Braking)

\* A batch of m with entry e arrives: the first copy, a duplicate, or a
\* catch-up after it was lost.
Receive(n, m, e) ==
    /\ m # n
    /\ e \in sent[m]
    /\ got' = [got EXCEPT ![n] = @ \cup {e}]
    /\ LET r      == record[n]
           freeze == /\ Applies(e, r)
                     /\ ~AlreadyWanted(want[n], Resolved(e, r))
                     /\ Matching(held[n], e) = {}
                     /\ paused[n] /\ pending[n]
       IN  IF freeze
           THEN /\ frozen' = [frozen EXCEPT ![n] = @ \cup {e}]
                /\ UNCHANGED <<want, deferred, held>>
           ELSE /\ Admit(n, {e}, r, want[n], held[n], deferred[n], n \in Braking)
                /\ UNCHANGED frozen
    /\ UNCHANGED <<index, paused, denied, sent, made>>

-----------------------------------------------------------------------------
(* The user's decisions                                                       *)

\* approve of the paused batch: it is sent and the folder unpauses.
ApprovePaused(n) ==
    /\ paused[n]
    /\ paused' = [paused EXCEPT ![n] = FALSE]
    /\ MarkAnnounced(n)
    /\ Unfreeze(n, frozen[n], record[n], want[n], held[n])
    /\ UNCHANGED <<record, got, made>>

\* revert: the pending change is discarded, the record peers last saw comes
\* back, denies it undoes give their items back, and the want resolved
\* against the discarded record is re-derived.  It waits for the commit.
Revert(n) ==
    LET back  == IF pending[n] THEN kept[n] ELSE record[n]
        stale == IF pending[n] THEN RawWant(n) ELSE {}
        still == IF pending[n] THEN NoWant ELSE want[n]
    IN  /\ paused[n]
        /\ want[n].state # "committing"
        /\ paused' = [paused EXCEPT ![n] = FALSE]
        /\ record' = [record EXCEPT ![n] = back]
        /\ fresh'  = [fresh EXCEPT ![n] = IF pending[n] THEN keptFresh[n] ELSE @]
        /\ ClearPending(n)
        /\ made'   = {c \in made : c.node = n => c.count <= back.version[n]}
        /\ denied' = [denied EXCEPT ![n] = {}]
        /\ Unfreeze(n, stale \cup frozen[n], back, still, held[n] \cup denied[n])
        /\ UNCHANGED <<sent, got>>

\* approve of a held item: its latest entry is admitted past the brake.
ApproveHeld(n, i) ==
    /\ i \in held[n]
    /\ Admit(n, {i.kept}, record[n], want[n], held[n] \ {i}, deferred[n], FALSE)
    /\ UNCHANGED <<index, paused, frozen, denied, sent, got, made>>

\* v and top are the component-wise maximum and the largest stamp of a set.
IsCeiling(v, top, es) ==
    /\ \A e \in es : e.body.stamp <= top
    /\ \E e \in es : e.body.stamp = top
    /\ \A k \in Node : /\ \A e \in es : e.version[k] <= v[k]
                       /\ \E e \in es : e.version[k] = v[k]

\* deny of a held item: this machine's copy, or its absence, is bumped over
\* every quarantined version at the path, whatever item it is in.
Bumped(n, v, top, at) ==
    [version |-> Incremented(v, n),
     body |-> [stamp   |-> top + 1,
               deleted |-> record[n].body.deleted,
               hash    |-> record[n].body.hash,
               prev    |-> AnnouncedHash(n),
               exec    |-> record[n].body.exec,
               mtime   |-> IF record[n].version = Empty THEN at
                           ELSE record[n].body.mtime,
               by      |-> n]]

BumpedOver(n) ==
    (UNION {j.over : j \in held[n]})
    \cup (IF record[n].version = Empty THEN {} ELSE {record[n]})

BumpOver(n, i, v, top, at) ==
    /\ IsCeiling(v, top, BumpedOver(n))
    /\ Write(n, Bumped(n, v, top, at))
    /\ Admit(n, RawWant(n), Bumped(n, v, top, at), NoWant, held[n] \ {i},
             deferred[n], n \in Braking)

Deny(n, i, at) ==
    /\ i \in held[n]
    /\ ~paused[n]
    /\ want[n].state # "committing"
    /\ CanChange(n)
    /\ \E v \in [Node -> {e.version[k] : e \in BumpedOver(n), k \in Node}],
          top \in {e.body.stamp : e \in BumpedOver(n)} :
          BumpOver(n, i, v, top, at)
    /\ denied' = [denied EXCEPT ![n] = @ \cup {i}]
    /\ UNCHANGED <<paused, frozen, sent, got>>

-----------------------------------------------------------------------------
Next ==
    \E n \in Node :
        \/ \E hash \in Hashes, exec \in Execs, mtime \in Mtimes :
              Observe(n, hash, exec, mtime) \/ ChangedUnderneath(n, hash, exec, mtime)
        \/ \E at \in Mtimes :
              ObserveAbsent(n, at) \/ VanishedUnderneath(n, at)
        \/ ObserveUnchanged(n)
        \/ StartCommit(n)
        \/ Applied(n)
        \/ AdoptIndexOnly(n)
        \/ NoNewsUnderneath(n)
        \/ CommitFailed(n)
        \/ Restart(n)
        \/ Announce(n)
        \/ Pause(n)
        \/ \E m \in Node : \E e \in sent[m] : Receive(n, m, e)
        \/ ApprovePaused(n)
        \/ Revert(n)
        \/ \E i \in held[n] : ApproveHeld(n, i)
        \/ \E i \in held[n], at \in Mtimes : Deny(n, i, at)

Spec == Init /\ [][Next]_vars

-----------------------------------------------------------------------------
(* Safety                                                                     *)

Quarantine(n) == held[n] \cup denied[n]

\* Every entry machine n has besides its record and what it resolved a want to.
Outside(n) ==
    {kept[n], want[n].raw} \cup deferred[n] \cup frozen[n] \cup sent[n] \cup got[n]
    \cup ItemEntries(Quarantine(n))

Carried(n) == {record[n], want[n].entry} \cup Outside(n)

\* A version is the name of one content (conflict.rs, `merged`: "a merged
\* record is a function of its vector"): no two machines ever hold different
\* contents under one version, whatever was merged, denied, discarded by a
\* revert and written again, so nothing a version dominates is ever missed.
SameVersionSameContent ==
    \A n, m \in Node : \A a \in Carried(n), b \in Carried(m) :
        a.version = b.version => a.body = b.body

\* The rules before the total fallback tell any two different contents apart
\* that a machine has to merge (conflict.rs: "Should never happen"), so no
\* winner is picked by comparing hashes.
NeverFallback ==
    \A n \in Node :
        \A e \in (UNION {sent[m] : m \in Node}) \cup deferred[n] \cup frozen[n] :
            ~DecidedByFallback(e, record[n])

\* What a want would put in the index dominates the record it replaces, up to
\* the moment it is adopted (the debug assertion of Index::adopt): every write
\* of the record re-derives the want, and none happens under a commit.
WantDominates ==
    \A n \in Node : want[n].state # "none" =>
        Dominates(want[n].entry.version, record[n].version)

\* A machine's record never falls behind what it announced: revert discards
\* only what nobody has heard of, and commits only move forward.
AnnouncedNeverRewinds ==
    \A n \in Node : \A e \in sent[n] :
        DominatesOrEquals(record[n].version, e.version)

\* A pending change never leaks before its batch: no other machine, and
\* nothing a revert keeps, has a counter of n above the record peers last saw.
PendingNeverLeaks ==
    \A n \in Node : pending[n] =>
        /\ \A m \in Node \ {n} : \A e \in Carried(m) :
              e.version[n] <= kept[n].version[n]
        /\ \A e \in Outside(n) : e.version[n] <= kept[n].version[n]

\* No vector anywhere counts a change of n that its own record has not made.
OwnHighest ==
    \A n \in Node :
        /\ \A m \in Node : \A e \in Carried(m) : e.version[n] <= record[n].version[n]
        /\ \A c \in made : c.node = n => c.count <= record[n].version[n]

\* Those of the changes that a vector has seen.
Past(changes, v) == {c \in changes : c.count <= v[c.node]}

\* What an entry says is the highest ranked of the changes its vector has seen.
Canonical(changes, e) ==
    \/ e = Absent
    \/ /\ \E c \in Past(changes, e.version) : c.body = e.body
       /\ \A c \in Past(changes, e.version) : WinnerBody(e.body, c.body) = e.body

AllCanonical == \A n \in Node : \A e \in Carried(n) : Canonical(made, e)

\* The changes of one author carry its name, one counter each, and their
\* stamps rise with their counters.
AuthorsOrdered ==
    \A c, d \in made :
        /\ c.body.by = c.node
        /\ c.node = d.node =>
              /\ c.count = d.count => c = d
              /\ c.count < d.count => c.body.stamp < d.body.stamp

\* A revert has a record to go back to that is past everything announced.
KeptCovers ==
    \A n \in Node : pending[n] =>
        \A e \in sent[n] : DominatesOrEquals(kept[n].version, e.version)

\* The inductive invariant: what the properties above follow from.
IInv ==
    /\ TypeOK
    /\ OwnHighest
    /\ PendingNeverLeaks
    /\ AllCanonical
    /\ AuthorsOrdered
    /\ KeptCovers
    /\ AnnouncedNeverRewinds
    /\ WantDominates

\* What n still has of the changes it was told about.
Remembered(n) ==
    {record[n], want[n].raw} \cup deferred[n] \cup frozen[n]
    \cup UNION {i.over : i \in Quarantine(n)}

\* A change acknowledged to its sender is never forgotten: the sender will not
\* send it again, so it must be in the record or still wait at this machine.
NothingLost ==
    \A n \in Node : \A e \in got[n] : \A k \in Node :
        \E x \in Remembered(n) : e.version[k] <= x.version[k]

\* Nothing is under way anywhere: every machine announced its record, received
\* every other's, and has nothing wanted, waiting or quarantined.
Settled ==
    \A n \in Node :
        /\ ~fresh[n] /\ ~paused[n]
        /\ want[n].state = "none"
        /\ deferred[n] \cup frozen[n] \cup Quarantine(n) = {}
        /\ \A m \in Node \ {n} : record[m] \in got[n] \cup {Absent}

\* Machines with nothing left to do hold the same record.
SettledAgree ==
    Settled => \A n, m \in Node : record[n] = record[m]

-----------------------------------------------------------------------------
(* Liveness                                                                   *)

\* A machine that lacks another's announced record is sent it until it has it:
\* acknowledgements below the last announced record trigger a catch-up.
CatchUp(n, m) == record[m] \notin got[n] /\ Receive(n, m, record[m])

\* The window closes, the want-list is dispatched at every event, scans repeat
\* and a commit that keeps failing is retried until it goes through.
EngineFairness ==
    \A n \in Node :
        /\ WF_vars(Announce(n))
        /\ WF_vars(StartCommit(n))
        /\ WF_vars(AdoptIndexOnly(n))
        /\ WF_vars(ObserveUnchanged(n))
        /\ SF_vars(Applied(n))
        /\ \A m \in Node : WF_vars(CatchUp(n, m))

\* The user decides every held item in the end, one way or the other.
UserFairness ==
    \A n \in Node :
        WF_vars(\E i \in held[n] : ApproveHeld(n, i) \/ \E at \in Mtimes : Deny(n, i, at))

FairSpec == Spec /\ EngineFairness /\ UserFairness

\* Once users stop changing the path, every machine comes to hold the same
\* record and keeps it.
Converges == <>[](\A n, m \in Node : record[n] = record[m])

=============================================================================
