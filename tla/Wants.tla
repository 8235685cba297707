-------------------------------- MODULE Wants --------------------------------
(* The want-list of one folder over a tree of paths (WantList,                *)
(* crates/engine/src/want.rs), with what FolderState does around it           *)
(* (dispatch, fetched, applied_at, trashed, revert in folder.rs): from whom   *)
(* each wanted file is fetched, in which order wants are committed, and who   *)
(* waits for whom when a fetch or a commit fails.                             *)
(*                                                                            *)
(* As in Engine::handle, every action ends with the dispatch of the list.  A  *)
(* deadline that passes is an action of its own: how long the backoffs are is *)
(* data.  Versions at a path are numbered in the order in which they dominate *)
(* each other; a path does not change its kind.  What records, quarantine and *)
(* deferred entries do to a want is in Replica: here an entry that waits      *)
(* elsewhere simply arrives again.                                            *)
EXTENDS Integers, Sequences, FiniteSets, Bags

CONSTANTS
    Peer,        \* the other members, numbered: ties go to the smaller
    Path,        \* the paths, numbered in path order
    Above,       \* the directories above each path
    Length,      \* how long each path's name is
    Dirs,        \* the paths that are directories
    Big,         \* the files over the limit of the relay tier
    Initial,     \* the sets of paths whose records may be live at first
    Batches,     \* what may be accepted together: functions from paths to ops
    Sources,     \* the sets of members a batch may name as sources
    Reverts,     \* what may be reverted together: functions from paths to ops
    PerPeer,     \* Rules::max_fetches_per_peer
    PerFolder,   \* Rules::max_fetches_per_folder
    MaxVersion,  \* bound: versions of one path
    MaxBatches,  \* bound: batches accepted
    MaxRules,    \* bound: reverts and re-derivations
    MaxFaults    \* bound: failures, stalls, lost peers, restarts

Ops == {"file", "dir", "meta", "adopt", "delete", "trash"}

ASSUME WantsAssumption ==
    /\ IsFiniteSet(Peer) /\ Peer = 1..Cardinality(Peer)
    /\ IsFiniteSet(Path) /\ Path = 1..Cardinality(Path)
    /\ Above \in [Path -> SUBSET Path] /\ Dirs \subseteq Path /\ Big \subseteq Path \ Dirs
    /\ Length \in [Path -> Nat]
    /\ \A p \in Path : /\ Above[p] \subseteq {q \in Dirs : q < p}
                       /\ \A q, r \in Above[p] \cup {p} : q < r => Length[q] < Length[r]
    /\ Initial \subseteq SUBSET Path /\ Sources \subseteq SUBSET Peer
    /\ \A b \in Batches : DOMAIN b \subseteq Path /\ b \in [DOMAIN b -> Ops \ {"trash"}]
    /\ \A r \in Reverts : DOMAIN r \subseteq Path /\ r \in [DOMAIN r -> {"trash", "dir", "file"}]
    /\ {PerPeer, PerFolder} \subseteq Nat \ {0}
    /\ {MaxVersion, MaxBatches, MaxRules, MaxFaults} \subseteq Nat

VARIABLES
    engine,   \* the list, the commits it released, the live records, the batch
              \* window, how each peer is reached, whether inbound is paused
    fetches,  \* the fetches the host is at: after a stall there may be two alike
    commits,  \* the commits the host was given, in order
    latest,   \* the latest version of each path
    refusals, \* the fetches that were really answered with NotAvailable
    gone,     \* the wants settled as unrecoverable
    spent     \* how many of each bounded thing there were

vars == <<engine, fetches, commits, latest, refusals, gone, spent>>

NoWant == [state |-> "none"]
Want(op, version, sources, restoring) ==
    [op |-> op, version |-> version, sources |-> sources, restoring |-> restoring,
     fetched |-> FALSE, refused |-> {}, excluded |-> {}, answered |-> {},
     state |-> "wanted", on |-> 0]

Wanted(w)     == w.state # "none"
InFlight(w)   == w.state \in {"wanted", "blocked", "fetching", "committing"}
Startable(w)  == w.state \in {"wanted", "blocked", "deferred", "no source"}
NeedsFetch(w) == w.op = "file" /\ ~w.fetched
IsDelete(w)   == w.op \in {"delete", "trash"}
\* A move to the trash is a commit from the moment revert orders it.
Committing(w) == w.state = "committing" \/ (Wanted(w) /\ w.op = "trash")

In(e, p, state, on) == [e EXCEPT !.wants[p].state = state, !.wants[p].on = on]

\* q's want must end before p's may be committed: a directory is made before
\* what is in it, nothing is made in one on its way to the trash, and a
\* directory is removed after what is in it.
\* Mutant: a move to the trash holds nothing back.
GatesNoTrash(e, p, q) ==
    /\ Wanted(e.wants[p]) /\ Wanted(e.wants[q])
    /\ IF IsDelete(e.wants[p]) THEN p \in Above[q] /\ IsDelete(e.wants[q])
                               ELSE q \in Above[p] /\ ~IsDelete(e.wants[q])
Gates(e, p, q) ==
    /\ Wanted(e.wants[p]) /\ Wanted(e.wants[q])
    /\ IF IsDelete(e.wants[p])
       THEN p \in Above[q] /\ IsDelete(e.wants[q])
       ELSE q \in Above[p] /\ (~IsDelete(e.wants[q]) \/ e.wants[q].op = "trash")

-----------------------------------------------------------------------------
(* The dispatch: from the engine as the event left it, e, to the engine with  *)
(* what the host is asked for, the fetches e.asks and the commits e.jobs.     *)

\* Op(e), written so that TLC works out e once.
Then(e, Op(_)) == CHOOSE r \in {Op(x) : x \in {e}} : TRUE

Least(S, Before(_, _)) == CHOOSE x \in S : \A y \in S \ {x} : Before(x, y)

Rank(tier) == IF tier = "lan" THEN 1 ELSE 2
Better(e, q, r) == \/ Rank(e.tiers[q]) < Rank(e.tiers[r])
                   \/ Rank(e.tiers[q]) = Rank(e.tiers[r]) /\ q < r

Candidates(e, p) ==
    {q \in e.wants[p].sources \ (e.wants[p].refused \cup e.wants[p].excluded) :
        e.tiers[q] # "away"}
Allowed(e, p) == {q \in Candidates(e, p) : p \in Big => e.tiers[q] = "lan"}
BestOf(e, S)  == Least(S, LAMBDA q, r : Better(e, q, r))
Best(e, p)    == BestOf(e, Allowed(e, p))

\* Mutant: what waited for a want that ended goes on waiting.
WaitsOn(e) == e
ReleaseWaiting(e) ==
    [e EXCEPT !.wants = [p \in Path |->
        IF @[p].state = "waiting for" /\ ~Gates(e, p, @[p].on)
        THEN [@[p] EXCEPT !.state = "wanted", !.on = 0] ELSE @[p]]]

\* A directory with anything live in it, or on its way there, is not moved to
\* the trash: the move is dropped and the directory gets a record of its own.
LiveBeneath(e, d) ==
    \E p \in Path : /\ d \in Above[p]
                    /\ p \in e.live \/ (Wanted(e.wants[p]) /\ ~IsDelete(e.wants[p]))

KeepDirectories(e) ==
    LET kept == {d \in Dirs : /\ Wanted(e.wants[d]) /\ e.wants[d].op = "trash"
                              /\ e.wants[d].state # "committing" /\ LiveBeneath(e, d)}
    IN [e EXCEPT !.wants = [p \in Path |-> IF p \in kept THEN NoWant ELSE @[p]],
                 !.live = @ \cup kept, !.window = @ \/ kept # {}]

Fetchable(e) == {p \in Path : /\ e.wants[p].state \in {"wanted", "deferred", "no source"}
                              /\ NeedsFetch(e.wants[p])}
Reselect(e) ==
    [e EXCEPT !.wants = [p \in Path |->
        IF p \notin Fetchable(e) \/ Allowed(e, p) # {} THEN @[p]
        ELSE [@[p] EXCEPT !.state = IF Candidates(e, p) = {} THEN "no source" ELSE "deferred"]]]

Fetching(e, from) == {p \in Path : e.wants[p].state = "fetching" /\ e.wants[p].on \in from}

\* The best source with a slot left, as long as the folder has one.
Free(e, p) == {q \in Allowed(e, p) : Cardinality(Fetching(e, {q})) < PerPeer}
Assign(e, p) ==
    IF Cardinality(Fetching(e, Peer)) >= PerFolder \/ Free(e, p) = {} THEN In(e, p, "wanted", 0)
    ELSE LET from == BestOf(e, Free(e, p))
         IN [In(e, p, "fetching", from) EXCEPT
                !.asks = @ \cup {[path |-> p, version |-> e.wants[p].version, from |-> from]}]
AssignAll(e) ==
    LET todo == {p \in Fetchable(e) : Allowed(e, p) # {}}
        After(p, q) == \/ Better(e, Best(e, q), Best(e, p))
                       \/ Best(e, p) = Best(e, q) /\ q < p
        assigned[S \in SUBSET todo] ==
            IF S = {} THEN e
            ELSE LET p == Least(S, After) IN Then(assigned[S \ {p}], LAMBDA x : Assign(x, p))
    IN assigned[todo]

\* The wants that hold p back and are not short-lived, and the nearest of them:
\* of what is in a directory the one of the shortest name, of the directories
\* above a path the last in path order, whose name is the longest.
\* Mutant: p is held in flight behind any want.
HoldersNone(e, p) == {}
Holders(e, p) == {q \in Path : Gates(e, p, q) /\ ~InFlight(e.wants[q])}
Nearest(e, p) ==
    Least(Holders(e, p),
          LAMBDA q, r : IF IsDelete(e.wants[p])
                        THEN Length[q] < Length[r] \/ (Length[q] = Length[r] /\ q < r)
                        ELSE q > r)

\* Mutant: a released commit does not hold its path.
HeldByGate(e, p) == \E q \in Path : Gates(e, p, q)
Held(e, p) == (\E q \in Path : Gates(e, p, q)) \/ e.released[p] # 0

\* The want at p ends with p's record written, which opens the batch window.
Written(e, p, live) ==
    [e EXCEPT !.wants[p] = NoWant, !.live = IF live THEN @ \cup {p} ELSE @ \ {p}, !.window = TRUE]

\* Ready to commit: the want waits for another, is blocked for a moment, goes
\* straight into the record, or to the host.
Commit(e, p) ==
    IF Holders(e, p) # {} THEN In(e, p, "waiting for", Nearest(e, p))
    ELSE IF Held(e, p) THEN In(e, p, "blocked", 0)
    ELSE IF e.wants[p].op = "adopt" THEN Written(e, p, TRUE)
    ELSE [In(e, p, "committing", 0) EXCEPT
             !.jobs = Append(@, [path |-> p, version |-> e.wants[p].version, op |-> e.wants[p].op])]

\* Creates parents first, then deletes children first.
CommitAll(e) ==
    LET ready == {p \in Path : Startable(e.wants[p]) /\ ~NeedsFetch(e.wants[p])}
        After(p, q) == IF IsDelete(e.wants[p]) THEN IsDelete(e.wants[q]) => p < q
                                               ELSE ~IsDelete(e.wants[q]) /\ q < p
        committed[S \in SUBSET ready] ==
            IF S = {} THEN e
            ELSE LET p == Least(S, After) IN Then(committed[S \ {p}], LAMBDA x : Commit(x, p))
    IN committed[ready]

\* While the disk is full nothing starts, and what could start is deferred.
PauseInbound(e) ==
    [e EXCEPT !.wants = [p \in Path |->
        IF Startable(@[p]) THEN [@[p] EXCEPT !.state = "disk full"] ELSE @[p]]]

Dispatched(e) ==
    IF e.diskFull THEN PauseInbound(e)
    ELSE Then(Then(Then(Then(KeepDirectories(e), ReleaseWaiting), Reselect), AssignAll), CommitAll)

\* The end of every event: what the host is at, and what it is asked for now.
Pump(e, fetching, committing) ==
    \E d \in {Then(e, Dispatched)} :
       /\ engine' = [d EXCEPT !.asks = {}, !.jobs = <<>>]
       /\ fetches' = fetching (+) SetToBag(d.asks)
       /\ commits' = committing \o d.jobs

-----------------------------------------------------------------------------
Spend(what) == spent' = [spent EXCEPT ![what] = @ + 1]
CanFail     == spent.faults < MaxFaults

Init ==
    /\ \E live \in Initial :
       engine = [wants |-> [p \in Path |-> NoWant], released |-> [p \in Path |-> 0],
                 live |-> live, tiers |-> [q \in Peer |-> "lan"], diskFull |-> FALSE,
                 window |-> FALSE, asks |-> {}, jobs |-> <<>>]
    /\ fetches = EmptyBag /\ commits = <<>>
    /\ latest = [p \in Path |-> 0]
    /\ refusals = {} /\ gone = {}
    /\ spent = [batches |-> 0, rules |-> 0, faults |-> 0]

\* What classification can make of an entry where the record is live or not.
Fits(p, op) == CASE op \in {"dir", "adopt"}   -> p \notin engine.live
                 [] op \in {"meta", "delete"} -> p \in engine.live
                 [] op = "file"               -> TRUE

\* A newer version replaces the want of an older one, unless the host is at its
\* commit: then it waits elsewhere.
Insert(w, new) ==
    IF Committing(w) THEN w ELSE [new EXCEPT !.restoring = Wanted(w) /\ w.restoring]

\* A batch is accepted.
Receive(b, sources) ==
    LET next == [p \in Path |-> latest[p] + (IF p \in DOMAIN b THEN 1 ELSE 0)]
        wants == [p \in Path |-> IF p \notin DOMAIN b THEN engine.wants[p]
                  ELSE Insert(engine.wants[p], Want(b[p], next[p], sources, FALSE))]
    IN /\ spent.batches < MaxBatches
       /\ \A p \in DOMAIN b : Fits(p, b[p]) /\ next[p] <= MaxVersion
       /\ latest' = next
       /\ Pump([engine EXCEPT !.wants = wants], fetches, commits)
       /\ Spend("batches")
       /\ UNCHANGED <<refusals, gone>>

\* The exclusion of some sources is lifted.
\* Mutant: a want that gave up stays given up.
LiftOnly(w, peers) == [w EXCEPT !.excluded = @ \ peers]
Lift(w, peers) ==
    LET left == w.excluded \ peers
    IN [w EXCEPT !.excluded = left,
                 !.state = IF @ = "gave up" /\ Cardinality(left) < 2 THEN "wanted" ELSE @]

\* q announces the content that is wanted at p.
Announced(p, q) ==
    LET w == engine.wants[p]
        known == [w EXCEPT !.sources = @ \cup {q}, !.refused = @ \ {q}]
    IN /\ Wanted(w) /\ w.op = "file"
       /\ q \notin w.sources \/ q \in w.refused \/ w.excluded # {}
       /\ Pump([engine EXCEPT !.wants[p] = Lift(known, Peer)], fetches, commits)
       /\ UNCHANGED <<latest, refusals, gone, spent>>

-----------------------------------------------------------------------------
(* Fetches.                                                                   *)

\* A report is taken by a want that is fetching that version, whatever source
\* it is fetching it from; any other is late.
Takes(f) ==
    LET w == engine.wants[f.path]
    IN w.state = "fetching" /\ w.version = f.version

FetchEnds(f, e) == Pump(e, fetches (-) SetToBag({f}), commits) /\ UNCHANGED latest

Late(f) ==
    /\ ~Takes(f)
    /\ \/ UNCHANGED refusals
       \/ refusals' = refusals \cup {f}
    /\ FetchEnds(f, engine)
    /\ UNCHANGED <<gone, spent>>

Fetched(f) ==
    /\ Takes(f)
    /\ FetchEnds(f, [In(engine, f.path, "wanted", 0) EXCEPT !.wants[f.path].fetched = TRUE])
    /\ UNCHANGED <<refusals, gone, spent>>

\* The source has no such content.  Once every other member said so of a
\* restored file, its record becomes a tombstone.
NotAvailable(f) ==
    LET p == f.path
        w == engine.wants[p]
        answered == w.answered \cup {w.on}
        unrecoverable == w.restoring /\ answered = Peer
    IN /\ Takes(f) /\ CanFail
       /\ refusals' = refusals \cup {f}
       /\ gone' = IF unrecoverable THEN gone \cup {[path |-> p, version |-> f.version]} ELSE gone
       /\ FetchEnds(f, IF unrecoverable
                       THEN Written(engine, p, FALSE)
                       ELSE [In(engine, p, "wanted", 0) EXCEPT
                                !.wants[p].refused = @ \cup {w.on}, !.wants[p].answered = answered])
       /\ Spend("faults")

\* The content has the wrong hash: two sources of it give the want up.
Mismatch(f) ==
    LET p == f.path
        excluded == engine.wants[p].excluded \cup {engine.wants[p].on}
    IN /\ Takes(f) /\ CanFail
       /\ FetchEnds(f, [In(engine, p, IF Cardinality(excluded) >= 2 THEN "gave up" ELSE "wanted", 0)
                           EXCEPT !.wants[p].excluded = excluded])
       /\ Spend("faults")
       /\ UNCHANGED <<refusals, gone>>

\* A fetch or commit failed on this machine: what was fetched may be lost.
Failed(e, p, error) ==
    LET lost == error \in {"local retry", "disk full"}
    IN [In(e, p, error, 0) EXCEPT !.wants[p].fetched = @ /\ ~lost,
                                  !.diskFull = @ \/ error = "disk full"]

\* What was collided with may have got another record since: the want is wanted
\* again at once.
Collided == {"collides", "wanted"}

FetchFails(f) ==
    /\ Takes(f) /\ CanFail
    /\ \E error \in {"local retry", "disk full"} \cup Collided :
           FetchEnds(f, Failed(engine, f.path, error))
    /\ Spend("faults")
    /\ UNCHANGED <<refusals, gone>>

FetchReported(f) == Late(f) \/ Fetched(f) \/ NotAvailable(f) \/ Mismatch(f) \/ FetchFails(f)

-----------------------------------------------------------------------------
(* Commits.                                                                   *)

CommitEnds(e) ==
    /\ Pump(e, fetches, Tail(commits))
    /\ UNCHANGED <<latest, refusals, gone>>

\* The report of a commit a rule released: the path is free.
ReleasedReported ==
    /\ commits # <<>> /\ engine.released[Head(commits).path] = Head(commits).version
    /\ CommitEnds([engine EXCEPT !.released[Head(commits).path] = 0])
    /\ UNCHANGED spent

\* The report of the want's own commit, not of one a rule released.
Awaited(c) ==
    /\ engine.released[c.path] # c.version
    /\ Wanted(engine.wants[c.path]) /\ engine.wants[c.path].version = c.version

Applied ==
    /\ commits # <<>> /\ Awaited(Head(commits))
    /\ LET c == Head(commits)
       IN CommitEnds(IF c.op = "trash" THEN [engine EXCEPT !.wants[c.path] = NoWant]
                     ELSE Written(engine, c.path, c.op # "delete"))
    /\ UNCHANGED spent

\* The guard found something else: the entry waits for an observation; so does a
\* move to the trash of a directory with files a rule ignores in it end.
ChangedUnderneath ==
    /\ commits # <<>> /\ Awaited(Head(commits)) /\ CanFail
    /\ CommitEnds([engine EXCEPT !.wants[Head(commits).path] = NoWant])
    /\ Spend("faults")

CommitFails ==
    /\ commits # <<>> /\ Awaited(Head(commits)) /\ CanFail
    /\ LET c == Head(commits)
           errors == {"local retry", "disk full"}
                     \cup (IF c.op \in {"file", "dir"} THEN Collided ELSE {})
                     \cup (IF c.op = "delete" /\ c.path \in Dirs THEN {"holds ignored"} ELSE {})
       IN \E error \in errors : CommitEnds(Failed(engine, c.path, error))
    /\ Spend("faults")

\* A rule takes the want at p off the list, and may make another of what was
\* received: a conflict copy or a local change came to p.
Rederive(p) ==
    LET w == engine.wants[p]
        taken == [engine EXCEPT !.wants[p] = NoWant,
                                !.released[p] = IF w.state = "committing" THEN w.version ELSE @]
        again == [Want(w.op, w.version, w.sources, FALSE) EXCEPT !.refused = w.refused]
    IN /\ spent.rules < MaxRules
       /\ w.state # "none" /\ ~w.restoring /\ (w.op = "trash" => w.state # "committing")
       /\ \/ Pump(taken, fetches, commits)
          \/ w.op # "trash" /\ Pump([taken EXCEPT !.wants[p] = again], fetches, commits)
       /\ Spend("rules")
       /\ UNCHANGED <<latest, refusals, gone>>

\* revert of a settled folder: what was added is moved to the trash, and what
\* was removed is asked of every member.
Revert(r) ==
    LET trash == {p \in DOMAIN r : r[p] = "trash"}
        next  == [p \in Path |-> latest[p] + (IF p \in DOMAIN r THEN 1 ELSE 0)]
        live  == (engine.live \ trash) \cup (DOMAIN r \ trash)
        kept  == {d \in trash : \E p \in live : d \in Above[p]}
    IN /\ spent.rules < MaxRules
       /\ \A p \in Path : ~Committing(engine.wants[p]) /\ engine.released[p] = 0
       /\ \A p \in DOMAIN r : (p \in engine.live <=> p \in trash) /\ next[p] <= MaxVersion
       /\ latest' = next
       /\ Pump([engine EXCEPT
                  !.live = live \cup kept, !.window = kept # {},
                  !.wants = [p \in Path |->
                      IF p \notin DOMAIN r THEN @[p]
                      ELSE IF p \in kept THEN NoWant
                      ELSE IF p \in trash THEN Want("trash", next[p], {}, FALSE)
                      ELSE Want(r[p], next[p], Peer, TRUE)]], fetches, commits)
       /\ Spend("rules")
       /\ UNCHANGED <<refusals, gone>>

-----------------------------------------------------------------------------
(* Deadlines, peers, the disk, restarts.                                      *)

Turn(e) == Pump(e, fetches, commits) /\ UNCHANGED <<latest, refusals, gone>>

\* The window is due: the engine's wake-up.
Tick ==
    /\ engine.window
    /\ Turn([engine EXCEPT !.window = FALSE])
    /\ UNCHANGED spent

Stall(p) ==
    /\ engine.wants[p].state = "fetching" /\ CanFail
    /\ Turn(In(engine, p, "wanted", 0))
    /\ Spend("faults")

RetryEnds(p) ==
    /\ engine.wants[p].state = "local retry"
    /\ Turn(In(engine, p, "wanted", 0))
    /\ UNCHANGED spent

ExclusionEnds(p, q) ==
    /\ Wanted(engine.wants[p]) /\ q \in engine.wants[p].excluded
    /\ Turn([engine EXCEPT !.wants[p] = Lift(@, {q})])
    /\ UNCHANGED spent

RefusalEnds(p, q) ==
    /\ Wanted(engine.wants[p]) /\ q \in engine.wants[p].refused
    /\ Turn([engine EXCEPT !.wants[p].refused = @ \ {q}])
    /\ UNCHANGED spent

Connected(q) ==
    LET back == [engine EXCEPT !.tiers[q] = "lan"]
        Back(w) == IF Wanted(w) /\ q \in w.excluded THEN Lift(w, {q}) ELSE w
    IN /\ engine.tiers[q] # "lan"
       /\ Turn(IF engine.tiers[q] = "relay" THEN back
               ELSE [back EXCEPT !.wants = [p \in Path |-> Back(@[p])]])
       /\ UNCHANGED spent

\* A peer is now reached by a relay, or not at all: then its fetches are over.
Relayed(q) ==
    /\ engine.tiers[q] = "lan" /\ CanFail
    /\ Turn([engine EXCEPT !.tiers[q] = "relay"])
    /\ Spend("faults")
PeerGone(q) ==
    LET over == Fetching(engine, {q})
        Freed(w) == [w EXCEPT !.state = "wanted", !.on = 0]
    IN /\ engine.tiers[q] # "away" /\ CanFail
       /\ Turn([engine EXCEPT !.tiers[q] = "away",
                  !.wants = [p \in Path |-> IF p \in over THEN Freed(@[p]) ELSE @[p]]])
       /\ Spend("faults")

SpaceRecovered ==
    /\ engine.diskFull
    /\ Turn([engine EXCEPT !.diskFull = FALSE,
               !.wants = [p \in Path |-> IF @[p].state = "disk full"
                                         THEN [@[p] EXCEPT !.state = "wanted"] ELSE @[p]]])
    /\ UNCHANGED spent

\* The record a want collides with is written; the directory that held ignored
\* files is observed again.
Reevaluated(p) ==
    /\ engine.wants[p].state \in {"collides", "holds ignored"}
    /\ Turn(In(engine, p, "wanted", 0))
    /\ UNCHANGED spent

\* A want that comes back: what the host was at for it died with the process.
Restarted(w) ==
    [w EXCEPT !.fetched = FALSE,
              !.state = IF @ \in {"fetching", "committing", "blocked"} THEN "wanted" ELSE @,
              !.on = IF w.state = "fetching" THEN 0 ELSE @]
Restart ==
    /\ CanFail
    /\ Pump([engine EXCEPT
               !.wants = [p \in Path |-> IF Wanted(@[p]) THEN Restarted(@[p]) ELSE @[p]],
               !.released = [p \in Path |-> 0],
               !.tiers = [q \in Peer |-> "away"]], EmptyBag, <<>>)
    /\ Spend("faults")
    /\ UNCHANGED <<latest, refusals, gone>>

Next ==
    \/ \E b \in Batches, sources \in Sources : Receive(b, sources)
    \/ \E r \in Reverts : Revert(r)
    \/ \E f \in BagToSet(fetches) : FetchReported(f)
    \/ ReleasedReported \/ Applied \/ ChangedUnderneath \/ CommitFails
    \/ \E p \in Path : \/ Rederive(p) \/ Stall(p) \/ RetryEnds(p) \/ Reevaluated(p)
    \/ \E p \in Path, q \in Peer : Announced(p, q) \/ ExclusionEnds(p, q) \/ RefusalEnds(p, q)
    \/ \E q \in Peer : Connected(q) \/ Relayed(q) \/ PeerGone(q)
    \/ SpaceRecovered \/ Tick \/ Restart

Spec == Init /\ [][Next]_vars

\* What happens by itself: the host answers what it was asked, deadlines pass,
\* peers come back, and the user sees to full disks and names that collide.
Due ==
    \/ \E f \in BagToSet(fetches) : FetchReported(f)
    \/ ReleasedReported \/ Applied
    \/ \E p \in Path : RetryEnds(p) \/ Reevaluated(p)
    \/ \E p \in Path, q \in Peer : ExclusionEnds(p, q) \/ RefusalEnds(p, q)
    \/ \E q \in Peer : Connected(q)
    \/ SpaceRecovered \/ Tick

FairSpec == Spec /\ WF_vars(Due)

-----------------------------------------------------------------------------
Wants ==
    [op : Ops, version : 1..MaxVersion, sources : SUBSET Peer, restoring : BOOLEAN,
     fetched : BOOLEAN, refused : SUBSET Peer, excluded : SUBSET Peer, answered : SUBSET Peer,
     state : {"wanted", "blocked", "deferred", "no source", "fetching", "committing", "gave up",
              "local retry", "disk full", "collides", "waiting for", "holds ignored"},
     on : {0} \cup Peer \cup Path]

\* The type of the state: a fetch names its source and a wait the path it is
\* for, and a want has given up just while two sources are excluded from it.
TypeOK ==
    /\ engine.wants \in [Path -> Wants \cup {NoWant}]
    /\ \A p \in Path : LET w == engine.wants[p] IN Wanted(w) =>
          /\ w.on \in CASE w.state = "fetching"    -> Peer
                       [] w.state = "waiting for" -> Path \ {p}
                       [] OTHER                   -> {0}
          /\ w.state = "gave up" <=> Cardinality(w.excluded) >= 2
    /\ engine.released \in [Path -> 0..MaxVersion] /\ engine.live \subseteq Path
    /\ engine.tiers \in [Peer -> {"lan", "relay", "away"}]
    /\ {engine.diskFull, engine.window} \subseteq BOOLEAN
    /\ engine.asks = {} /\ engine.jobs = <<>>
    /\ BagToSet(fetches) \subseteq [path : Path, version : 1..MaxVersion, from : Peer]
    /\ IsABag(fetches)
    /\ commits \in Seq([path : Path, version : 1..MaxVersion, op : Ops])

\* No want is held in flight, where local changes are not seen, behind one that
\* may back off for an hour.
NeverHeldBehind ==
    \A p, q \in Path :
        engine.wants[p].state = "blocked" /\ Gates(engine, p, q) => InFlight(engine.wants[q])

\* Nothing is made in a directory while it is on its way to the trash.
NothingLandsInTrash ==
    \A i, j \in 1..Len(commits) :
        commits[i].op = "trash" /\ ~IsDelete(commits[j])
            => commits[i].path \notin Above[commits[j].path]

\* The host is at the commits the list knows of, those of the wants that are
\* committing and those a rule released, and never at two of one path.
OneCommitPerPath ==
    /\ \A i, j \in 1..Len(commits) : commits[i].path = commits[j].path => i = j
    /\ \A p \in Path, v \in 1..MaxVersion :
          (\E i \in 1..Len(commits) : commits[i].path = p /\ commits[i].version = v)
          <=> \/ engine.wants[p].state = "committing" /\ engine.wants[p].version = v
              \/ engine.released[p] = v

\* Every want ends, whatever failed, gave up or waited for another.
WantsEnd == <>[](\A p \in Path : ~Wanted(engine.wants[p]))

\* A restored file is given up for good only when every other member has
\* answered that it does not have it.
GoneOnlyIfNobodyHas ==
    \A g \in gone, q \in Peer :
        [path |-> g.path, version |-> g.version, from |-> q] \in refusals
=============================================================================
