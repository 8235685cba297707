----------------------------- MODULE Durability -----------------------------
(* The way of an event's group from the engine task to the disk, and of its   *)
(* effects to the executor (crates/delocal/src/daemon/core.rs, store/         *)
(* writer.rs, daemon/executor.rs): the engine task submits a group to the     *)
(* group-commit writer and queues its effects; the releaser hands them to     *)
(* the executor when the group is durable; a commit's journal row is a group  *)
(* of the executor's own.                                                     *)
(*                                                                            *)
(* Groups are numbered in the order they enter the writer's channel.  Every   *)
(* channel below is filled in that order, so it is a set of numbers of which  *)
(* the least comes out first.  A group has at most one effect, a message or a *)
(* commit; the executor's copies of the records are left out, and so are the  *)
(* jobs that wait for no group.                                               *)
EXTENDS Naturals, FiniteSets

CONSTANTS
    Queue,      \* releases that may wait before the engine task does (QUEUE)
    Inputs,     \* reports that may wait for the engine task (INPUTS)
    Kinds,      \* what an event can bring: its writes and its effect
    MaxGroups,  \* bound: groups submitted in a behaviour
    MaxFaults   \* bound: failed transactions and crashes in a behaviour

ASSUME BoundsAssumption ==
    /\ Queue \in Nat \ {0}
    /\ Inputs \in Nat \ {0}
    /\ Kinds \subseteq [writes : BOOLEAN, effect : {"none", "message", "commit"}]
    /\ MaxGroups \in Nat
    /\ MaxFaults \in Nat

VARIABLES
    last,       \* the number of the last group submitted
    log,        \* the groups that have writes
    effects,    \* the groups that have an effect ...
    commits,    \* ... and those whose effect is a commit
    store,      \* the groups in the store
    queue,      \* the writer's channel
    batch,      \* the groups of the writer's transaction not resolved yet
    outcome,    \* what the transaction came to, once it has
    failed,     \* a transaction failed: the writer refuses what follows
    good,       \* groups resolved as durable ...
    bad,        \* ... and those refused
    core,       \* the engine task
    sending,    \* the group whose release it is queueing
    releases,   \* the releases queued
    releaser,   \* the releaser task
    awaiting,   \* the group it waits for
    jobs,       \* effects handed to the executor
    executor,   \* what the executor is at
    task,       \* the group of the effect it is at, 0 for none
    row,        \* the group of its journal row, 0 for none
    inputs,     \* how many reports wait for the engine task
    performed,  \* history: the groups whose effect was performed
    faults      \* history: how many faults there were

writer == <<store, queue, batch, outcome, failed, good, bad>>
engine == <<core, sending, inputs>>
release == <<releases, releaser, awaiting, jobs>>
host   == <<executor, task, row, performed>>
groups == <<last, log, effects, commits>>
vars   == <<groups, writer, engine, release, host, faults>>

Groups == 1..MaxGroups

TypeOK ==
    /\ last \in 0..MaxGroups
    /\ log \subseteq 1..last
    /\ effects \subseteq 1..last
    /\ commits \subseteq effects
    /\ store \subseteq log
    /\ queue \subseteq 1..last
    /\ batch \subseteq 1..last
    /\ outcome \in {"none", "ok", "error"}
    /\ failed \in BOOLEAN
    /\ good \subseteq 1..last
    /\ bad \subseteq 1..last
    /\ core \in {"running", "ended", "down"}
    /\ sending \subseteq 1..last
    /\ releases \subseteq 1..last
    /\ releaser \in {"running", "ended"}
    /\ awaiting \subseteq 1..last
    /\ jobs \subseteq effects
    /\ executor \in {"idle", "taken", "waiting", "moved", "refused", "ended"}
    /\ task \in 0..last
    /\ row \in 0..last
    /\ inputs \in 0..Inputs
    /\ performed \subseteq 1..last
    /\ faults \in 0..MaxFaults

Init ==
    /\ last = 0
    /\ log = {} /\ effects = {} /\ commits = {} /\ store = {}
    /\ queue = {} /\ batch = {} /\ outcome = "none" /\ failed = FALSE
    /\ good = {} /\ bad = {}
    /\ core = "running" /\ sending = {} /\ inputs = 0
    /\ releases = {} /\ releaser = "running" /\ awaiting = {} /\ jobs = {}
    /\ executor = "idle" /\ task = 0 /\ row = 0
    /\ performed = {} /\ faults = 0

IsFirst(t, S) == t \in S /\ \A s \in S : t <= s

-----------------------------------------------------------------------------
(* The engine task                                                            *)

\* A group enters the writer's channel.
Submit(writes) ==
    /\ last < MaxGroups
    /\ last'  = last + 1
    /\ log'   = log \cup (IF writes THEN {last + 1} ELSE {})
    /\ queue' = queue \cup {last + 1}
    /\ UNCHANGED <<store, batch, outcome, failed, good, bad>>

\* emit: an event's writes are submitted and its effects, if any, go to wait
\* for them.  An event that brings neither submits nothing.
Emit(kind) ==
    /\ kind.writes \/ kind.effect # "none"
    /\ Submit(kind.writes)
    /\ effects' = effects \cup (IF kind.effect # "none" THEN {last + 1} ELSE {})
    /\ commits' = commits \cup (IF kind.effect = "commit" THEN {last + 1} ELSE {})
    /\ sending' = {last + 1}

\* The engine task is not waiting in a send to the releaser.
Ready == core = "running" /\ sending = {}

\* A report from a scan, the watcher or a connection.
Arrive ==
    /\ core = "running"
    /\ inputs < Inputs
    /\ inputs' = inputs + 1
    /\ UNCHANGED <<groups, writer, core, sending, release, host, faults>>

\* A report is handed to the engine.
Handle ==
    /\ Ready
    /\ inputs > 0
    /\ inputs' = inputs - 1
    /\ \/ \E kind \in Kinds : Emit(kind)
       \/ UNCHANGED <<groups, writer, sending>>
    /\ UNCHANGED <<core, release, host, faults>>

\* A timer is due and ticks the engine.
Due ==
    /\ Ready
    /\ \E kind \in Kinds : Emit(kind)
    /\ UNCHANGED <<core, inputs, release, host, faults>>

\* Mutant: the releases' queue has no limit.
SendsAnyway ==
    /\ core = "running"
    /\ releaser = "running"
    /\ sending # {}
    /\ releases' = releases \cup sending
    /\ sending'  = {}
    /\ UNCHANGED <<groups, writer, core, inputs, releaser, awaiting, jobs, host, faults>>

\* The release is queued once there is room.
Send ==
    /\ core = "running"
    /\ releaser = "running"
    /\ sending # {}
    /\ Cardinality(releases) < Queue
    /\ releases' = releases \cup sending
    /\ sending'  = {}
    /\ UNCHANGED <<groups, writer, core, inputs, releaser, awaiting, jobs, host, faults>>

\* The engine task ends: it is told to stop, or the releaser has stopped,
\* which also ends a send that waits for room.
CoreEnds ==
    /\ Ready \/ (core = "running" /\ releaser = "ended")
    /\ core'    = "ended"
    /\ sending' = {}
    /\ inputs'  = 0
    /\ UNCHANGED <<groups, writer, release, host, faults>>

-----------------------------------------------------------------------------
(* The writer                                                                 *)

\* Everything that is waiting goes into one transaction.
TakeBatch ==
    /\ core # "down"
    /\ batch = {}
    /\ queue # {}
    /\ batch' = queue
    /\ queue' = {}
    /\ UNCHANGED <<groups, store, outcome, failed, good, bad, engine, release, host, faults>>

\* The transaction is committed; one without writes needs none.
Commit ==
    /\ ~failed
    /\ batch # {} /\ outcome = "none"
    /\ store'   = store \cup (batch \cap log)
    /\ outcome' = "ok"
    /\ UNCHANGED <<groups, queue, batch, failed, good, bad, engine, release, host, faults>>

\* The transaction fails, and with it every later one.
CommitFails ==
    /\ ~failed
    /\ outcome = "none"
    /\ batch \cap log # {}
    /\ faults < MaxFaults
    /\ failed'  = TRUE
    /\ outcome' = "error"
    /\ faults'  = faults + 1
    /\ UNCHANGED <<groups, store, queue, batch, good, bad, engine, release, host>>

Refuse ==
    /\ failed
    /\ batch # {} /\ outcome = "none"
    /\ outcome' = "error"
    /\ UNCHANGED <<groups, store, queue, batch, failed, good, bad, engine, release, host, faults>>

\* The groups of the transaction are resolved one after another.
Resolve(t) ==
    /\ outcome # "none"
    /\ IsFirst(t, batch)
    /\ batch'   = batch \ {t}
    /\ good'    = IF outcome = "ok" THEN good \cup {t} ELSE good
    /\ bad'     = IF outcome = "error" THEN bad \cup {t} ELSE bad
    /\ outcome' = IF batch = {t} THEN "none" ELSE outcome
    /\ UNCHANGED <<groups, store, queue, failed, engine, release, host, faults>>

-----------------------------------------------------------------------------
(* The releaser                                                               *)

TakeRelease(t) ==
    /\ releaser = "running"
    /\ awaiting = {}
    /\ IsFirst(t, releases)
    /\ awaiting' = {t}
    /\ releases' = releases \ {t}
    /\ UNCHANGED <<groups, writer, engine, releaser, jobs, host, faults>>

\* Mutant: effects are handed over before their group is durable.
HandsOverEarly ==
    /\ releaser = "running"
    /\ awaiting # {}
    /\ awaiting \cap bad = {}
    /\ executor # "ended"
    /\ jobs'     = jobs \cup (awaiting \cap effects)
    /\ awaiting' = {}
    /\ UNCHANGED <<groups, writer, engine, releases, releaser, host, faults>>

\* Mutant: an effect that comes while the executor is busy is dropped.
HandsOverIfIdle ==
    /\ releaser = "running"
    /\ awaiting # {}
    /\ awaiting \subseteq good
    /\ executor # "ended"
    /\ jobs'     = jobs \cup (IF executor = "idle" THEN awaiting \cap effects ELSE {})
    /\ awaiting' = {}
    /\ UNCHANGED <<groups, writer, engine, releases, releaser, host, faults>>

\* The group is durable: its effects are the executor's now.
HandOver ==
    /\ releaser = "running"
    /\ awaiting # {}
    /\ awaiting \subseteq good
    /\ executor # "ended"
    /\ jobs'     = jobs \cup (awaiting \cap effects)
    /\ awaiting' = {}
    /\ UNCHANGED <<groups, writer, engine, releases, releaser, host, faults>>

\* Mutant: the releaser passes over a group that will never be durable.
SkipsRefused ==
    /\ releaser = "running"
    /\ awaiting \cap bad # {} \/ core = "ended"
    /\ releaser' = IF core = "ended" THEN "ended" ELSE releaser
    /\ releases' = IF core = "ended" THEN {} ELSE releases
    /\ awaiting' = {}
    /\ UNCHANGED <<groups, writer, engine, jobs, host, faults>>

\* The releaser stops at a group that will never be durable, when the executor
\* is gone, and when the runtime is shut down after the engine task.
ReleaserEnds ==
    /\ releaser = "running"
    /\ awaiting \cap bad # {} \/ core = "ended"
    /\ releaser' = "ended"
    /\ releases' = {}
    /\ awaiting' = {}
    /\ UNCHANGED <<groups, writer, engine, jobs, host, faults>>

-----------------------------------------------------------------------------
(* The executor                                                               *)

Begin(t) ==
    /\ executor = "idle"
    /\ IsFirst(t, jobs)
    /\ jobs'     = jobs \ {t}
    /\ task'     = t
    /\ executor' = "taken"
    /\ UNCHANGED <<groups, writer, engine, releases, releaser, awaiting, row, performed, faults>>

\* A message is sent, or a commit that displaces nothing is made.  One that
\* the disk refuses counts as performed too: it was tried.
Perform ==
    /\ executor = "taken"
    /\ performed' = performed \cup {task}
    /\ IF task \in commits
       THEN executor' = "moved" /\ UNCHANGED task
       ELSE executor' = "idle" /\ task' = 0
    /\ UNCHANGED <<groups, writer, engine, release, row, faults>>

\* Before anything is displaced its row is submitted.  (Another is when the
\* place in the trash was taken, which starts over.)
Journal ==
    /\ executor = "taken"
    /\ task \in commits
    /\ Submit(TRUE)
    /\ row'      = last + 1
    /\ executor' = "waiting"
    /\ UNCHANGED <<effects, commits, engine, release, task, performed, faults>>

\* Mutant: the row is submitted but not waited for.
MovesUnjournaled ==
    /\ executor = "waiting"
    /\ performed' = performed \cup {task}
    /\ executor'  = "moved"
    /\ UNCHANGED <<groups, writer, engine, release, task, row, faults>>

\* The row is durable: the files are moved.
Move ==
    /\ executor = "waiting"
    /\ row \in good
    /\ performed' = performed \cup {task}
    /\ executor'  = "moved"
    /\ UNCHANGED <<groups, writer, engine, release, task, row, faults>>

\* The row is refused: the commit stops before anything is moved.
Give ==
    /\ executor = "waiting"
    /\ row \in bad
    /\ executor' = "refused"
    /\ UNCHANGED <<groups, writer, engine, release, task, row, performed, faults>>

\* Mutant: a report does not wait for room.
ReportedAnyway ==
    /\ executor \in {"moved", "refused"}
    /\ core = "running"
    /\ inputs'   = inputs + 1
    /\ executor' = "idle"
    /\ task'     = 0
    /\ row'      = 0
    /\ UNCHANGED <<groups, writer, core, sending, release, performed, faults>>

\* The commit's report waits for room among the engine task's inputs.
Reported ==
    /\ executor \in {"moved", "refused"}
    /\ core = "running"
    /\ inputs < Inputs
    /\ inputs'   = inputs + 1
    /\ executor' = "idle"
    /\ task'     = 0
    /\ row'      = 0
    /\ UNCHANGED <<groups, writer, core, sending, release, performed, faults>>

\* After the engine task, the executor drops what it has not begun.
ExecutorEnds ==
    /\ core = "ended"
    /\ executor \in {"idle", "moved", "refused"}
    /\ executor' = "ended"
    /\ jobs'     = {}
    /\ task'     = 0
    /\ row'      = 0
    /\ UNCHANGED <<groups, writer, engine, releases, releaser, awaiting, performed, faults>>

-----------------------------------------------------------------------------
(* The process                                                                *)

\* What is not in the store is gone.
Lose ==
    /\ core' = "down"
    /\ log' = store /\ effects' = {} /\ commits' = {}
    /\ queue' = {} /\ batch' = {} /\ outcome' = "none" /\ failed' = FALSE
    /\ good' = {} /\ bad' = {}
    /\ sending' = {} /\ inputs' = 0
    /\ releases' = {} /\ releaser' = "running" /\ awaiting' = {} /\ jobs' = {}
    /\ executor' = "idle" /\ task' = 0 /\ row' = 0
    /\ UNCHANGED <<last, store, performed>>

\* Dropping the writer commits what is queued; then the process ends.
Exit ==
    /\ core = "ended" /\ releaser = "ended" /\ executor = "ended"
    /\ queue = {} /\ batch = {}
    /\ Lose
    /\ UNCHANGED faults

Crash ==
    /\ core # "down"
    /\ faults < MaxFaults
    /\ faults' = faults + 1
    /\ Lose

Start ==
    /\ core = "down"
    /\ core' = "running"
    /\ UNCHANGED <<groups, writer, sending, inputs, release, host, faults>>

Next ==
    \/ Arrive \/ Handle \/ Due \/ Send \/ CoreEnds
    \/ TakeBatch \/ Commit \/ CommitFails \/ Refuse
    \/ \E t \in batch : Resolve(t)
    \/ \E t \in releases : TakeRelease(t)
    \/ HandOver \/ ReleaserEnds
    \/ \E t \in jobs : Begin(t)
    \/ Perform \/ Journal \/ Move \/ Give \/ Reported \/ ExecutorEnds
    \/ Exit \/ Crash \/ Start

Spec == Init /\ [][Next]_vars

-----------------------------------------------------------------------------
(* Properties                                                                 *)

\* The effect the executor has taken and not performed.
Underway == IF executor \in {"taken", "waiting"} THEN {task} ELSE {}

\* The groups whose effect may still be performed.
Outstanding == sending \cup releases \cup awaiting \cup jobs \cup Underway

\* What was submitted up to the group t.
UpTo(t) == {s \in log : s <= t}

\* The pipeline implements the ledger: the store holds a prefix of what was
\* submitted whatever fails, and no effect is performed, in any order, before
\* everything up to its group is in the store.
L == INSTANCE Ledger WITH
        Group <- Groups, durable <- store, intents <- Outstanding \cap effects

Implements == L!Spec

\* Files are moved only when the journal row that would put them back is
\* durable, and with it everything submitted before it.
JournalFirst ==
    executor = "moved" /\ row # 0 => row \in store /\ UpTo(row) \subseteq store

\* The engine is never further ahead of the store than the test of the
\* backpressure says: one group in a stuck commit, Queue behind it, and the one
\* that could not be queued.  The row of a running commit comes on top.
BoundedBacklog == Cardinality((queue \cup batch) \ {row}) <= Queue + 2

\* The writer loses nothing: until a transaction fails, what is not in the
\* store is in its hands, and it takes what came first first.
WriterHasRest ==
    /\ ~failed => log \ store \subseteq queue \cup batch
    /\ outcome = "error" => failed
    /\ batch = {} => outcome = "none"
    /\ \A b \in batch, q \in queue : b < q

\* The store holds a prefix of what was submitted.
StorePrefix == \A t \in store : UpTo(t) \subseteq store

\* What was said to be durable is, and all that was submitted before it.
GoodIsDurable ==
    /\ \A t \in good : UpTo(t) \subseteq store
    /\ outcome = "ok" => \A t \in batch : UpTo(t) \subseteq store

\* So is what an effect that has been handed over may depend on.
ReleasedIsDurable == \A t \in jobs \cup Underway : UpTo(t) \subseteq store

\* The stages of the way of an effect hold later groups the further back.
InOrder ==
    /\ \A t \in performed, s \in Outstanding : t < s
    /\ \A t \in Underway, s \in jobs \cup awaiting \cup releases \cup sending : t < s
    /\ \A t \in jobs, s \in awaiting \cup releases \cup sending : t < s
    /\ \A t \in awaiting, s \in releases \cup sending : t < s
    /\ \A t \in releases, s \in sending : t < s

\* The executor is at an effect, and its row is its own.
AtWork ==
    /\ Underway \subseteq effects
    /\ executor \in {"idle", "taken", "ended"} => row = 0
    /\ executor \in {"waiting", "moved"} /\ row # 0 => row \in log

\* The inductive invariant.
IInv ==
    /\ TypeOK
    /\ WriterHasRest
    /\ StorePrefix
    /\ GoodIsDurable
    /\ ReleasedIsDurable
    /\ InOrder
    /\ AtWork
    /\ JournalFirst

-----------------------------------------------------------------------------
(* Liveness                                                                   *)

\* Every thread and task runs, and a transaction returns in the end.  Senders
\* that wait for room get it in the order they came, so a commit's report is
\* not kept out for ever by other reports.
Fairness ==
    /\ WF_vars(Handle) /\ WF_vars(Send)
    /\ WF_vars(core = "running" /\ releaser = "ended" /\ CoreEnds)
    /\ WF_vars(TakeBatch)
    /\ WF_vars(Commit \/ CommitFails \/ Refuse)
    /\ WF_vars(\E t \in batch : Resolve(t))
    /\ WF_vars(\E t \in releases : TakeRelease(t))
    /\ WF_vars(HandOver) /\ WF_vars(ReleaserEnds)
    /\ WF_vars(\E t \in jobs : Begin(t))
    /\ WF_vars(Perform \/ Journal)
    /\ WF_vars(Move) /\ WF_vars(Give) /\ SF_vars(Reported) /\ WF_vars(ExecutorEnds)
    /\ WF_vars(Exit)

FairSpec == Spec /\ Fairness

\* An effect that was asked for is performed, although the engine task may be
\* waiting for room in the releases, the executor for the writer or for room
\* in the inputs, and nobody waits for anybody in a circle: only the end of
\* the engine task, or a store that fails, takes it away.
EffectsHappen ==
    \A t \in Groups :
        t \in Outstanding \cap effects ~> t \in performed \/ failed \/ core # "running"

\* The daemon does not go on with an engine that is ahead of its store: a
\* refused group ends the engine task.
RefusalStops == (Outstanding \cap bad # {}) ~> (core # "running")

=============================================================================
