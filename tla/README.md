# A specification of delocal

delocal keeps a folder identical on all of a user's machines. There is no server and no
lock: every machine edits when it likes, announces what changed, and takes what the others
announce. What makes that hard is written down here in TLA+, checked by TLC on small
instances, and for the central parts proved with TLAPS for every size.

All paths below are relative to `src/crates/` unless they begin with `src/`. `engine/` is
short for `engine/src/`, `delocal/` for `delocal/src/`.

Contents: [1 the system](#1-the-system) · [2 the modules](#2-the-modules) ·
[3 the runs](#3-the-runs) · [4 fairness](#4-fairness) · [5 the proofs](#5-the-proofs) ·
[6 where the code disagrees](#6-where-the-code-disagrees-with-what-it-says) ·
[7 what is left out](#7-what-is-left-out) · [8 plan](#8-plan) · [9 running it](#9-running-it)

## 1 The system

The program is two crates. `engine` is a deterministic state machine without I/O, threads
or clocks: one event in, writes and actions out. `delocal` is the host that feeds it:
scanner, watcher, network, SQLite store, the executor of file operations. `sim` runs
several engines against a simulated world.

### Engine

| Component | State | Operations | Talks to |
|---|---|---|---|
| Version vectors (`version.rs`) | a counter per member | compare, merge, increment with saturation | entries |
| Entries and winner rule (`entry.rs`, `conflict.rs`, `batch.rs`) | version, stamp, hash, previous hash, exec, mtime, author, tombstone flag | `classify` against the local record, `winner`, `merged`, conflict copies | index, want-list |
| Index (`index.rs`) | a record per path with its sequence number, pending changes with the record peers last saw, `announced_seq`, a watermark and ranges per peer | `observe`, `observe_absent`, `adopt`, `bump_over`, `mark_announced`, `revert_pending`, `announced_since`, `received_range` | folder, store |
| Quarantine and brake (`quarantine.rs`, `brake.rs`) | held items, each with the latest entry and every version that joined it; denied items | hold, join, release, deny, forget, return | folder |
| Want-list (`want.rs`) | what to fetch and commit, from whom, who refused, who is excluded, what it waits for | insert, take, assign, fetched, failed, stalled, gates, release, restarted | folder, executor |
| Folder (`folder.rs`) | window, pause, deferred and frozen entries, scan bracket, marks, queued decisions | receive, admit, dispatch, observation, report, approve, deny, revert, tick, restart | all of the above |
| Engine (`engine.rs`) | folders, connections, timers | tick, batches, acknowledgements, decisions | host |
| Persisted parts (`parts.rs`) | what survives a restart | split and rebuild | store |

### Host

| Component | State | Operations | Talks to |
|---|---|---|---|
| Store and writer (`store/writer.rs`, `write.rs`, `load.rs`) | the database, a channel of groups, the sticky failure | submit, one transaction over what is queued, resolve in order, drain on drop | engine task, executor |
| Engine task (`daemon/core.rs`) | the engine, inputs, timers | event to group, queue the release, end | writer, releaser |
| Releaser (`daemon/core.rs`) | a queue of releases | wait for the group, hand its actions over | executor, network |
| Executor (`daemon/executor.rs`) | jobs | messages, fetches, commits, scans, reports | engine task |
| Commit and journal (`commit.rs`, `commit/journal.rs`, `commit/start.rs`) | a journal row per running commit | guard, displace, place, put back, undo at start | store, trash |
| Scanner, stability, watcher (`scan*`, `daemon/watch.rs`) | marks of files seen changing | full and partial scans, settling, overflow | engine task |
| Mesh, connections, reachability (`net/*`, `reach.rs`, `tailscale*`) | who is dialled, which of two connections stays | dial, accept, replace, close | engine task |
| Trash, names, filesystem, node, lock, limits, logs | - | plain services | - |

### How a change travels

1. The scanner reports a file; the index writes a record (new counter, new sequence number),
   keeps the record peers last saw, and opens the batch window.
2. The window closes. The sender's pre-check either announces everything written, or pauses
   the folder until the user approves or reverts.
3. Each peer receives batches that cover a range of sequence numbers, classifies every entry
   against its record, holds it (brake), wants it, or has it wait behind a commit, and
   answers with its contiguous watermark. What it acknowledged is not sent again.
4. A want is fetched from the best source with a slot free, waits for the wants that gate it
   (a directory before what is in it), and is committed on disk by the executor, which moves
   what was there aside, moves the new file in, and reports. The report makes the index adopt
   it and everything that waited is classified again.
5. Every event's writes are one group of the writer. Its actions wait for that group. A
   commit that displaces a file first makes a journal row durable.

### What is hard

- *Concurrent edits*: every pair of machines resolves every pair of versions on its own, in
  any order, and must arrive at one record without another exchange.
- *Taking back*: a paused change can be reverted and its counter is used again. A deny
  writes a bump, which a later revert may discard. Nobody may have seen what is discarded
  and nothing a deny consumed may vanish with it.
- *Stale resolution*: a want is resolved against a record and committed later, by another
  thread; in between the user, a deny, a revert or a second want may replace the record.
- *Delivery*: batches are lost, duplicated, reordered, cut anywhere, and sent while records
  in their range are rewritten; acknowledgements overtake each other; connections break.
- *Crash*: the process dies during a commit, between a submission and its transaction, or
  between the journal row and the rename; a power loss takes renames back that nobody synced.
- *The user*: he changes a file between any two system calls of a commit, and while a scan
  reads it.
- *Three observers of one path*: a scan, a look for the watcher and a commit's report reach the
  engine in an order that is not the order in which they saw the path.
- *Waiting*: a want waits for another want, a source, a slot, a deadline, disk space; a want
  that holds its path in flight hides the user's changes for as long.
- *Backpressure*: three bounded queues and a blocking wait in a cycle of four threads.

### What makes each component correct

| Component | Property |
|---|---|
| Winner rule | independent of the side and the order of merges; never decided by comparing hashes |
| Index | a version names one content everywhere; nothing announced is taken back; nothing pending leaks |
| Quarantine, folder | what was acknowledged is in the record or still waits at the machine |
| Want-list | what is adopted dominates the record it replaces |
| Engine | watermarks never pass a record the peer lacks; every announced record arrives in the end |
| All machines | once users stop, one record everywhere |
| Writer, releaser, executor | the store is a prefix of what was submitted, no action runs before its group is durable, no file moves before its journal row; no deadlock; a refused group stops the daemon |
| Commit, journal | whatever fails or crashes, no file is lost, nothing the host did reads as a deletion, nothing replaced comes back, every row is closed |
| Scan, watcher | the record is what was once seen, never goes back to an older content, takes no commit of our own for a change, no half-written file, and catches up in the end |
| Want-list over a tree | one commit per path, nothing is made in a directory on its way to the trash, no path held in flight behind a want that backs off, every want ends, nothing given up that somebody has |
| Mesh (planned) | two machines that dial each other keep the same connection |

`PROJECT.json` lists the places in the code where these are at risk, each with the properties
that would show it.

## 2 The modules

| Module | Models | Extends |
|---|---|---|
| `Versions` | version vectors | - |
| `Entries` | entries at one path, the winner rule, classification | `Versions` |
| `EntriesProofs` | proofs about the rule | `Entries` |
| `Replica` | one path of one folder on every member | `Entries` |
| `MCReplica`, `ReplicaProofs` | instances, proofs | `Replica` |
| `Announce` | one sender, several paths, the peers it announces to | - |
| `MCAnnounce`, `AnnounceProofs` | instances, proofs | `Announce` |
| `Ledger` | what the store and the release of actions promise | - |
| `Durability` | engine task, writer, releaser, executor, crash; instances `Ledger` | - |
| `MCDurability`, `DurabilityProofs` | instances, proofs | `Durability` |
| `Commit` | the host's side of a commit at one path: disk, journal, trash, crash, start | - |
| `MCCommit`, `CommitProofs` | instances, proofs | `Commit` |
| `RecoveryProofs` | more proofs | `CommitProofs` |
| `Scan` | scanner, executor and engine task at one path the user changes | - |
| `MCScan`, `ScanProofs` | instances, proofs | `Scan` |
| `Wants` | the want-list over a tree of paths and several peers | - |
| `MCWants`, `WantsProofs` | instances, proofs | `Wants` |

`Replica` says *what* a record is and leaves out how it gets to the peers; `Announce` says how
records get to the peers and leaves out what they are; `Durability` is below both: an event of
the engine is a group there, and both take a record that was written as durable. The three
others each open one box of `Replica`: `Wants` the steps a want goes through before its commit,
`Commit` the action between the start of a commit and its report, `Scan` the observation.

### Versions and Entries

A vector maps every member to a counter; a key the code does not store reads as 0. `Compare`
is the single pass of `Version::compare` with its two flags. `Incremented` saturates as the
code does, at `MaxCounter` for `u64::MAX`.

An entry is a version and a body, the fields that `winner` looks at. `OutrankedBy` lists the
rule in the order the code applies it (stamp, live over tombstone, content over touch,
mtime, author); `FallbackBelow` is `total_fallback`. `Applies`, `Conflicts`, `Resolved` and
`IndexOnly` are `classify` and `mode_for` of `batch.rs`. A path the index holds nothing for
reads as `Absent`, whose empty version everything dominates.

Every path is a file. A size is a function of the hash and a host name one of the author, so
neither is a field.

### Replica

| Variables | Code |
|---|---|
| `record`, `fresh` | the index record, and whether its sequence number is above `announced_seq` |
| `pending`, `kept`, `keptFresh` | `Index::pending` with the record before the first unannounced change |
| `paused` | `FolderState` paused by the sender pre-check |
| `want` | the want-list's row: state, the resolved entry, the raw entry, index-only or not |
| `deferred`, `frozen` | entries waiting for a report or observation; entries over a pending change while paused |
| `held`, `denied` | `Quarantine` and the items `return_denied` can give back |
| `sent`, `got` | what was announced, and what was received and acknowledged |
| `made` | history: every local change not discarded by a revert |

| Actions | Code |
|---|---|
| `Observe`, `ObserveAbsent`, `ObserveUnchanged` | `take_observation`, `take_one`, `reconsider` |
| `StartCommit`, `AdoptIndexOnly` | `dispatch` |
| `Applied`, `CommitFailed`, `ChangedUnderneath`, `VanishedUnderneath`, `NoNewsUnderneath` | the executor's reports: `applied_at`, `failed`, `observe_found`, `defer_changed_underneath` |
| `Restart` | `WantList::restarted` |
| `Announce`, `Pause` | `tick`, window due, pre-check passing or holding |
| `Receive` | `receive`, admitted or frozen |
| `ApprovePaused`, `Revert`, `ApproveHeld`, `Deny` | the user's decisions |

Every handler that changes the record re-derives the want from the entry it received and
classifies what waited again; `LocalChange`, `Adopt`, `Revert` and `BumpOver` contain that as
`Admit`, as the code's handlers do. `Admit` is the one definition everything received passes
through: drop what the record or the want has caught up with, join the items it matches, let
the brake stop some of the rest, insert what is left.

Abstractions:

- The network is a set that only grows: a batch can be lost (never received), repeated, and
  come in any order. Its ranges and watermarks are `Announce`'s.
- Sequence numbers are reduced to `fresh`, because only that decides what is announced.
- The candidates of one handler are admitted in *any* order: `Insert` and `Quarantined` allow
  each outcome some order gives. The code's order is the sequence of the batch, one of them.
- The brake is a free choice per entry, and each stopped entry is an item of its own. With
  `matching`, "the earliest item that matches" is: the item that has the entry, or else any.
- The pre-check counts local changes against thresholds; here it may hold whenever there is
  one.
- A commit is one action from start to report. What happens on disk in between is `Commit`;
  what the guard may find is `ChangedUnderneath`, `VanishedUnderneath`.
- Fetches, sources and the order between paths are `Wants`; the age of an observation is `Scan`.
- `NoNewsUnderneath` is a guard that failed though what it found is what the record says, or that
  could not look: the want's entry waits for the next observation. Only a faulty member does it.
- `ChangedUnderneath` takes any file that differs from the record. A find equal to the want's
  own result is taken too, although the code sees that one as its own work.

### Announce

| Variables | Code |
|---|---|
| `seq`, `record`, `pending`, `kept`, `announced` | `Index`: a record is its sequence number |
| `window`, `paused` | `FolderState` |
| `acked`, `catchup` | what each peer last said it holds; peers to catch up at the next tick |
| `peers`, `linked` | the two ends of a connection learn of it one after the other |
| `toPeer`, `toSender` | messages in flight |
| `contiguous`, `ranges` | the peer's `received_range` |
| `got`, `discarded` | history: received; thrown away by a revert |

`Tick` is `Engine::tick` with `send_batches`: catch-up for the marked peers, then the window.
`Forms` is every way `form` may cut the records: the limits on entries and bytes are an
arbitrary set of cuts. `Receive` is the receiver's `received_range` and the answer with the
contiguous watermark; `Answered` covers decisions and `HaveUpTo`. A broken connection takes
everything in flight with it; over a live one messages arrive once, in any order. `Restarted`
reopens the window as `FolderState::restarted` does and forgets connections and marks.

When the window is due is left to chance, so are the thresholds of the pre-check. A revert
that finds a directory it must keep is a `Revert` followed by a `Write`. A peer that loses its
own state is not modelled.

### Ledger and Durability

`Ledger` is the promise, in five actions: groups are submitted in order; the durable ones are
a prefix of them; an effect is performed once everything up to its group is durable and after
the effects before it; effects may be dropped; a crash loses what is not durable.

`Durability` is how the daemon keeps it. Groups are numbered in the order they enter the
writer's channel. Every channel is filled in that order, so it is a set of numbers of which
the least comes out.

| Variables | Code |
|---|---|
| `queue`, `batch`, `outcome`, `failed`, `store` | `writer.rs`, `run`: the channel, the transaction's groups, its result, the sticky failure, the database |
| `good`, `bad` | the `Durable` handles, resolved |
| `core`, `sending`, `inputs` | the engine task, the release it is queueing, the reports that wait for it |
| `releases`, `releaser`, `awaiting` | `core.rs`, `release` |
| `jobs`, `executor`, `task`, `row` | the executor, its job and the group of its journal row |
| `performed`, `faults` | history, and a bound |

| Actions | Code |
|---|---|
| `Handle`, `Due`, `Send`, `CoreEnds` | `Core::input`, `due`, the send at the end of `emit`, `run` |
| `TakeBatch`, `Commit`, `CommitFails`, `Refuse`, `Resolve` | the writer's loop |
| `TakeRelease`, `HandOver`, `ReleaserEnds` | the releaser's loop |
| `Begin`, `Perform`, `Journal`, `Move`, `Give`, `Reported`, `ExecutorEnds`, `Arrive` | the executor and everything else that reports |
| `Exit`, `Crash`, `Start` | an orderly end, which drains the writer; a crash; a start from the store |

The refinement maps `durable` to `store` and `intents` to the effects that sit anywhere
between the engine task and the executor (`Outstanding`).

A group has at most one effect. Jobs that wait for no group, the executor's copies of records
and what a group writes are left out. A commit journals at most once; one that the disk
refuses counts as performed, since it was tried. A refused group is noticed by the releaser,
so after a refused journal row alone the daemon goes on until the engine's next group; the
model does the same.

### Commit

The host's side of a commit at one path, from the action to its report. A step is a system call
that changes the disk, or a group made durable, with the checks before it between which nobody
can come; the user may act between any two. Files are numbered as they come to be.

| Variables | Code |
|---|---|
| `disk`, `past` | what is at the path, at the conflict-copy path, in the trash and in `.delocal/tmp/`; what the disk held since the last fsync, to any of which a power loss may return |
| `journal`, `trashRows`, `record` | the store: the path's row, the trash's rows, the index record |
| `open` | `DiskState`'s open row: displaced and not back, or landed and not synced |
| `mode`, `pc`, `op`, `writes` | the daemon's start, the executor's place in the commit, the commit, the changes to rows that go with its report |
| `disk.owed`, `disk.superseded`, `tally` | history: files somebody may claim; files a commit replaced; bounds |

| Actions | Code |
|---|---|
| `NotOpen` ... `ResolveRecorded` | `resolve_one`, before a commit and before each scan |
| `Guard` | `look`, `guard`, `free`, `make_parents` |
| `Journalled`, `Displaced`, `PlaceTaken`, `NotDisplaced`, `NoPlace` | `displace`, `move_in` |
| `Placed`, `NotPlaced`, `PutBack`, `LeftAside`, `Stranded` | the rename in, `put_back` |
| `Synced`, `NotSynced`, `Removed`, `NotRemoved`, `Report` | step 9, `remove`, `trash`, `run` |
| `Crash`, `PowerLoss`, `UndoBack` ... `UndoFails`, `Tidy`, `Up` | the two kinds of crash, `Start::run`, `undo`, the trash's and the temporary files' tidying |

What the user does is taken as durable at once, and forgets what the disk was: a power loss
that takes back the user's own work is not this program's. A fetch in flight is a temporary
file that appears. `Tidy` prunes any files of the trash; it does not spare one that an open
row was to put back, because the code does not.

### Scan

The three threads that see a path: the scanner (`Stat`, `Hash`, `Walked`, with the record it
was given when it started), the executor (the same for a single look, and commits: `TakeCommit`,
`Place`, `PlaceFails`, `Landed`) and the engine task (`Report`), which takes one report after
the other: `Observed` is `take_one`, `Applied` and `Failed` the commit's report, `Started`,
`Finished`, `Aborted` the bracket. `Relative` is what `core.rs` makes of an `Unchanged` before
the engine sees it.

`disk` is the sequence of states the path has been in, so a report can be compared with what
was really seen (`saw`, history). Times are only compared by the code; here each step replaces
them by their ranks, and a time of the engine that is older than every report still to come
counts as none. So scans may go on for ever in finitely many states.

The clock is read in a step of its own (`Dated`, `Landed`), since the code reads it after the
`lstat` or `readlink` returned (`delocal/scan.rs:580`, then 692 or 769; 855, then 856), on a thread
that runs beside commits and looks, and after the rename of a commit (`delocal/commit.rs:838`). What
the other thread does and dates in between is newer than the look and dated before it. A file that
is hashed is stated a second time, so it tells of a moment after its date; a symlink and an absence
tell of one before theirs. `Lands` is `would_have_left`: a failed commit that found what it would
have left counts as landed.

### Wants

`engine` is the want-list with what it reads around it (released commits, live records, how
each peer is reached, whether inbound is paused); `fetches` is a bag of what the host is
fetching, `commits` the queue of what it was told to commit. Every action ends in `Pump`, which
is `dispatch`: directories kept, waiting wants released, sources reselected, fetches assigned
within the limits, commits started with parents first and deletes with children first. The two
loops are recursive functions on sets of paths (`AssignAll`, `CommitAll`): what was done with a set
is what was done without the path that comes last in it, and then that path. This is the code's
order, and it can be reasoned about.

`Gates` says which wants come before which. `Commit` is the decision at one want: wait for a
want that may take long (`Holders`, observable meanwhile), be blocked behind one that will not,
be adopted at once, or go to the host. The outcomes of fetches and commits, stalls, deadlines
that pass, peers that come, go or change to a relay, a full disk and a restart are actions;
how long a deadline is is left out.

Versions of a path are numbered in the order in which they dominate each other, because what
records do to wants is in `Replica`. An entry that would wait elsewhere simply arrives again.
`Length` is the length of each path's name, by which `waits_for` picks the nearest of the wants
that hold one up (`Nearest`); it is assumed only that a path's name is longer than those of the
directories above it. `Collided` is a case collision, of a fetch or of a commit: with a record to wait for, or
none.

## 3 The runs

| Run | Instance | Checks | Distinct states |
|---|---|---|---|
| `replica` | 2 members, both edit; 1 pauses, fails and restarts, 2 brakes; counters to 2 | `TypeOK`, `SameVersionSameContent`, `AnnouncedNeverRewinds`, `PendingNeverLeaks`, `WantDominates`, `NothingLost` | 37 thousand |
| `replica_three` | 3 members, two edit, two contents; counters to 1; fair | `NeverFallback`, `SettledAgree`, `Converges` | 23 thousand |
| `announce` | 2 paths, 1 peer, 3 writes, 1 fault; fair | `TypeOK`, `BatchesComplete`, `WatermarkTruthful`, `AckedIsHeld`, `DiscardedNeverSent`, `AnnouncedArrives` | 105 thousand |
| `durability` | queues of 1, 4 groups of two kinds, 1 fault; fair; deadlock checked | `TypeOK`, `JournalFirst`, `BoundedBacklog`, `Implements`, `EffectsHappen`, `RefusalStops` | 217 thousand |
| `commit` | 2 places in the trash, 1 temporary name, 3 files, 1 edit, 2 faults, 1 crash; fair | `TypeOK`, `FilesKept`, `OpenRowsKnown`, `TrashAccounted`, `NoPhantomDeletion`, `NoResurrection`, `RowsClose` | 606 thousand |
| `scan` | 2 files and a symlink, a queue of 1, 1 each of looks, edits, commits, faults; fair | `TypeOK`, `BracketIsScan`, `RecordTruthful`, `DatedNeverBackwards`, `HostIsNotUser`, `WholeFilesOnly`, `Caught` | 586 thousand |
| `wants` | 4 paths (two directories, one in the other, a file in that, a large file beside), 2 peers, 1 fetch per peer, 2 in all, 1 batch, 1 revert or re-derivation, 2 faults; fair | `TypeOK`, `NeverHeldBehind`, `NothingLandsInTrash`, `OneCommitPerPath`, `WantsEnd` | 160 thousand |
| `approve_drops_joiner`, `revert_strands`, `commit_putback`, `scan_overtaken`, `wants_late` | see section 6 | one statement of the repository each, found violated | - |

What they show:

- `SameVersionSameContent`: whatever is merged, denied, reverted and written again under a
  counter given back, two records with one version have one content. The engine relies on it
  each time it drops an entry as equal.
- `AnnouncedNeverRewinds`, `PendingNeverLeaks`: the two halves of revert. What it goes back to
  covers all that peers have; what it discards nobody has, in any quarantine, want or batch.
- `WantDominates`: the debug assertion of `Index::adopt`, from the time the want is resolved.
- `NothingLost`: a change acknowledged to its sender is in the record, or waits at the machine.
- `NeverFallback`: `winner`'s last resort, which the code says should never happen, does not.
- `SettledAgree`, `Converges`: machines that have nothing left to do agree; and they get there.
- `BatchesComplete`, `WatermarkTruthful`, `AckedIsHeld`: a batch that claims a range still has
  every record of it when it arrives, so neither the peer's watermark nor the sender's memory
  of it runs ahead of what the peer has. `DiscardedNeverSent`: no batch, live or catch-up,
  carried what a revert discarded.
- `AnnouncedArrives`: whoever lost a batch is sent it again; no peer is forgotten between two
  ticks, a lost connection and a restart.
- `Implements`: see `Ledger`. `BoundedBacklog`: the number that the daemon's backpressure test
  asserts is the bound in every interleaving. `EffectsHappen`: four threads waiting for each
  other never wait in a circle. `RefusalStops`: an engine ahead of its store does not go on.
- `FilesKept`: every file the user made or a commit placed is at the path, at the conflict-copy
  path or in the trash, through every failure, crash and power loss. `OpenRowsKnown`,
  `RowsClose`: a path the disk of which no record describes is known as such, and not for ever.
  `TrashAccounted`: what is in the trash is listed there.
- `NoPhantomDeletion`: an empty path that the host emptied is never observed as empty. A rename
  that a power loss took back before anybody could know it durable is excepted (`undone`);
  `PutBackStays`, without that exception for files put back, is what fails in section 6.
  `NoResurrection`: neither a resolve nor an undo brings back what a commit replaced.
- `RecordTruthful`: the record is what the path held when it was last seen: no report, absence,
  `Unchanged` or deletion pass says something of a moment it is not from.
  `DatedNeverBackwards`: of all that reaches the engine out of order (files stated and hashed
  while commits run, `Unchanged`, a commit's report, the deletion pass) nothing takes it back to
  an older state of the path, except a look that finds a symlink or an absence, which the code
  dates too late (`Late`, section 6), and what comes after an absence. `HostIsNotUser`: what a
  commit does to a file, or leaves in between, is never taken for a local change, with the same
  exception. `BracketIsScan`: a deletion pass ends the scan that its bracket began.
  `WholeFilesOnly`, `Caught`: no file is recorded while it is being written; and whatever the
  watcher misses, scans find.
- `NeverHeldBehind`: no path stays in flight, blind to the user, behind a want that may wait an
  hour. `NothingLandsInTrash`, `OneCommitPerPath`: the host is never asked to place a file in a
  directory that is leaving, nor to do two things at a path. `WantsEnd`: no want waits for ever,
  whatever failed, gave up, or waits for another that failed.

Every property has a mutant in `PROJECT.json`: a change of a definition, kept next to it under
a comment that begins "Mutant", under which the same run finds the property violated.

### Bounds

| Bound | Why it is enough |
|---|---|
| `MaxCounter` 2 with two members | change, announce, change again, pause and revert need two changes of one machine; merging needs one of each. The wraparound itself is excluded by `CanChange`: a counter at `u64::MAX` is a change too many |
| `MaxCounter` 1 with three members | three vectors that are pairwise concurrent, in every order of merging; more counters repeat that |
| two contents, one modification time, one exec bit | touch against edit needs one content, edit against edit two; equal times are the case in which the rule has the least to go by, and the exec bit takes the path of the hash |
| `Editing`, `Braking`, `Pausing`, `Faulty` | members are told apart only by what they may do. The roles are placed so that a pausing, failing member meets one that brakes and denies |
| `MaxSeq` 3, two paths | a pending record over an announced one and another path's announced in between; a batch in flight while either is rewritten |
| one peer | the sender keeps no state that joins peers; the second changes nothing about the first |
| `MaxFaults` 1 | the loss of a connection or a restart at any point. What follows a second loss is what follows the first, from a state with the same variables |
| `Queue` = `Inputs` = 1 | the smallest queue is the one that is full most often. `DurabilityProofs` holds for any length |
| 3 files, 1 edit, 2 faults, 1 crash (`commit`) | the file that was there, the one that comes in, one of the user's; a failing rename and a failing put-back; a crash at any point and the start after it. A second crash finds what the first left: the start's steps are the same from any row |
| 2 places in the trash | a place taken and the next |
| one each of looks, edits, commits, faults (`scan`) | scans are unbounded, and between them the four happen in any order. Two edits with two looks are `scan_overtaken` |
| 4 paths in `wants` | a gate over two levels, a directory recorded without a commit between them, and a file that shares the slots. `MaxVersion` 2: a newer batch over a want |
| 2 faults in `wants` | a want gives up after two sources; a stall and a lost peer; a failing directory under which a file waits. `GoneOnlyIfNobodyHas` takes 3 |
| `MaxGroups` 4 | one group in a transaction, one at the releaser, one queued, one that waits: all positions taken, which `BoundedBacklog` needs to come out tight |

Only `durability` checks for deadlock. The others may stop: the users are done, or their bounds.
Where they must not stop early a liveness property says so.

## 4 Fairness

*Replica.* The engine asks to be woken when a window is due (`Announce`), dispatches the
want-list at the end of every event (`StartCommit`, `AdoptIndexOnly`), and the scanner looks
at a path that something waits for again (`ObserveUnchanged`). `CatchUp` is weakly fair per
pair: a peer below the last announced record is caught up, which `Announce` shows. `Applied`
is strongly fair: a commit that fails is retried with back-off and succeeds in the end; without
that a broken disk is a machine that never converges, rightly. A held item is decided by its
user in the end. Users' edits are not fair, and counters bound them: `Converges` is about what
happens after the last.

*Announce.* A due window or a marked peer is ticked (`WakeAt`), a lost connection is made
again, and each message over a live connection is delivered: weak fairness per range for
batches and per answer, so that no message is overtaken for ever. Writes, pauses, decisions,
faults are not fair; the property speaks of announced records only.

*Durability.* Every thread and task runs and a transaction returns: weak fairness of each
step. `Reported` is strongly fair because room in the inputs comes and goes, and tokio's bounded
channel serves senders in the order they came. Failures, crashes and new inputs are not fair.

*Commit.* The executor goes on with what it is at, a daemon that is down is started, and open
rows are resolved before each scan, which the timer brings: weak fairness of `Steps`, `Start`
and `BeginResolve`. Crashes and failures are bounded, not fair.

*Scan.* The engine task takes reports, a file that nobody writes is calm after two seconds:
weak fairness. The scanner, the executor and the timer of the next scan are strongly fair,
since room in the queue of reports comes and goes and tokio's bounded channel is first come,
first served. The watcher has no fairness at all: its events may all be lost.

*Wants.* One weak fairness of `Due`: the host answers what it was asked, deadlines pass, peers
come back, space is found and a colliding or ignored file is seen to by the user. Which of them
comes first is left open: any order of them must end every want. Failures are bounded, not fair.

## 5 The proofs

Eight modules of proofs; every leaf is checked, nothing is assumed beyond the `ASSUME`s on
constants, which each say what the constant is in the code.

### EntriesProofs

`WinnerSymmetric`: the rule picks the same side whichever way round it is asked.
`WinnerIsHighest`: it is the maximum of a total preorder. `MergeAssociative`: three entries
merge to one vector and one content in whatever order they meet. These hold for all integers
and hashes and need no state machine.

### ReplicaProofs

For any set of members, counters, contents, times and any placing of the powers:
`TypeCorrect`, `VersionNamesContent`, `FallbackUnreached`, `WantsDominate`, `AnnouncedStands`,
`PendingStaysHome`, all from `Invariance`: `Spec => []IInv`.

The argument. `SameVersionSameContent` is not inductive: nothing in two records says why equal
vectors have equal contents, once they have been merged on different machines in different
orders. So the proof keeps `made`, the set of local changes that no revert discarded, each
with its author, counter and body. `AllCanonical` says of every entry anywhere that its body is
*the highest ranked of the changes its vector has seen*. Then a body is a function of the
vector, and a merge, which takes the join of the vectors and the higher of the bodies, keeps
that: the past of the join is the union of the pasts, and the maximum of a union is the higher
of the two maxima (`EntriesProofs`). What remains is that a local change is the highest of its
own past (its stamp is past the record's, which was the highest), and that a counter given
back by a revert names one change only, which takes

- `OwnHighest`: no vector counts a change that its author's record has not made,
- `PendingNeverLeaks`: no vector elsewhere counts a change that may still be discarded,
- `AuthorsOrdered`: one author's stamps rise with its counters, one counter each,
- `KeptCovers`: the record under a pending change is past everything announced,

and these in turn `AnnouncedNeverRewinds` and `WantDominates`. Together they are `IInv`. A
discarded change leaves `made`, and `PendingNeverLeaks` is why nobody misses it.

`FallbackUnreached` follows: two changes that only the fallback tells apart have one author
and one stamp, and `AuthorsOrdered` makes them one.

*Nothing is lost.* `NothingLost` does not hold of the code without a condition: approving an
item can lose a version (section 6). The theorems say exactly how far it does hold.

- `NothingElseLoses`: `Spec /\ [][ApprovesWhole]_vars => []NothingLost`. `ApprovesWhole` says of
  the approvals of held items only that the item is `Whole`: its latest entry is past every
  version that joined it, and the member has not denied anything in a window that it could
  still revert. Nothing is assumed of any other action, so no edit, commit, pause, revert,
  deny, undone deny, failure or restart loses an acknowledged version.
- `SettledMembersAgree`: on the same condition, members with nothing left to do hold one record.
- `UnbrakedLoseNothing`: where nobody brakes both hold with no condition (`replica_three`).
- `TwoLoseNothing`: of two members, neither of which both brakes and pauses, both hold with no
  condition (`replica`).

The argument. `Covered` says of a member that every version acknowledged is covered, peer by
peer, by its `Stock`: the record *that a revert would leave* (`Base`), what waits, and what the
items consumed. So a revert loses nothing by definition, and what has to be shown is that the
steps in between keep it: `RevertKnown` says that a pending change counts of the others no more
than the record under it, or than what denies consumed and the revert hands back;
`DeniedUnder` that a deny's bump is past what it consumed; `Shape` that a want counts no more
than its raw entry and the record it was resolved against. What a member counts of *itself*
needs no stock, because of `OwnHighest`. `AdmitKeeps` carries `Covered` through `Admit`, which
is the same for all handlers: each entry that goes in is in the record, a want, an item or a
waiting place when it comes out. `StepKind` sorts the actions into five kinds (nothing of this
changes, a local change, an adoption, an announcement, a revert), so that there is one case for
each kind and not for each action.

The corollaries discharge the condition. Without a brake there are no items (`Unbraked`). With
two members, all that one hears is what the other announced; that is in a row
(`AnnouncedStands`), so an item's latest entry is past the others that joined (`Paired`). A
third member brings entries that are concurrent to both: that is the trace of
`approve_drops_joiner`.

### AnnounceProofs

For any paths, peers, ends of batches and numbers: `TypeCorrect`, `BatchesWhole`
(`BatchesComplete`), `NothingSkipped` (`WatermarkTruthful`), `AckedNotAhead` (`AckedIsHeld`) and
`RevertLeavesNoTrace` (`DiscardedNeverSent`), from `Invariance`.

The argument. A batch names its range when it is cut and is delivered after more has been
written, announced and reverted. `RecordsStay` is why it stays complete: a record at or below
`announced` is replaced only by one with a higher number, never given a lower one, so what the
range lacks is later, and what it holds is current or gone. `RangesReceived` says the same of
the ranges a peer keeps above a gap; the watermark moves only over such ranges (`Absorbed`), and
the ranges that close up form a chain, taken up by the least number not yet covered.
`PendingAbove` and `RecordsApart` say that a change that may be reverted has a number above
everything announced and no other record's number; so no batch can have held it.

### DurabilityProofs

For any lengths of the queues and any number of groups and faults: `TypeCorrect`,
`RowBeforeMove` (`JournalFirst`) and `ImplementsLedger` (`Implements`).

The argument. What has to be shown is that everything up to a group is in the store when its
effect is performed. `WriterHasRest` says that until a transaction fails, whatever is submitted
and not stored is in the writer's channel or transaction, the transaction's groups before the
channel's. So a transaction that commits leaves everything up to its last group stored
(`GoodIsDurable`), and `StorePrefix` holds; once one has failed nothing is stored any more, and
it stays a prefix. `ReleasedIsDurable` carries that from the resolved handle to the
executor's jobs, `JournalFirst` to the row of the commit it is at. `InOrder` is the order of
the five places an effect passes through, so that effects are performed in the order of their
groups; `AtWork` ties the executor's state to its job. A crash leaves the store, which is a
prefix, and nothing else.

The step part of the refinement (`StepImplements`) has one case per kind of action: what
submits a group, commits a transaction, performs an effect or crashes is the step of `Ledger`
of that name, and everything else drops effects or stutters.

`BacklogBounded` (`BoundedBacklog`). The writer's queue has no bound of its own; what bounds it is
that each group has a release. While engine task and releaser run, every unresolved group has
its release with the engine (one at most, being sent), in the releases' channel (`Queue` of
them) or with the releaser (one). When the releaser has ended, the engine submits one more group
at most before it notices: its release finds the channel closed (`Backlog`).

### CommitProofs

For any files, places in the trash, temporary names and numbers of failures and crashes:
`TypeCorrect`, `NoFileLost` (`FilesKept`) and `NoRowForgotten` (`OpenRowsKnown`), from
`Invariance`.

`FilesKept` is not inductive: a power loss returns to a disk of `past`, of which it says
nothing. `DisksWhole` says of the present disk and of each one of `past` that it is `Whole`:
every file owed on it is at the path, at the conflict-copy path or in the trash. A rename
goes to an empty place only (`RenameWhole`), so what was owed is owed where it came to be;
a file is taken out of what is owed only by its owner, or when the trash is pruned. `StayWhole`,
`DoWhole` and `MadeWhole` carry this to the three ways in which a step treats `past`: nothing
happened to the disk, something did that is not synced, something did that is.

`OpenRowsKnown` needs to know who has the row in mind at each place of a commit: `RowKnown`
says that it is the memory (`Matches`), the running commit that made it (`op.to`), or the
changes under way that take it away (`writes.gone`); one of the three hands it to the next.

### RecoveryProofs

The other three properties of `Commit`, for any files, places, failures, crashes and power
losses: `TrashIsListed` (`TrashAccounted`), `DeletionsAreReal` (`NoPhantomDeletion`) and
`ReplacedStaysAway` (`NoResurrection`), from `AccountsAlways`.

The argument. The last two are about the *disk after a power loss*, which is one of `past`. So
each fact is stated of `Each` disk, the present one and those of `past`, and the steps are
sorted by what they do to a disk: nothing moves (`Clears`), a file goes aside, comes back, lands,
or is the user's. `Sound` is what these forms keep: a file is at one place, a temp file is
nobody's, and what was replaced stays where it is until the user or a start takes it.
`Explained` is about what the index claims the path holds: the file is there, or it is no longer
owed there, or the journal has it back at the path, on the present disk and, unless a power loss
taking it away is noted (`tally.back`, the exception the property names and the finding
`commit_putback`), on each of `past`. `RowLive` says that what a row would bring back was not
replaced: this is `NoResurrection` for the start. `Pending`, `TempTells` and `Aims` are what each
place in a commit knows: which changes of rows wait, whether the temp file still says that the
rename is outstanding, and what the commit takes the path to hold. `Listed` and `TrashKnown` say
that a file in the trash has its row or that the row is in the changes about to be made durable.

### ScanProofs

For any contents, links, lengths of the queues and numbers of looks, edits, commits and faults:
`TypeCorrect`, `BracketAlways` (`BracketIsScan`), `RecordAlways` (`RecordTruthful`) and the action
property `OnlyWhole` (`WholeFilesOnly`), from `Invariance`; and the action properties
`PresentOnward` (`DatedNeverBackwards`) and `OnlyTheUser` (`HostIsNotUser`), from
`OrderInvariance`, which adds to it what a report's time says of what it tells.

The argument. Times are re-ranked at each step (`Timed`), so the model stays finite; `TimedSays`
shows that this changes no comparison and nothing but times. The disk's history only grows
(`Grown`), so what was true of a state that was seen stays true: `LooksTrue` says it of looks and
of reports under way, with `calm` for what was hashed. `OneFlight` says that a path in flight is so
for one commit, which is released, at work or reported; `Left` that what it left is the host's last
state. So when the engine is told of the commit, it records the state it saw. `Ordered` and `Told`
are about the queue: a scan's first report waits before its last, and a scan that saw the path has
told of it in between; this is why "finished and not seen" is a deletion.

The order. The engine compares times, and the two properties are about states of the disk. The two
do *not* go together for all that waits to be told, since a clock is read after what it dates was
seen: whatever comes between the two is newer and has the smaller time. They go together for what
was read *after* its time, and that is the content of a file, which is hashed and stated once
more (`Read`). `Sorted` says of a look under way or a report in the queue (`Tells`) that if it read
a file it tells of no earlier state than those with a smaller time, absences excepted: a file found
gone while it is hashed is seen later than it is dated, which is what `scan_overtaken` shows.
`Unread` says that a look that waits for its time has read no file yet. `FromBoth` says of the files
read that those `is_stale` lets through are in `Fits`: no older than what the engine knows and, once
no outcome of a commit is outstanding, after the commit. A commit reads its clock once it has ended,
so nothing read before its time is of what it did, and what is read later is after it (`From`). All
of these are kept when the times become ranks (`RankOrder`, `TimedBook`). Reports of other kinds are
not ordered by their times but change little: an `Unchanged` leaves the record as it is, and the
outcome of a commit is taken whatever its time (`Ahead`, `FailedAfter`). What is left over is a
look that finds a symlink or nothing, and it is what the properties except.

An absence that a scan concludes has no date at all. `Behind` carries it: from the moment the
scanner finds the path gone, every state that is told before the scan's end is an older one, *or*
it will be told within the bracket and then the pass does not happen (`ToldBy`). `Settled` and
`Expects` are about the commits: one that failed leaves the path as it was recorded or as the user
made it, since its guard, the put-back and the record it replaces agree. So what was seen after it
is either the user's or nothing new, and is not announced as a change of this machine.

### WantsProofs

For any tree of paths, any peers, limits and batches: `TypeCorrect`, `NothingHeldBehind`
(`NeverHeldBehind`), `TrashStaysEmpty` (`NothingLandsInTrash`) and `OneCommit`
(`OneCommitPerPath`), from `Invariance`.

The argument. `EngineOK` is what every want is by itself, `Matches` what list and host know of each
other: the commits under way are those of the wants that are committing and those a rule released,
one per path, and above a path at which something is made nothing is a move to the trash. An event
may leave the list with gates that have moved; the dispatch at its end puts it in order
(`DispatchedOK`), so a handler has to keep `EngineOK` and `Matches` only (`PumpKeeps`), and most do
since they touch no want at its commit (`Follows`).

The steps of the dispatch before the commits only end wants or change their states (`Alike`), and
the first of them leaves nothing wanted beneath a directory that is to be moved away
(`TrashEmpty`). The two loops are functions on sets of paths: that a function with the recursive
equation exists, and that each set is done as it should, both come from a smallest set for which it
is not (`LeastExists`; there is no induction over data here). For the commits the claim is
`Handled`, `Started` and `Gated`: of the paths done so far, none is committed while anything holds
it back, and none is blocked behind what may take long. It carries over to the next path because
a want that was taken before is never held back by one taken later (`LaterHoldsNot`: parents
before what is in them, and deletes the other way round) and wants that end hold nothing back
(`GatesShrink`).

### Checked, not proved

Every invariant and action property that a passing run checks is stated by a theorem above.

- *Liveness* (`Converges`, `AnnouncedArrives`, `EffectsHappen`, `RefusalStops`, `RowsClose`,
  `Caught`, `WantsEnd`) is out of the prover's reach.
- *The runs of section 6* are counterexamples; there is nothing to prove.

The invariants `IInv`, and the parts of `OInv` with their quantifiers over times and states cut
to the instance, were themselves checked by TLC on the instances above before they were proved.

## 6 Where the code disagrees with what it says

| Run | Statement | What the code does |
|---|---|---|
| `approve_drops_joiner` | `src/DESIGN.md:533`: dropping a version of an item would lose a version the sender has been acknowledged for | approve admits the item's latest entry only. A concurrent version that joined earlier is dropped |
| `revert_strands` | `engine/folder.rs:2696`: without a window, unannounced records "would wait for some later write" | revert closes the window; records adopted from peers and not announced yet wait for some later write |
| `commit_putback` | `delocal/commit.rs:33`: the row is removed with the report, "by then the rename is durable"; `src/DESIGN.md:433`: a failed commit leaves the disk as it found it | a put-back, and the resolve of a row, are not synced before the row goes. A power loss may empty the path again, with no row left: the next scan announces a deletion |
| `scan_overtaken` | `src/DESIGN.md:363`: a read overtaken by the report of the deletion is dropped | a file found gone while it is hashed is reported absent as of the stat before the hash. A read between the two is dated later, and is taken: the deleted file is an add |
| `wants_late` | `src/DESIGN.md:557`: the deletion stands once every member has answered `NotAvailable`; `engine/engine.rs:139`: a late report is told apart by its version | a report is charged to the source the want is at *now*. After a stall two fetches of one want may be under way, and one peer's two answers count as two peers' |

The proof of `NothingElseLoses` found a second way in which approve loses a version, which has no
run of its own. A member that brakes *and* pauses holds two items at a path. It denies one: the
record is bumped over both (`engine/folder.rs`, `deny`). It approves the other: the record is past
it, so it is dropped as known. Then the same window pauses and is reverted: the bump is taken
back, the denied item returns, and the approved one is nowhere. TLC shows it with three members
and one change each, in 11 states. `Whole` excludes it by its second conjunct.

A third one `scan` was found to need when the clock was given a step of its own, and it has no run of
its own either. `src/DESIGN.md:363` says that an observation carries the time of "the `stat` or the
read", so that "a scan that reads a file just before a commit replaces it" is not announced as a
change, and `delocal/scan.rs:796` that it is "the time of the `stat`, not of the end of a hash". The
clock is read *after* the `stat` (`delocal/scan.rs:692`, 769, 856), on the scanner's own thread. A
file is saved by the hash and the `stat` that come after; a symlink and an absence are not. A scan
reads a link, a commit replaces it and reports, the scan reads its clock: its report is newer than
the commit's, and the old link is taken over what the commit brought. A look
finds nothing, something is made there and a scan reports it, the look reads its clock: what was made
is recorded and announced as deleted. TLC finds both on the instance of `scan`, as soon as an
exception (`Late`, or a record that is a link or absent) is taken out of `DatedNeverBackwards` or
`HostIsNotUser`.

Two more were shown by earlier runs and stay as observations. `engine/conflict.rs:56` lists
first that a live side wins over a tombstone, but stamps are compared first (the other comments
explain that order; the comment is not the code's order). `src/DESIGN.md:520` says that paths of
the pending batch are left untouched until approve or revert, but a want that exists when the
folder pauses is still committed and adopted, and `adopt` clears the pending change.

## 7 What is left out

- *Of `Commit`*: changes of metadata only, case collisions, mounts, the folder's marker, the
  removal of ignored files with a directory, rows the journal refuses. The trash's pruning is
  a free choice; size and age decide in the code.
- *Of `Scan`*: the walk over directories, ancestors implied by an observation, marks of a
  restore or a reset, moves to the trash seen by a scan, ignore patterns, mounts, names as the
  disk spells them, the second look at an unstable file.
- *Of `Wants`*: how long back-offs and deadlines are, the overdue warning, reset wants, the
  numbers of colliding names, carriers, conflict copies, the entry that waits for a path that
  changed underneath (it arrives again as a batch), local changes under a directory.
- *Of the engine*: queued decisions (a revert that waits for the startup scan, for commits and
  for fresh observations), the brake's counts and items over several paths. `Replica` is about
  one path.
- *Symlinks and absences out of order*: the code dates them too late (section 6), and the deletion
  pass of `scan_finished` sets no date of observation, so `DatedNeverBackwards` and
  `HostIsNotUser` except a record that came from either. `RecordTruthful` holds of them too.
- *Mesh, reachability, tiers*: which of two crossing connections stays is in the plan; the rest
  resolves names and parses the output of commands. `Announce` and `Wants` take from it that a
  connection breaks with all that is in flight, and that a peer's tier may change.
- *Row formats, wire format, framing, hashing, patterns, case folding, the status command*:
  conversions and I/O without control.
- *Retention, clocks, limits, logs, the lock, key storage*: nothing interacts with them.
- *The wraparound of counters and stamps*: a counter that saturates and `stamp + 1` on an
  `i64`. Listed as hazards; no program reaches the first in practice and the second needs a
  file system that reports a time at the end of the range.
- *The simulator*: test tooling. Its invariants were read for what the program is expected to
  keep. It is also why the map covers under a tenth of the repository's Rust: the simulator
  with its regressions is 22 thousand of its 70 thousand lines, and a good part of the rest is
  in-file tests and the conversions above. The map names the code a definition stands for and
  is not widened to what surrounds it.

## 8 Plan

Done: `Versions`, `Entries`, `Replica`, `Announce`, `Ledger`, `Durability`, `Commit`, `Scan`,
`Wants`, and the proofs above.

| Next | Models | Abstract specification | Runs | Theorems |
|---|---|---|---|---|
| `Brake` | held items over several paths, thresholds, denied items, forgetting; the queued revert | *every acknowledged version is in a record, a want or an item* | brake with deny and revert over two paths | each version is in one item |
| `Mesh` | dials, accepts, replacement of one connection by another | *at most one connection, the same on both sides* | two machines that dial at once, one loss | both sides agree |

The findings' runs make room for new ones once the code or its statements have changed.

## 9 Running it

```
tlc -workers 2 -config replica_three.cfg MCReplica
tlapm ReplicaProofs.tla
```

| Configurations | Module |
|---|---|
| `replica`, `replica_three`, `approve_drops_joiner` | `MCReplica` |
| `announce`, `revert_strands` | `MCAnnounce` |
| `durability` | `MCDurability` |
| `commit`, `commit_putback` | `MCCommit` |
| `scan`, `scan_overtaken` | `MCScan` |
| `wants`, `wants_late` | `MCWants` |

The longest run takes about two and a half minutes, the longest proof a few minutes. The five
runs of section 6 end with a counterexample.
