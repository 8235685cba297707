------------------------------- MODULE Commit -------------------------------
(* The host's side of a commit (crates/delocal/src/commit.rs), the journal    *)
(* that covers its two renames (commit/journal.rs), what a start does about   *)
(* the rows a crash left (commit/start.rs) and the trash's rows (trash.rs),   *)
(* at one path of one folder.                                                 *)
(*                                                                            *)
(* A step is a system call that changes the disk, or a group made durable in  *)
(* the store, with the checks before it that no one else can come between;    *)
(* the user may do something between any two.  A crash loses what is in       *)
(* memory, and a power loss takes back what was done to the disk since the    *)
(* last fsync too, as far as it likes but in order; the store keeps what was  *)
(* made durable.  Files are numbered as they come to be; a file's kind, mode, *)
(* mtime and name are left out, and with them SetMeta, case collisions,       *)
(* mounts and the marker.                                                     *)
EXTENDS Naturals, FiniteSets

CONSTANTS
    Trash,      \* the places in the trash
    Temps,      \* the names in .delocal/tmp/
    MaxFiles,   \* bound: files made, by the user and by fetches
    MaxEdits,   \* bound: things the user does
    MaxFaults,  \* bound: system calls that fail
    MaxCrashes  \* bound: crashes, and power losses with them

ASSUME BoundsAssumption ==
    /\ IsFiniteSet(Trash) /\ IsFiniteSet(Temps)
    /\ Trash \cap Temps = {} /\ {"path", "copy", "none"} \cap (Trash \cup Temps) = {}
    /\ MaxFiles \in Nat \ {0} /\ {MaxEdits, MaxFaults, MaxCrashes} \subseteq Nat

VARIABLES
    disk,       \* what the disk holds, and what became of its files
    past,       \* what it held since the last fsync
    journal,    \* the path's row in the store's commit journal
    trashRows,  \* the store's trash rows: place |-> the file it says is there
    record,     \* what the index says the path holds
    open,       \* the path's row among DiskState's open ones
    mode,       \* the daemon: down, or as far as its start is, or up
    pc,         \* the executor
    op,         \* the commit it is at
    writes,     \* changes to the rows that are to be made durable
    tally       \* how many of each bounded thing there were

store == <<journal, trashRows, record>>
vars  == <<disk, past, journal, trashRows, record, open, mode, pc, op, writes, tally>>

None  == 0
Files == 1..MaxFiles
Kept  == {"path", "copy"} \cup Trash    \* where a user's file may be
Spots == Kept \cup Temps

\* A row of the journal, and an open one: where the displaced file went and the
\* temp file that was to come in.
NoRow == [kind |-> "none", to |-> "none", temp |-> "none"]
Rows  == {NoRow} \cup [kind : {"displaced", "unsynced"}, to : Trash \cup {"copy"}, temp : Temps]
Row(kind, to, temp) == [kind |-> kind, to |-> to, temp |-> temp]

NoOp == [kind |-> "none", temp |-> "none", displace |-> "none", expected |-> None,
         to |-> "none", created |-> FALSE, result |-> "none"]

NoWrites == [gone |-> FALSE, unrow |-> {}, rows |-> {}]
Writes(gone, unrow) == [gone |-> gone, unrow |-> unrow \cap Trash, rows |-> {}]

-----------------------------------------------------------------------------
(* The disk.                                                                  *)

\* What is at the path: nothing is, when its parent is gone.
Held(d) == d.at["path"]

Reached(d, spot) == spot = "path" => d.parent

\* Mutant: a rename that replaces what is at the target.
CanReplace(d, from, to) == d.at[from] # None /\ Reached(d, from) /\ Reached(d, to)

\* rename_refusing: what is at the target is never replaced.
CanRename(d, from, to) ==
    /\ d.at[from] # None /\ Reached(d, from)
    /\ d.at[to] = None   /\ Reached(d, to)

Rename(d, from, to) == [d EXCEPT !.at[from] = None, !.at[to] = d.at[from]]

Clear(d, spot) == IF spot = "none" THEN d ELSE [d EXCEPT !.at[spot] = None]

Do(d)     ==
    /\ disk' = d
    /\ past' = IF tally.crashes < MaxCrashes THEN past \cup {disk} ELSE {}
Settles(d) == disk' = d /\ past' = {}
Fsync     == past' = {} /\ UNCHANGED disk
DiskStays == UNCHANGED <<disk, past>>

\* History: the file f came back to the path, or went with what the user did.
CameBack(t, f) == [t EXCEPT !.back = @ \cup {f}, !.excused = @ \ {f}]
Excuse(t, fs)  == [t EXCEPT !.excused = @ \cup fs, !.back = @ \ fs]

Count(what) == tally' = [tally EXCEPT ![what] = @ + 1]
Fault       == tally.faults < MaxFaults /\ Count("faults")

-----------------------------------------------------------------------------
(* What is made durable.                                                      *)

\* The rows with the changes w.
Journal(w)   == IF w.gone THEN NoRow ELSE journal
TrashRows(w) ==
    [t \in Trash |->
        IF \E r \in w.rows : r[1] = t THEN (CHOOSE r \in w.rows : r[1] = t)[2]
        ELSE IF t \in w.unrow THEN None ELSE trashRows[t]]

Durable(w) == journal' = Journal(w) /\ trashRows' = TrashRows(w) /\ writes' = NoWrites

\* Mutant: a path whose row is open is observed as it is.
ObservedAnyway == Held(disk)

\* What an observation says of the path: a path whose row is open is Skipped,
\* which changes nothing.
Observed == IF open = NoRow THEN Held(disk) ELSE record

-----------------------------------------------------------------------------
(* The user, and the fetches.                                                 *)

\* What the user takes away is no one's to keep, and what is aside while he
\* changes the path went with what he did.
Taken(d, spot) == [d EXCEPT !.at[spot] = None, !.owed = @ \ {d.at[spot]}]

Edit(spot, made) ==
    /\ tally.edits < MaxEdits
    /\ LET t == [tally EXCEPT !.edits = @ + 1, !.files = @ + made,
                             !.strays = IF made = 1 /\ spot \in Trash
                                        THEN @ \cup {tally.files + 1} ELSE @] IN
       tally' = IF spot = "path" THEN Excuse(t, {disk.at[s] : s \in Kept}) ELSE t

Made(d, spot) ==
    LET f == tally.files + 1 IN
    [d EXCEPT !.at[spot] = f, !.owed = @ \cup {f}]

UserWrites(spot) ==
    /\ tally.files < MaxFiles
    /\ Edit(spot, 1)
    /\ Reached(disk, spot)
    /\ Settles(Made(Taken(disk, spot), spot))
    /\ UNCHANGED <<store, open, mode, pc, op, writes>>

UserRemoves(spot) ==
    /\ Edit(spot, 0)
    /\ disk.at[spot] # None
    /\ Settles(Taken(disk, spot))
    /\ UNCHANGED <<store, open, mode, pc, op, writes>>

\* The directory the path is in goes, with what is in it, or comes.
UserMovesParent ==
    /\ Edit("path", 0)
    /\ Settles([Taken(disk, "path") EXCEPT !.parent = ~@])
    /\ UNCHANGED <<store, open, mode, pc, op, writes>>

\* A temp file is named as no other was, so not as one a row names.
Fetch(temp) ==
    /\ mode = "up" /\ pc = "idle"
    /\ disk.at[temp] = None /\ temp \notin {journal.temp, open.temp}
    /\ tally.files < MaxFiles /\ Count("files")
    /\ Do([disk EXCEPT !.at[temp] = tally.files + 1])
    /\ UNCHANGED <<store, open, mode, pc, op, writes>>

-----------------------------------------------------------------------------
(* A commit, from the action to its report.                                   *)

At(step) == mode = "up" /\ pc = step

\* Commit::run: the engine expects what it has recorded.
Begin(kind, temp, displace) ==
    /\ At("idle")
    /\ kind = "write" => disk.at[temp] # None
    /\ op' = [NoOp EXCEPT !.kind = kind, !.temp = temp, !.displace = displace,
                          !.expected = record]
    /\ pc' = "resolving"
    /\ DiskStays
    /\ UNCHANGED <<store, open, mode, writes, tally>>

\* Commit::resolve, which the host calls before each scan.
BeginResolve ==
    /\ At("idle") /\ open # NoRow
    /\ op' = [NoOp EXCEPT !.kind = "resolve"]
    /\ pc' = "resolving"
    /\ DiskStays
    /\ UNCHANGED <<store, open, mode, writes, tally>>

Next1 == IF op.kind = "resolve" THEN "idle" ELSE "looking"

\* resolve_one.  A temp file that is gone says that the rename in happened.
ToGoBack == open.kind = "displaced" /\ disk.at[open.temp] # None
ToSync   == open # NoRow /\ ~ToGoBack

NotOpen ==
    /\ At("resolving") /\ open = NoRow
    /\ pc' = Next1
    /\ DiskStays
    /\ UNCHANGED <<store, open, mode, op, writes, tally>>

Resolved(w) ==
    /\ open' = NoRow /\ writes' = w
    /\ pc' = "recording"
    /\ UNCHANGED <<store, mode, op>>

ResolveBack ==
    /\ At("resolving") /\ ToGoBack
    /\ CanRename(disk, open.to, "path")
    /\ Do(Rename(disk, open.to, "path"))
    /\ tally' = CameBack(tally, disk.at[open.to])
    /\ Resolved(Writes(TRUE, {open.to}))

\* Mutant: a row whose path was taken waits for the path to be free.
ResolveWaits ==
    /\ At("resolving") /\ ToGoBack
    /\ ~CanRename(disk, open.to, "path")
    /\ pc' = "idle"
    /\ DiskStays
    /\ UNCHANGED <<store, open, mode, op, writes, tally>>

ResolveLeave ==
    /\ At("resolving") /\ ToGoBack
    /\ ~CanRename(disk, open.to, "path")
    /\ DiskStays
    /\ tally' = Excuse(tally, {disk.at[open.to]})
    /\ Resolved(Writes(TRUE, {}))

ResolveSync ==
    /\ At("resolving") /\ ToSync
    /\ Fsync
    /\ Resolved(Writes(TRUE, {}))
    /\ UNCHANGED tally

\* A displaced file that cannot go back stops the commit, blind; directories
\* that cannot be synced do not.
ResolveFails ==
    /\ At("resolving") /\ open # NoRow
    /\ Fault
    /\ open' = IF ToSync THEN [open EXCEPT !.kind = "unsynced"] ELSE open
    /\ \/ ToSync /\ pc' = Next1 /\ UNCHANGED op
       \/ ToGoBack /\ op.kind = "resolve" /\ pc' = "idle" /\ UNCHANGED op
       \/ /\ ToGoBack /\ op.kind # "resolve"
          /\ pc' = "reporting" /\ op' = [op EXCEPT !.result = "blind"]
    /\ DiskStays
    /\ UNCHANGED <<store, mode, writes>>

\* The rows a resolve changes are durable at once.
ResolveRecorded ==
    /\ At("recording")
    /\ Durable(writes)
    /\ pc' = Next1
    /\ DiskStays
    /\ UNCHANGED <<record, open, mode, op, tally>>

\* To the report, with the changes to the rows that go with it.
Ends(result, w) ==
    /\ pc' = "reporting"
    /\ op' = [op EXCEPT !.result = result]
    /\ writes' = w

\* look, guard and free, then make_parents.
Guard ==
    LET free == op.displace = "copy" => disk.at["copy"] = None
        goes == Held(disk) = op.expected /\ (op.kind = "write" => free)
    IN
    /\ At("looking")
    /\ IF ~goes
       THEN Ends("changed", NoWrites) /\ DiskStays
       ELSE IF op.kind = "remove" /\ Held(disk) = None
       THEN Ends("applied", NoWrites) /\ DiskStays
       ELSE /\ pc' = IF Held(disk) = None THEN "placing" ELSE "guarded"
            /\ op' = [op EXCEPT !.created = op.kind = "write" /\ ~disk.parent]
            /\ IF op'.created THEN Do([disk EXCEPT !.parent = TRUE]) ELSE DiskStays
            /\ UNCHANGED writes
    /\ UNCHANGED <<store, open, mode, tally>>

\* Where what is at the path may go: move_in takes a place that is free, and
\* which one makes no difference.
Free   == {t \in Trash : disk.at[t] = None}
Places == IF op.displace = "copy" THEN {"copy"}
          ELSE IF Free = {} THEN {} ELSE {CHOOSE t \in Free : TRUE}

\* displace: the row is durable before the rename; a place that was taken
\* loses the row it got.
Journalled ==
    /\ At("guarded") /\ op.kind = "write"
    /\ \E to \in Places :
        /\ op' = [op EXCEPT !.to = to]
        /\ journal' = Row("displaced", to, op.temp)
        /\ trashRows' = [t \in Trash |-> IF t = to THEN op.expected
                                        ELSE IF t = op.to THEN None ELSE trashRows[t]]
    /\ pc' = "journalled"
    /\ DiskStays
    /\ UNCHANGED <<record, open, mode, writes, tally>>

NoPlace ==
    /\ At("guarded") /\ Places = {}
    /\ Ends("failed", Writes(op.to # "none", {op.to}))
    /\ DiskStays
    /\ UNCHANGED <<store, open, mode, tally>>

\* What a failure leaves of the temp file: a fetched one stays for the next
\* attempt; what the commit made for itself (a directory, a symlink) goes.
Discarded(d) == {d, Clear(d, op.temp)}

\* undo_parents
Undone(d) == IF op.created /\ Held(d) = None THEN [d EXCEPT !.parent = FALSE] ELSE d

Displaced ==
    /\ At("journalled")
    /\ CanRename(disk, "path", op.to)
    /\ Do(Rename(disk, "path", op.to))
    /\ pc' = "placing"
    /\ UNCHANGED <<store, open, mode, op, writes, tally>>

PlaceTaken ==
    /\ At("journalled") /\ op.to \in Trash
    /\ disk.at[op.to] # None
    /\ pc' = "guarded"
    /\ DiskStays
    /\ UNCHANGED <<store, open, mode, op, writes, tally>>

NotDisplaced ==
    /\ At("journalled")
    /\ \/ Fault
       \/ Held(disk) = None /\ UNCHANGED tally
       \/ op.to = "copy" /\ disk.at["copy"] # None /\ UNCHANGED tally
    /\ \E d \in Discarded(disk) : Do(d)
    /\ Ends("changed", Writes(TRUE, {op.to}))
    /\ UNCHANGED <<store, open, mode>>

\* The rename in.  From here on what it displaced is the older version.
Placed ==
    /\ At("placing") /\ op.kind = "write"
    /\ CanRename(disk, op.temp, "path")
    /\ Do([Rename(disk, op.temp, "path") EXCEPT
               !.owed = @ \cup {disk.at[op.temp]},
               !.superseded = @ \cup {disk.at[s] : s \in Kept \cap {op.to}}])
    /\ op' = [op EXCEPT !.expected = disk.at[op.temp]]
    /\ pc' = "landed"
    /\ UNCHANGED <<store, open, mode, writes, tally>>

NotPlaced ==
    /\ At("placing") /\ op.kind = "write"
    /\ \/ Fault
       \/ (Held(disk) # None \/ ~disk.parent) /\ UNCHANGED tally
    /\ IF op.to = "none"
       THEN (\E d \in Discarded(disk) : Do(Undone(d))) /\ Ends("changed", NoWrites)
       ELSE pc' = "undoing" /\ DiskStays /\ UNCHANGED <<op, writes>>
    /\ UNCHANGED <<store, open, mode>>

\* put_back
PutBack ==
    /\ At("undoing")
    /\ CanRename(disk, op.to, "path")
    /\ \E d \in Discarded(Rename(disk, op.to, "path")) : Do(d)
    /\ tally' = CameBack(tally, disk.at[op.to])
    /\ Ends("failed", Writes(TRUE, {op.to}))
    /\ UNCHANGED <<store, open, mode>>

\* Mutant: a file that stays in the trash loses its row there.
LeftAsideUnrowed ==
    /\ At("undoing")
    /\ Held(disk) # None
    /\ \E d \in Discarded(disk) : Do(d)
    /\ Ends("failed", Writes(TRUE, {op.to}))
    /\ tally' = Excuse(tally, {disk.at[op.to]})
    /\ UNCHANGED <<store, open, mode>>

LeftAside ==
    /\ At("undoing")
    /\ Held(disk) # None
    /\ \E d \in Discarded(disk) : Do(d)
    /\ Ends("failed", Writes(TRUE, {}))
    /\ tally' = Excuse(tally, {disk.at[op.to]})
    /\ UNCHANGED <<store, open, mode>>

\* Mutant: only the next start knows of a file that could not be put back.
StrandedUnopened ==
    /\ At("undoing")
    /\ \/ Fault
       \/ (~disk.parent \/ disk.at[op.to] = None) /\ UNCHANGED tally
    /\ Ends("blind", NoWrites)
    /\ DiskStays
    /\ UNCHANGED <<store, open, mode>>

Stranded ==
    /\ At("undoing")
    /\ \/ Fault
       \/ (~disk.parent \/ disk.at[op.to] = None) /\ UNCHANGED tally
    /\ open' = Row("displaced", op.to, op.temp)
    /\ Ends("blind", NoWrites)
    /\ DiskStays
    /\ UNCHANGED <<store, mode>>

\* Step 9.  The row goes once the rename is durable, and stays open if that is
\* not known.
Synced ==
    /\ At("landed")
    /\ Fsync
    /\ Ends("applied", [writes EXCEPT !.gone = op.kind = "write" /\ op.to # "none"])
    /\ UNCHANGED <<store, open, mode, tally>>

\* Mutant: a row is kept open for a commit that had none.
NotSyncedOpen ==
    /\ At("landed")
    /\ Fault
    /\ open' = Row("unsynced", op.to, op.temp)
    /\ Ends("applied", writes)
    /\ DiskStays
    /\ UNCHANGED <<store, mode>>

NotSynced ==
    /\ At("landed")
    /\ Fault
    /\ open' = IF op.kind = "write" /\ op.to # "none"
               THEN Row("unsynced", op.to, op.temp) ELSE open
    /\ Ends("applied", writes)
    /\ DiskStays
    /\ UNCHANGED <<store, mode>>

\* remove and move_to_trash: one rename, with no row of the journal.
Removed ==
    /\ At("guarded") /\ op.kind = "remove"
    /\ \E to \in Places :
        /\ CanRename(disk, "path", to)
        /\ Do([Rename(disk, "path", to) EXCEPT !.superseded = @ \cup {Held(disk)}])
        /\ writes' = [NoWrites EXCEPT !.rows = {r \in {<<to, op.expected>>} : to \in Trash}]
    /\ op' = [op EXCEPT !.expected = None]
    /\ pc' = "landed"
    /\ UNCHANGED <<store, open, mode, tally>>

NotRemoved ==
    /\ At("guarded") /\ op.kind = "remove"
    /\ \/ Fault
       \/ Held(disk) = None /\ UNCHANGED tally
       \/ op.displace = "copy" /\ disk.at["copy"] # None /\ UNCHANGED tally
    /\ Ends("changed", NoWrites)
    /\ DiskStays
    /\ UNCHANGED <<store, open, mode>>

\* The report's group, with the commit's changes to the rows: the index adopts
\* what landed, or what the host found after a failure, unless it was blind.
Report ==
    /\ At("reporting")
    /\ open' = IF writes.gone THEN NoRow ELSE open
    /\ record' = IF op.result = "applied" THEN op.expected
                 ELSE IF op.result = "blind" \/ open' # NoRow THEN record
                 ELSE Held(disk)
    /\ Durable(writes)
    /\ pc' = "idle" /\ op' = NoOp
    /\ DiskStays
    /\ UNCHANGED <<mode, tally>>

\* What a scan or an observation says; one while a commit is at the path is
\* not taken.
Observe ==
    /\ At("idle")
    /\ record' = Observed
    /\ record' # record
    /\ DiskStays
    /\ UNCHANGED <<journal, trashRows, open, mode, pc, op, writes, tally>>

-----------------------------------------------------------------------------
(* Crashes and starts.                                                        *)

Down ==
    /\ mode' = "down" /\ pc' = "idle" /\ op' = NoOp
    /\ open' = NoRow /\ writes' = NoWrites
    /\ UNCHANGED store

Crash ==
    /\ mode # "down"
    /\ tally.crashes < MaxCrashes /\ Count("crashes")
    /\ DiskStays
    /\ Down

PowerLoss ==
    /\ tally.crashes < MaxCrashes
    /\ disk' \in past
    /\ tally' = [tally EXCEPT !.crashes = @ + 1,
                  !.undone = @ \cup ({Held(disk)} \ {Held(disk')})
                                 \cup (IF \E b \in tally.back, d \in past : Held(d) # b
                                       THEN Files ELSE {})]
    /\ past' = {}
    /\ Down

\* undo, then what Start::run does next.
Undo(w, row) ==
    /\ mode' = "undone"
    /\ writes' = w
    /\ open' = row
    /\ UNCHANGED <<store, pc, op>>

ToUndo == mode = "down" /\ journal # NoRow /\ disk.at[journal.to] # None

NothingToUndo ==
    /\ mode = "down" /\ ~ToUndo
    /\ Undo(Writes(journal # NoRow, {journal.to}), NoRow)
    /\ DiskStays
    /\ UNCHANGED tally

\* Mutant: every row is undone, whether or not its rename happened.
UndoAlways ==
    /\ ToUndo
    /\ CanRename(disk, journal.to, "path")
    /\ LET d == Rename(disk, journal.to, "path") IN
       /\ disk' = d /\ past' = {} /\ tally' = CameBack(tally, Held(d))
    /\ Undo(Writes(TRUE, {journal.to}), NoRow)

UndoBack ==
    /\ ToUndo /\ disk.at[journal.temp] # None
    /\ CanRename(disk, journal.to, "path")
    /\ LET d == Rename(disk, journal.to, "path") IN
       \/ disk' = d /\ past' = {} /\ tally' = CameBack(tally, Held(d))
       \/ /\ Do(d) /\ tally.faults < MaxFaults
          /\ tally' = CameBack([tally EXCEPT !.faults = @ + 1], Held(d))
    /\ Undo(Writes(TRUE, {journal.to}), NoRow)

UndoLeft ==
    /\ ToUndo /\ disk.at[journal.temp] # None
    /\ ~CanRename(disk, journal.to, "path")
    /\ DiskStays
    /\ tally' = Excuse(tally, {disk.at[journal.to]})
    /\ Undo(Writes(TRUE, {}), NoRow)

UndoLanded ==
    /\ ToUndo /\ disk.at[journal.temp] = None
    /\ Fsync
    /\ Undo(Writes(TRUE, {}), NoRow)
    /\ UNCHANGED tally

UndoFails ==
    /\ ToUndo
    /\ Fault
    /\ Undo(NoWrites, [journal EXCEPT !.kind = IF disk.at[journal.temp] = None
                                               THEN "unsynced" ELSE "displaced"])
    /\ DiskStays

\* trash::reconcile, trash::prune of what is old or too much, and
\* tmp::remove_unclaimed, which keeps the temp files that are claimed and the
\* one an open row names.
Tidy(claimed, old) ==
    LET kept   == claimed \cup {open.temp}
        rows   == TrashRows(writes)
        stale  == {t \in Trash : rows[t] # None /\ disk.at[t] = None}
        adopts == {t \in Trash : rows[t] = None /\ disk.at[t] # None}
    IN
    /\ mode = "undone"
    /\ old \subseteq {t \in Trash : disk.at[t] # None}
    /\ mode' = "tidied"
    /\ LET d == [disk EXCEPT
                    !.at = [s \in Spots |->
                        IF s \in old \cup (Temps \ kept) THEN None ELSE disk.at[s]],
                    !.owed = @ \ {disk.at[t] : t \in old}]
       IN IF old = {} THEN Do(d) ELSE Settles(d)
    /\ writes' = [writes EXCEPT !.unrow = @ \cup stale \cup old,
                               !.rows = {<<t, disk.at[t]>> : t \in adopts \ old}]
    /\ UNCHANGED <<store, open, pc, op, tally>>

\* The start's changes are durable before the first scan.
Up ==
    /\ mode = "tidied"
    /\ mode' = "up"
    /\ Durable(writes)
    /\ DiskStays
    /\ UNCHANGED <<record, open, pc, op, tally>>

-----------------------------------------------------------------------------
Init ==
    /\ disk = [at |-> [s \in Spots |-> IF s = "path" THEN 1 ELSE None], parent |-> TRUE,
               owed |-> {1}, superseded |-> {}]
    /\ past = {}
    /\ journal = NoRow /\ trashRows = [t \in Trash |-> None] /\ record = 1
    /\ open = NoRow /\ mode = "up" /\ pc = "idle" /\ op = NoOp /\ writes = NoWrites
    /\ tally = [files |-> 1, edits |-> 0, faults |-> 0, crashes |-> 0,
                back |-> {}, excused |-> {}, undone |-> {}, strays |-> {}]

User    == (\E s \in Kept : UserWrites(s) \/ UserRemoves(s)) \/ UserMovesParent
Asked   == \E d \in {"trash", "copy"} :
               (\E t \in Temps : Begin("write", t, d)) \/ Begin("remove", "none", d)
Resolve == NotOpen \/ ResolveBack \/ ResolveLeave \/ ResolveSync \/ ResolveFails
               \/ ResolveRecorded
Write   == Journalled \/ NoPlace \/ Displaced \/ PlaceTaken \/ NotDisplaced \/ Placed
               \/ NotPlaced \/ PutBack \/ LeftAside \/ Stranded \/ Synced \/ NotSynced
Steps   == Resolve \/ Guard \/ Write \/ Removed \/ NotRemoved \/ Report
Start   == NothingToUndo \/ UndoBack \/ UndoLeft \/ UndoLanded \/ UndoFails
               \/ Up
               \/ (\E claimed \in SUBSET Temps, old \in SUBSET Trash : Tidy(claimed, old))

Next == User \/ (\E t \in Temps : Fetch(t)) \/ Asked \/ BeginResolve \/ Steps \/ Observe
            \/ Crash \/ PowerLoss \/ Start

Spec == Init /\ [][Next]_vars

\* The executor goes on with what it is at, a daemon that is down is started,
\* and before each scan, which the timer brings, the open rows are resolved.
FairSpec == Spec /\ WF_vars(Steps) /\ WF_vars(Start) /\ WF_vars(BeginResolve)

-----------------------------------------------------------------------------
(* Properties.                                                                *)

Maybe(S) == S \cup {None}

TypeOK ==
    /\ disk \in [at : [Spots -> Maybe(Files)], parent : BOOLEAN, owed : SUBSET Files,
                 superseded : SUBSET Maybe(Files)]
    /\ journal \in Rows /\ open \in Rows
    /\ trashRows \in [Trash -> Maybe(Files)] /\ record \in Maybe(Files)
    /\ mode \in {"down", "undone", "tidied", "up"}
    /\ pc \in {"idle", "resolving", "recording", "looking", "guarded", "journalled",
              "placing", "undoing", "landed", "reporting"}
    /\ op.kind \in {"none", "write", "remove", "resolve"}
    /\ writes.rows \subseteq Trash \X Files /\ writes.unrow \subseteq Trash

\* No file the user made or a commit placed is lost: it is at the path, at a
\* conflict-copy path or in the trash, whatever fails, until the user takes it
\* or a start prunes it from the trash.
FilesKept == \A f \in disk.owed : \E s \in Kept : disk.at[s] = f

\* While the daemon runs and is at no commit, a row of the journal is open in
\* memory too, so that no scan takes what its path holds for the user's doing.
OpenRowsKnown ==
    mode = "up" /\ pc = "idle" /\ journal # NoRow =>
        open # NoRow /\ open.to = journal.to

\* What commits moved to the trash has a row there, by which it is listed and
\* pruned, once the commit is reported or the start is done.
TrashAccounted ==
    mode = "up" /\ pc = "idle" =>
        \A t \in Trash : disk.at[t] \notin tally.strays \cup {None} => trashRows[t] # None

\* The user's own doing (the file is gone, or went aside for what he put at the
\* path or took from it), or a commit replaced it.
Excused(f) == f \notin disk.owed \/ f \in tally.excused \cup disk.superseded

Absent == record # None /\ record' = None /\ op.result # "applied"

\* No observation says that the path is empty when it is the host that emptied
\* it.  A power loss may take back a rename that was never known durable.
NoPhantomDeletion == [][Absent => Excused(record) \/ record \in tally.undone]_vars

\* A file that a commit displaced and put back is not taken for deleted.
PutBackStays == [][Absent /\ record \in tally.back => Excused(record)]_vars

\* What a commit that landed replaced does not come back to the path.
NoResurrection ==
    [][Held(disk') \in disk.superseded \ {None} =>
           Held(disk') = Held(disk) \/ tally'.crashes # tally.crashes]_vars

\* A row of the journal does not stay: a start or a resolve undoes its commit
\* or finds that it landed.
RowsClose == journal # NoRow ~> journal = NoRow

=============================================================================
