---------------------------- MODULE RecoveryProofs ----------------------------
(* More proofs about Commit: what commits and starts tell the index of a path *)
(* and the trash of its files.  A file that the host moved aside is not taken *)
(* for one that the user deleted, what a commit replaced does not come back,  *)
(* and what is in the trash is listed there.                                  *)
(*                                                                            *)
(* A power loss takes the disk back to what it was at some moment since the   *)
(* last fsync, so what is said of the disk is said of each of those too.      *)
EXTENDS CommitProofs

Each == past \cup {disk}

\* Files are numbered as they come to be.
Numbered ==
    /\ \A d \in Each : /\ \A s \in Spots : d.at[s] \in 0..tally.files
                       /\ d.owed \subseteq 1..tally.files
                       /\ d.superseded \subseteq 0..tally.files

\* So are those that the index and the commit know of.
KnownNumbered == record \in 0..tally.files /\ op.expected \in 0..tally.files

\* A file is at one place.
Apart == \A d \in Each : \A r, s \in Spots : d.at[r] = d.at[s] /\ d.at[r] # None => r = s

\* A temp file is one that nobody may claim yet.
TempsOwn ==
    \A d \in Each : \A t \in Temps :
        /\ d.at[t] \notin d.owed /\ disk.at[t] \notin d.owed
        /\ d.at[t] \notin d.superseded \ {None}

\* What is replaced stays so, and where it is, until the user or a start takes
\* it away.
Replaced ==
    \A d \in Each :
        /\ Held(d) \notin d.superseded \ {None}
        /\ d.superseded \subseteq disk.superseded
        /\ \A s \in Asides : d.at[s] \in d.superseded \ {None} => disk.at[s] = d.at[s]

\* What a row of the journal has back at its path was not replaced.
RowLive ==
    \A d \in Each :
        journal # NoRow /\ d.at[journal.temp] # None
            => d.at[journal.to] \notin d.superseded \ {None}

Before  == {"resolving", "recording", "looking"}
Guarded == {"guarded", "journalled"}

\* When there are changes to the rows that wait to be made durable.
Pending ==
    /\ mode = "up" /\ pc \in {"idle", "resolving", "looking", "placing", "undoing"} \cup Guarded
           => writes = NoWrites
    /\ mode = "down" => writes = NoWrites
    /\ mode = "undone" => writes.rows = {}
    /\ pc = "landed" => writes.gone = FALSE /\ writes.unrow = {}
    /\ pc = "landed" /\ op.kind = "write" => writes.rows = {}

\* The temp file says whether the rename in has happened.
TempTells ==
    /\ pc \in Before \cup Guarded \cup {"placing", "undoing"} /\ op.kind = "write"
           => disk.at[op.temp] # None
    /\ pc = "landed" /\ op.kind = "write" => disk.at[op.temp] = None
    /\ open.kind = "unsynced" => disk.at[open.temp] = None
    /\ pc \in {"looking"} \cup Moves => open.kind # "displaced"

\* A commit expects what is recorded, and what it displaces goes where that is
\* not.
Aims ==
    /\ pc \in Before /\ op.kind # "resolve" => op.expected = record
    /\ pc \in Guarded => record # None /\ \A s \in Asides : disk.at[s] # record
    /\ pc = "placing" /\ op.to = "none" => record = None
    /\ pc \in Guarded /\ op.kind = "write" /\ op.displace = "copy"
           => disk.at["copy"] \notin disk.superseded \ {None}

Reports == op.result = "applied" => pc = "reporting"

Control == Pending /\ TempTells /\ Aims /\ Reports

\* What is in the trash has a row there, or one that is to be made durable.
Listed ==
    \A t \in Trash : disk.at[t] \notin tally.strays \cup {None} => TrashRows(writes)[t] # None

TrashKnown ==
    /\ mode \in {"tidied", "up"} => Listed
    /\ pc \in Guarded /\ op.to \in Trash => disk.at[op.to] \in tally.strays \cup {None}
    /\ pc = "journalled" /\ op.to \in Trash => trashRows[op.to] # None

\* The files that are, or may come to be, what the index says the path holds.
Claimed ==
    ({record, Held(disk)}
        \cup (IF pc = "landed" \/ op.result = "applied" THEN {op.expected} ELSE {})) \ {None}

\* Who asks for the file f may be told that it was deleted.
Settled(d, f) == f \notin d.owed \/ f \in d.superseded \cup tally.excused \cup tally.undone

\* The journal has f back at the path, once the changes to its rows are made.
Aside(d, f) ==
    Journal(writes) # NoRow /\ d.at[journal.to] = f /\ d.at[journal.temp] # None

\* A file that is claimed is where it is claimed to be, or the journal has it
\* back there; and a power loss that takes it from there is noted.
Explained ==
    \A f \in Claimed :
        /\ Settled(disk, f) \/ Held(disk) = f \/ Aside(disk, f)
        /\ \A d \in past : \/ Settled(d, f) \/ Held(d) = f \/ f \in tally.back
                           \/ Aside(d, f) /\ disk.at[journal.to] = f

Sound == Numbered /\ Apart /\ TempsOwn /\ Replaced

Accounts == Sound /\ KnownNumbered /\ RowLive /\ Control /\ TrashKnown /\ Explained

-----------------------------------------------------------------------------
(* The ways in which a step changes the disk.                                 *)

PastGrows == past' \subseteq past \cup {disk}
SameFiles == tally'.files = tally.files

\* Nothing moves: places other than the path are emptied.
Clears(C) ==
    /\ C \in SUBSET (Spots \ {"path"})
    /\ disk'.at = [s \in Spots |-> IF s \in C THEN None ELSE disk.at[s]]
    /\ disk'.owed \subseteq disk.owed /\ disk'.superseded = disk.superseded
    /\ PastGrows /\ SameFiles
    /\ C \cap Kept # {} => past' = {}

\* What was displaced comes back to the path.
Returns(from) ==
    /\ from \in Asides /\ Held(disk) = None
    /\ disk.at[from] # None /\ disk.at[from] \notin disk.superseded
    /\ \E C \in SUBSET Temps :
           disk'.at = [s \in Spots |-> IF s = "path" THEN disk.at[from]
                                       ELSE IF s \in C \cup {from} THEN None ELSE disk.at[s]]
    /\ disk'.owed = disk.owed /\ disk'.superseded = disk.superseded
    /\ PastGrows /\ SameFiles

GoesAside(to) ==
    /\ to \in Asides /\ disk.at[to] = None /\ Held(disk) # None
    /\ disk'.at = [s \in Spots |-> IF s = to THEN Held(disk)
                                   ELSE IF s = "path" THEN None ELSE disk.at[s]]
    /\ disk'.owed = disk.owed
    /\ disk'.superseded = disk.superseded \/ disk'.superseded = disk.superseded \cup {Held(disk)}
    /\ PastGrows /\ SameFiles

Lands(temp) ==
    /\ temp \in Temps /\ disk.at[temp] # None /\ Held(disk) = None
    /\ disk'.at = [s \in Spots |-> IF s = "path" THEN disk.at[temp]
                                   ELSE IF s = temp THEN None ELSE disk.at[s]]
    /\ disk'.owed = disk.owed \cup {disk.at[temp]}
    /\ \E R \in SUBSET {disk.at[s] : s \in Asides} : disk'.superseded = disk.superseded \cup R
    /\ PastGrows /\ SameFiles

\* The user takes what is at a spot, and may make a file there.
UserAt(spot, made) ==
    /\ spot \in Kept /\ made \in {0, 1}
    /\ disk'.at = [s \in Spots |-> IF s # spot THEN disk.at[s]
                                   ELSE IF made = 1 THEN tally.files + 1 ELSE None]
    /\ disk'.owed = (disk.owed \ {disk.at[spot]})
                        \cup (IF made = 1 THEN {tally.files + 1} ELSE {})
    /\ disk'.superseded = disk.superseded
    /\ past' = {} /\ tally'.files = tally.files + made

Comes(temp) ==
    /\ temp \in Temps
    /\ disk'.at = [s \in Spots |-> IF s = temp THEN tally.files + 1 ELSE disk.at[s]]
    /\ disk'.owed = disk.owed /\ disk'.superseded = disk.superseded
    /\ PastGrows /\ tally'.files = tally.files + 1

TakenBack == disk' \in past /\ past' = {} /\ SameFiles /\ tally'.crashes # tally.crashes

DiskStep ==
    \/ \E C \in SUBSET Spots : Clears(C)
    \/ \E s \in Asides : \/ Returns(s)
                         \/ GoesAside(s) /\ (Removed \/ disk'.superseded = disk.superseded)
    \/ \E t \in Temps : \/ Lands(t) /\ Placed /\ t = op.temp
                        \/ Comes(t) /\ Fetch(t)
    \/ \E s \in Kept : UserAt(s, 0) \/ UserAt(s, 1)
    \/ TakenBack

-----------------------------------------------------------------------------
(* What is counted.                                                           *)

LEMMA CameBackSays ==
  ASSUME NEW t \in Tallies, NEW f
  PROVE  LET u == CameBack(t, f) IN
         /\ u.files = t.files /\ u.strays = t.strays /\ u.undone = t.undone
         /\ u.crashes = t.crashes
         /\ u.back = t.back \cup {f} /\ u.excused = t.excused \ {f}
  BY DEF CameBack, Tallies

LEMMA ExcuseSays ==
  ASSUME NEW t \in Tallies, NEW fs
  PROVE  LET u == Excuse(t, fs) IN
         /\ u.files = t.files /\ u.strays = t.strays /\ u.undone = t.undone
         /\ u.crashes = t.crashes
         /\ u.back = t.back \ fs /\ u.excused = t.excused \cup fs
  BY DEF Excuse, Tallies

\* A failure is counted, and nothing else.
LEMMA FaultSays ==
  ASSUME tally \in Tallies, Fault \/ UNCHANGED tally
  PROVE  /\ tally'.files = tally.files /\ tally'.strays = tally.strays
         /\ tally'.undone = tally.undone /\ tally'.back = tally.back
         /\ tally'.excused = tally.excused /\ tally'.crashes = tally.crashes
  BY DEF Fault, Count, Tallies

LEMMA EditSays ==
  ASSUME tally \in Tallies, NEW spot \in Kept, NEW made \in {0, 1}, Edit(spot, made)
  PROVE  /\ tally'.files = tally.files + made /\ tally'.undone = tally.undone
         /\ tally.strays \subseteq tally'.strays
         /\ made = 1 /\ spot \in Trash => tally.files + 1 \in tally'.strays
         /\ tally'.crashes = tally.crashes
         /\ IF spot = "path"
            THEN /\ tally'.excused = tally.excused \cup {disk.at[s] : s \in Kept}
                 /\ tally'.back = tally.back \ {disk.at[s] : s \in Kept}
            ELSE tally'.excused = tally.excused /\ tally'.back = tally.back
<1> DEFINE t == [tally EXCEPT !.edits = @ + 1, !.files = @ + made,
                             !.strays = IF made = 1 /\ spot \in Trash
                                        THEN @ \cup {tally.files + 1} ELSE @]
<1>1. /\ t.files = tally.files + made /\ t.undone = tally.undone /\ t.crashes = tally.crashes
      /\ t.excused = tally.excused /\ t.back = tally.back
      /\ t.strays = IF made = 1 /\ spot \in Trash
                    THEN tally.strays \cup {tally.files + 1} ELSE tally.strays
  BY DEF Tallies
<1>2. tally' = IF spot = "path" THEN Excuse(t, {disk.at[s] : s \in Kept}) ELSE t
  BY DEF Edit
<1>3. DOMAIN t = DOMAIN tally
  OBVIOUS
<1>4. CASE spot # "path"
  BY <1>1, <1>2, <1>4
<1>5. CASE spot = "path"
  <2> DEFINE fs == {disk.at[s] : s \in Kept}
  <2>1. tally' = Excuse(t, fs)
    BY <1>2, <1>5
  <2>2. DOMAIN t = {"files", "edits", "faults", "crashes", "back", "excused", "undone", "strays"}
    BY DEF Tallies
  <2>3. /\ tally'.files = t.files /\ tally'.strays = t.strays /\ tally'.undone = t.undone
        /\ tally'.crashes = t.crashes
        /\ tally'.back = t.back \ fs /\ tally'.excused = t.excused \cup fs
    <3> HIDE DEF t, fs
    <3> QED
      BY <2>1, <2>2 DEF Excuse
  <2> QED
    BY <1>1, <1>5, <2>3
<1> QED
  BY <1>4, <1>5

-----------------------------------------------------------------------------
(* Every step changes the disk in one of those ways.                          *)

\* Nothing but the directories above the path, if those.
LEMMA StaysClears ==
  ASSUME disk \in Disks, SameFiles, PastGrows, disk' = disk \/ \E p : disk' = [disk EXCEPT !.parent = p]
  PROVE  DiskStep
<1>1. disk'.at = [s \in Spots |-> IF s \in {} THEN None ELSE disk.at[s]]
  BY DEF Disks
<1>2. disk'.owed = disk.owed /\ disk'.superseded = disk.superseded
  BY DEF Disks
<1>3. Clears({})
  BY <1>1, <1>2 DEF Clears
<1> QED
  BY <1>3 DEF DiskStep

\* A temp file that is cleared, with the directories a commit made.
LEMMA DiscardClears ==
  ASSUME disk \in Disks, SameFiles, PastGrows, op.temp \in Temps \cup {"none"},
         NEW d \in Discarded(disk), disk' = d \/ disk' = Undone(d)
  PROVE  DiskStep
<1> DEFINE C == {op.temp} \cap Temps
<1>1. d = disk \/ d = Clear(disk, op.temp)
  BY DEF Discarded
<1>2. PICK K \in {{}, C} : /\ d.at = [s \in Spots |-> IF s \in K THEN None ELSE disk.at[s]]
                           /\ d.owed = disk.owed /\ d.superseded = disk.superseded
                           /\ d \in Disks
  <2>1. CASE d = disk
    BY <2>1 DEF Disks
  <2>2. CASE d = Clear(disk, op.temp) /\ op.temp \in Temps
    <3>1. "none" \notin Temps
      BY BoundsAssumption
    <3> QED
      BY <2>2, <3>1, Spotted DEF Clear, Disks, Maybe
  <2>3. CASE d = Clear(disk, op.temp) /\ op.temp = "none"
    BY <2>3 DEF Clear, Disks
  <2> QED
    BY <1>1, <2>1, <2>2, <2>3
<1>3. disk'.at = d.at /\ disk'.owed = d.owed /\ disk'.superseded = d.superseded
  BY <1>2 DEF Undone, Disks
<1>4. K \cap Kept = {} /\ K \in SUBSET (Spots \ {"path"})
  BY Spotted DEF Kept, Asides
<1>5. Clears(K)
  BY <1>2, <1>3, <1>4 DEF Clears
<1> QED
  BY <1>4, <1>5 DEF DiskStep

\* What comes back was not replaced, as its commit's temp file says.
LEMMA RenameReturns ==
  ASSUME disk \in Disks, SameFiles, PastGrows, NEW from \in Asides,
         CanRename(disk, from, "path"), disk.at[from] \notin disk.superseded \ {None},
         disk' = Rename(disk, from, "path")
             \/ (op.temp \in Temps /\ disk' = Clear(Rename(disk, from, "path"), op.temp))
  PROVE  Returns(from)
<1> DEFINE d == Rename(disk, from, "path")
<1>1. /\ d.at = [s \in Spots |-> IF s = "path" THEN disk.at[from]
                                 ELSE IF s \in {} \cup {from} THEN None ELSE disk.at[s]]
      /\ d.owed = disk.owed /\ d.superseded = disk.superseded
      /\ d \in Disks
  BY Spotted DEF Rename, Disks, Kept, Maybe
<1>2. Held(disk) = None /\ disk.at[from] # None /\ disk.at[from] \notin disk.superseded
  BY DEF CanRename, Held
<1>3. CASE disk' = d
  BY <1>1, <1>2, <1>3 DEF Returns
<1>4. CASE op.temp \in Temps /\ disk' = Clear(d, op.temp)
  <2>1. op.temp # "none"
    BY <1>4, BoundsAssumption
  <2>2. /\ disk'.at = [d.at EXCEPT ![op.temp] = None]
        /\ disk'.owed = d.owed /\ disk'.superseded = d.superseded
    BY <1>1, <1>4, <2>1 DEF Clear, Disks
  <2>3. op.temp \in Spots /\ op.temp # "path"
    BY <1>4, Spotted DEF Kept
  <2>4. disk'.at = [s \in Spots |-> IF s = "path" THEN disk.at[from]
                        ELSE IF s \in {op.temp} \cup {from} THEN None ELSE disk.at[s]]
    BY <1>1, <2>2, <2>3
  <2>5. {op.temp} \in SUBSET Temps
    BY <1>4
  <2>6. \E C \in SUBSET Temps :
           disk'.at = [s \in Spots |-> IF s = "path" THEN disk.at[from]
                                       ELSE IF s \in C \cup {from} THEN None ELSE disk.at[s]]
    BY <2>4, <2>5
  <2> QED
    BY <1>1, <1>2, <2>2, <2>6 DEF Returns
<1> QED
  BY <1>3, <1>4

LEMMA DiskSteps ==
  ASSUME Typed, DisksWhole, RowKnown, RowLive, Control, [Next]_vars
  PROVE  DiskStep
<1> USE DEF At
<1>0. /\ disk \in Disks /\ tally \in Tallies /\ disk \in Each
      /\ \A s \in Spots : disk.at[s] \in Maybe(Files)
      /\ op.temp \in Temps \cup {"none"}
  BY DEF DisksWhole, Whole, Typed, TypeOK, Disks, Commits, Each
<1>1. ASSUME NEW s \in Kept, UserWrites(s)
      PROVE  DiskStep
  <2>1. Edit(s, 1) /\ past' = {} /\ disk' = Made(Taken(disk, s), s)
    BY <1>1 DEF UserWrites, Settles
  <2>2. tally'.files = tally.files + 1
    BY <1>0, <2>1, EditSays
  <2>3. UserAt(s, 1)
    BY <1>0, <2>1, <2>2, Spotted DEF UserAt, Made, Taken, Disks
  <2> QED
    BY <2>3 DEF DiskStep
<1>2. ASSUME NEW s \in Kept, UserRemoves(s)
      PROVE  DiskStep
  <2>1. Edit(s, 0) /\ past' = {} /\ disk' = Taken(disk, s)
    BY <1>2 DEF UserRemoves, Settles
  <2>2. tally'.files = tally.files + 0
    BY <1>0, <2>1, EditSays
  <2>3. UserAt(s, 0)
    BY <1>0, <2>1, <2>2, Spotted DEF UserAt, Taken, Disks
  <2> QED
    BY <2>3 DEF DiskStep
<1>3. CASE UserMovesParent
  <2>1. /\ Edit("path", 0) /\ past' = {} /\ "path" \in Kept
        /\ disk' = [Taken(disk, "path") EXCEPT !.parent = ~@]
    BY <1>3 DEF UserMovesParent, Settles, Kept
  <2>2. tally'.files = tally.files + 0
    BY <1>0, <2>1, EditSays
  <2>3. UserAt("path", 0)
    BY <1>0, <2>1, <2>2, Spotted DEF UserAt, Taken, Disks
  <2> QED
    BY <2>1, <2>3 DEF DiskStep
<1>4. ASSUME NEW t \in Temps, Fetch(t)
      PROVE  DiskStep
  <2>1. disk' = [disk EXCEPT !.at[t] = tally.files + 1] /\ PastGrows /\ t \in Spots
    BY <1>4, Spotted DEF Fetch, Do, PastGrows
  <2>2. tally'.files = tally.files + 1
    BY <1>0, <1>4 DEF Fetch, Count, Tallies
  <2>3. Comes(t)
    BY <1>0, <2>1, <2>2 DEF Comes, Disks
  <2> QED
    BY <1>4, <2>3 DEF DiskStep
<1>5. CASE \/ Asked \/ BeginResolve \/ NotOpen \/ ResolveSync \/ ResolveRecorded \/ Journalled
           \/ NoPlace \/ PlaceTaken \/ Synced \/ Report \/ Observe \/ NothingToUndo
           \/ UndoLanded \/ Up \/ UNCHANGED vars
  <2>1. disk' = disk /\ PastGrows
    BY <1>5
    DEF Asked, Begin, BeginResolve, NotOpen, ResolveSync, ResolveRecorded, Journalled, NoPlace,
        PlaceTaken, Synced, Report, Observe, NothingToUndo, UndoLanded, Up, vars, DiskStays,
        Fsync, PastGrows
  <2>2. SameFiles
    BY <1>5
    DEF Asked, Begin, BeginResolve, NotOpen, ResolveSync, ResolveRecorded, Journalled, NoPlace,
        PlaceTaken, Synced, Report, Observe, NothingToUndo, UndoLanded, Up, vars, SameFiles
  <2> QED
    BY <1>0, <2>1, <2>2, StaysClears
<1>6. CASE \/ ResolveLeave \/ ResolveFails \/ Stranded \/ NotSynced \/ NotRemoved \/ Crash
           \/ UndoLeft \/ UndoFails
  <2>1. disk' = disk /\ PastGrows
    BY <1>6
    DEF ResolveLeave, ResolveFails, Stranded, NotSynced, NotRemoved, Crash, UndoLeft, UndoFails,
        DiskStays, PastGrows
  <2>2. SameFiles
    <3>1. CASE ResolveFails \/ Stranded \/ NotSynced \/ NotRemoved \/ UndoFails
      BY <1>0, <3>1, FaultSays
      DEF ResolveFails, Stranded, NotSynced, NotRemoved, UndoFails, SameFiles
    <3>2. CASE ResolveLeave \/ UndoLeft
      <4>1. PICK spot : tally' = Excuse(tally, {disk.at[spot]})
        BY <3>2 DEF ResolveLeave, UndoLeft
      <4> QED
        BY <1>0, <4>1, ExcuseSays DEF SameFiles
    <3>3. CASE Crash
      BY <1>0, <3>3 DEF Crash, Count, SameFiles, Tallies
    <3> QED
      BY <1>6, <3>1, <3>2, <3>3
  <2> QED
    BY <1>0, <2>1, <2>2, StaysClears
<1>7. CASE ResolveBack
  <2>1. /\ disk' = Rename(disk, open.to, "path") /\ PastGrows /\ CanRename(disk, open.to, "path")
        /\ tally' = CameBack(tally, disk.at[open.to])
        /\ open # NoRow /\ disk.at[open.temp] # None /\ Matches
    BY <1>7, BoundsAssumption DEF ResolveBack, ToGoBack, Do, PastGrows, RowKnown, NoRow
  <2>2. open.to \in Asides
    BY <2>1 DEF Typed, TypeOK, Rows, NoRow, Asides
  <2>3. disk.at[open.to] \notin disk.superseded \ {None}
    BY <1>0, <2>1 DEF Matches, RowLive
  <2>4. SameFiles
    BY <1>0, <2>1, CameBackSays DEF SameFiles
  <2>5. Returns(open.to)
    BY <1>0, <2>1, <2>2, <2>3, <2>4, RenameReturns
  <2> QED
    BY <2>2, <2>5 DEF DiskStep
<1>8. CASE Guard
  <2>1. PastGrows /\ (disk' = disk \/ disk' = [disk EXCEPT !.parent = TRUE])
    BY <1>8 DEF Guard, DiskStays, Do, PastGrows
  <2> QED
    BY <1>0, <1>8, <2>1, StaysClears DEF Guard, SameFiles
<1>9. CASE Displaced
  <2>1. /\ op.to \in Asides /\ CanRename(disk, "path", op.to)
        /\ disk' = Rename(disk, "path", op.to) /\ PastGrows /\ SameFiles
    BY <1>9 DEF Displaced, Typed, Commits, Do, PastGrows, SameFiles
  <2>2. GoesAside(op.to) /\ disk'.superseded = disk.superseded
    BY <1>0, <2>1, Spotted DEF GoesAside, CanRename, Rename, Held, Disks
  <2> QED
    BY <2>1, <2>2 DEF DiskStep
<1>10. CASE NotDisplaced \/ LeftAside
  <2>1. PICK d \in Discarded(disk) : Do(d)
    BY <1>10 DEF NotDisplaced, LeftAside
  <2>2. SameFiles
    <3>1. \/ Fault \/ UNCHANGED tally
          \/ tally' = Excuse(tally, {disk.at[op.to]})
      BY <1>10 DEF NotDisplaced, LeftAside
    <3> QED
      BY <1>0, <3>1, FaultSays, ExcuseSays DEF SameFiles
  <2> QED
    BY <1>0, <2>1, <2>2, DiscardClears DEF Do, PastGrows
<1>11. CASE Placed
  <2> DEFINE e == Rename(disk, op.temp, "path")
  <2>1. /\ op.temp \in Temps /\ CanRename(disk, op.temp, "path")
        /\ disk' = [e EXCEPT !.owed = @ \cup {disk.at[op.temp]},
                             !.superseded = @ \cup {disk.at[s] : s \in Kept \cap {op.to}}]
        /\ PastGrows /\ SameFiles
    BY <1>11 DEF Placed, Typed, Do, PastGrows, SameFiles
  <2>2. op.temp # "path" /\ "path" \in Spots /\ op.temp \in Spots
    BY <2>1, Spotted DEF Kept
  <2>3. /\ e.at = [s \in Spots |-> IF s = "path" THEN disk.at[op.temp]
                                   ELSE IF s = op.temp THEN None ELSE disk.at[s]]
        /\ e.owed = disk.owed /\ e.superseded = disk.superseded
        /\ DOMAIN e = {"at", "parent", "owed", "superseded"}
    BY <1>0, <2>2 DEF Rename, Disks
  <2>4. op.to \in Asides \cup {"none"}
    BY DEF Typed, Commits
  <2>5. {disk.at[s] : s \in Kept \cap {op.to}} \in SUBSET {disk.at[s] : s \in Asides}
    BY <2>4, Spotted
  <2>6. /\ disk'.at = e.at /\ disk'.owed = e.owed \cup {disk.at[op.temp]}
        /\ disk'.superseded = e.superseded \cup {disk.at[s] : s \in Kept \cap {op.to}}
    <3> HIDE DEF e
    <3> QED
      BY <2>1, <2>3
  <2>7. Lands(op.temp)
    BY <2>1, <2>3, <2>5, <2>6 DEF Lands, CanRename, Held
  <2> QED
    BY <1>11, <2>1, <2>7 DEF DiskStep
<1>12. CASE NotPlaced
  <2>1. SameFiles
    BY <1>0, <1>12, FaultSays DEF NotPlaced, SameFiles
  <2>2. CASE op.to = "none"
    <3>1. PICK d \in Discarded(disk) : Do(Undone(d))
      BY <1>12, <2>2 DEF NotPlaced
    <3> QED
      BY <1>0, <2>1, <3>1, DiscardClears DEF Do, PastGrows
  <2>3. CASE op.to # "none"
    BY <1>0, <1>12, <2>1, <2>3, StaysClears DEF NotPlaced, DiskStays, PastGrows
  <2> QED
    BY <2>2, <2>3
<1>13. CASE PutBack
  <2>1. /\ CanRename(disk, op.to, "path") /\ op.to \in Asides /\ op.temp \in Temps
        /\ tally' = CameBack(tally, disk.at[op.to])
        /\ journal # NoRow /\ journal.to = op.to /\ journal.temp = op.temp
        /\ disk.at[op.temp] # None
    BY <1>13 DEF PutBack, Typed, Commits, RowKnown, Control, TempTells, Moves
  <2>2. PICK d \in Discarded(Rename(disk, op.to, "path")) : Do(d)
    BY <1>13 DEF PutBack
  <2>3. disk.at[op.to] \notin disk.superseded \ {None}
    BY <1>0, <2>1 DEF RowLive
  <2>4. SameFiles
    BY <1>0, <2>1, CameBackSays DEF SameFiles
  <2>5. Returns(op.to)
    BY <1>0, <2>1, <2>2, <2>3, <2>4, RenameReturns DEF Discarded, Do, PastGrows
  <2> QED
    BY <2>1, <2>5 DEF DiskStep
<1>14. CASE Removed
  <2>1. PICK to \in Places :
           /\ CanRename(disk, "path", to)
           /\ Do([Rename(disk, "path", to) EXCEPT !.superseded = @ \cup {Held(disk)}])
    BY <1>14 DEF Removed
  <2>2. to \in Asides
    BY <2>1 DEF Places, Free, Asides
  <2>3. PastGrows /\ SameFiles
    BY <1>14, <2>1 DEF Removed, Do, PastGrows, SameFiles
  <2>4. GoesAside(to)
    BY <1>0, <2>1, <2>2, <2>3, Spotted DEF GoesAside, CanRename, Rename, Held, Disks, Do
  <2> QED
    BY <1>14, <2>2, <2>4 DEF DiskStep
<1>15. CASE PowerLoss
  <2>1. disk' \in past /\ past' = {}
    BY <1>15 DEF PowerLoss
  <2>2. SameFiles /\ tally'.crashes # tally.crashes
    BY <1>0, <1>15 DEF PowerLoss, SameFiles, Tallies
  <2> QED
    BY <2>1, <2>2 DEF TakenBack, DiskStep
<1>16. CASE UndoBack
  <2>1. /\ disk' = Rename(disk, journal.to, "path") /\ CanRename(disk, journal.to, "path")
        /\ PastGrows /\ journal # NoRow /\ disk.at[journal.temp] # None
    BY <1>16 DEF UndoBack, ToUndo, Do, PastGrows
  <2>2. SameFiles
    <3>1. [tally EXCEPT !.faults = @ + 1] \in Tallies /\ [tally EXCEPT !.faults = @ + 1].files = tally.files
      BY <1>0, NotedTyped DEF Tallies
    <3>2. PICK t \in Tallies : tally' = CameBack(t, Held(disk')) /\ t.files = tally.files
      BY <1>0, <1>16, <3>1 DEF UndoBack, Do
    <3> QED
      BY <3>2, CameBackSays DEF SameFiles
  <2>3. journal.to \in Asides
    BY <2>1 DEF Typed, TypeOK, Rows, NoRow, Asides
  <2>4. disk.at[journal.to] \notin disk.superseded \ {None}
    BY <1>0, <2>1 DEF RowLive
  <2>5. Returns(journal.to)
    BY <1>0, <2>1, <2>2, <2>3, <2>4, RenameReturns
  <2> QED
    BY <2>3, <2>5 DEF DiskStep
<1>17. ASSUME NEW claimed \in SUBSET Temps, NEW old \in SUBSET Trash, Tidy(claimed, old)
       PROVE  DiskStep
  <2> DEFINE cleared == old \cup (Temps \ (claimed \cup {open.temp}))
             d == [disk EXCEPT !.at = [s \in Spots |-> IF s \in cleared THEN None
                                                       ELSE disk.at[s]],
                               !.owed = @ \ {disk.at[t] : t \in old}]
  <2>1. IF old = {} THEN Do(d) ELSE Settles(d)
    BY <1>17 DEF Tidy
  <2>2. /\ d.at = [s \in Spots |-> IF s \in cleared THEN None ELSE disk.at[s]]
        /\ d.owed \subseteq disk.owed /\ d.superseded = disk.superseded
    BY <1>0 DEF Disks
  <2>3. cleared \in SUBSET (Spots \ {"path"}) /\ (cleared \cap Kept # {} => old # {})
    BY Spotted, BoundsAssumption DEF Kept, Spots, Asides
  <2>4. disk' = d /\ PastGrows /\ (old # {} => past' = {})
    BY <2>1 DEF Do, Settles, PastGrows
  <2>5. SameFiles
    BY <1>17 DEF Tidy, SameFiles
  <2>6. Clears(cleared)
    <3> HIDE DEF d, cleared
    <3> QED
      BY <2>2, <2>3, <2>4, <2>5 DEF Clears
  <2> QED
    BY <2>3, <2>6 DEF DiskStep
<1> QED
  BY <1>1, <1>2, <1>3, <1>4, <1>5, <1>6, <1>7, <1>8, <1>9, <1>10, <1>11, <1>12, <1>13, <1>14,
     <1>15, <1>16, <1>17
  DEF Next, User, Steps, Resolve, Write, Start

-----------------------------------------------------------------------------
(* What holds of the disk, and of what a power loss may make it.              *)

LEMMA EachGrows ==
  ASSUME DiskStep, tally \in Tallies
  PROVE  /\ past' \subseteq Each /\ Each' \subseteq Each \cup {disk'}
         /\ tally.files \in Nat /\ tally'.files \in Nat /\ tally.files <= tally'.files
<1>1. tally.files \in Nat
  BY BoundsAssumption DEF Tallies
<1>2. past' = {} \/ PastGrows
  BY DEF DiskStep, Clears, Returns, GoesAside, Lands, UserAt, Comes, TakenBack
<1>3. SameFiles \/ tally'.files = tally.files + 1 \/ tally'.files = tally.files + 0
  BY Zenon DEF DiskStep, Clears, Returns, GoesAside, Lands, UserAt, Comes, TakenBack
<1>4. tally'.files \in Nat /\ tally.files <= tally'.files
  BY <1>1, <1>3 DEF SameFiles
<1> QED
  BY <1>1, <1>2, <1>4 DEF PastGrows, Each

LEMMA NumberedKept ==
  ASSUME Sound, DiskStep, tally \in Tallies
  PROVE  Numbered'
<1>1. /\ Each' \subseteq Each \cup {disk'} /\ disk \in Each
      /\ tally.files \in Nat /\ tally'.files \in Nat /\ tally.files <= tally'.files
  BY EachGrows DEF Each
<1> DEFINE Fine(d, n) == /\ \A s \in Spots : d.at[s] \in 0..n
                         /\ d.owed \subseteq 1..n /\ d.superseded \subseteq 0..n
<1>2. \A d \in Each : Fine(d, tally.files)
  BY DEF Sound, Numbered
<1>3. \A d \in Each : Fine(d, tally'.files)
  <2>1. 0..tally.files \subseteq 0..tally'.files /\ 1..tally.files \subseteq 1..tally'.files
    BY <1>1
  <2> QED
    BY <1>2, <2>1
<1>4. Fine(disk', tally'.files)
  <2> USE <1>1, <1>3
  <2>1. ASSUME NEW C \in SUBSET Spots, Clears(C)
        PROVE  Fine(disk', tally'.files)
    BY <2>1 DEF Clears, None
  <2>2. ASSUME NEW s \in Asides, Returns(s)
        PROVE  Fine(disk', tally'.files)
    BY <2>2, Spotted DEF Returns, None
  <2>3. ASSUME NEW s \in Asides, GoesAside(s)
        PROVE  Fine(disk', tally'.files)
    BY <2>3, Spotted DEF GoesAside, Held, None, Kept
  <2>4. ASSUME NEW t \in Temps, Lands(t)
        PROVE  Fine(disk', tally'.files)
    <3>1. t \in Spots /\ Asides \subseteq Spots /\ disk.at[t] \in 1..tally'.files
      BY <2>4, Spotted DEF Lands, None
    <3> QED
      BY <2>4, <3>1 DEF Lands, None
  <2>5. ASSUME NEW t \in Temps, Comes(t)
        PROVE  Fine(disk', tally'.files)
    BY <2>5 DEF Comes
  <2>6. ASSUME NEW s \in Kept, UserAt(s, 0) \/ UserAt(s, 1)
        PROVE  Fine(disk', tally'.files)
    BY <2>6 DEF UserAt, None
  <2>7. CASE TakenBack
    BY <2>7 DEF TakenBack, Each
  <2> QED
    BY <2>1, <2>2, <2>3, <2>4, <2>5, <2>6, <2>7 DEF DiskStep
<1> QED
  BY <1>1, <1>3, <1>4 DEF Numbered

LEMMA ApartKept ==
  ASSUME Sound, DiskStep, tally \in Tallies
  PROVE  Apart'
<1>1. /\ Each' \subseteq Each \cup {disk'} /\ disk \in Each
      /\ tally.files \in Nat
      /\ \A s \in Spots : disk.at[s] \in 0..tally.files
  BY EachGrows DEF Each, Sound, Numbered
<1> DEFINE Fine(d) == \A r, s \in Spots : d.at[r] = d.at[s] /\ d.at[r] # None => r = s
<1>2. \A d \in Each : Fine(d)
  BY DEF Sound, Apart
<1>3. Fine(disk')
  <2> USE <1>1, <1>2
  <2>1. ASSUME NEW C \in SUBSET Spots, Clears(C)
        PROVE  Fine(disk')
    BY <2>1 DEF Clears
  <2>2. ASSUME NEW s \in Asides, Returns(s)
        PROVE  Fine(disk')
    BY <2>2, Spotted DEF Returns
  <2>3. ASSUME NEW s \in Asides, GoesAside(s)
        PROVE  Fine(disk')
    BY <2>3, Spotted DEF GoesAside, Held, Kept
  <2>4. ASSUME NEW t \in Temps, Lands(t)
        PROVE  Fine(disk')
    BY <2>4, Spotted DEF Lands
  <2>5. ASSUME NEW t \in Temps, Comes(t)
        PROVE  Fine(disk')
    BY <2>5 DEF Comes
  <2>6. ASSUME NEW s \in Kept, UserAt(s, 0) \/ UserAt(s, 1)
        PROVE  Fine(disk')
    BY <2>6 DEF UserAt, None
  <2>7. CASE TakenBack
    BY <2>7 DEF TakenBack, Each
  <2> QED
    BY <2>1, <2>2, <2>3, <2>4, <2>5, <2>6, <2>7 DEF DiskStep
<1> QED
  BY <1>1, <1>2, <1>3 DEF Apart

LEMMA TempsKept ==
  ASSUME Sound, DiskStep, tally \in Tallies
  PROVE  TempsOwn'
<1>1. /\ Each' \subseteq Each \cup {disk'} /\ disk \in Each
      /\ tally.files \in Nat
  BY EachGrows DEF Each
<1>2. \A d \in Each : /\ \A s \in Spots : d.at[s] \in 0..tally.files
                      /\ d.owed \subseteq 1..tally.files /\ d.superseded \subseteq 0..tally.files
  BY DEF Sound, Numbered
<1>3. \A r, s \in Spots : disk.at[r] = disk.at[s] /\ disk.at[r] # None => r = s
  BY <1>1 DEF Sound, Apart
<1>4. \A d \in Each, t \in Temps :
           d.at[t] \notin d.owed /\ disk.at[t] \notin d.owed /\ d.at[t] \notin d.superseded \ {None}
  BY DEF Sound, TempsOwn
<1> DEFINE Fine(d) == \A u \in Temps : /\ d.at[u] \notin d.owed
                                       /\ d.at[u] \notin d.superseded \ {None}
           Other(d) == \A u \in Temps : disk'.at[u] \notin d.owed
<1>5. Temps \cap Kept = {} /\ Temps \subseteq Spots /\ Asides \subseteq Kept /\ "path" \in Kept
      /\ Kept \subseteq Spots
  BY Spotted DEF Kept
<1>6. Fine(disk') /\ \A d \in past' : Other(d)
  <2> USE <1>1, <1>2, <1>3, <1>4, <1>5
  <2>0. PastGrows => past' \subseteq Each
    BY DEF PastGrows, Each
  <2>1. ASSUME NEW C \in SUBSET Spots, Clears(C)
        PROVE  Fine(disk') /\ \A d \in past' : Other(d)
    BY <2>0, <2>1 DEF Clears, None
  <2>2. ASSUME NEW s \in Asides, Returns(s)
        PROVE  Fine(disk') /\ \A d \in past' : Other(d)
    BY <2>0, <2>2 DEF Returns, None
  <2>3. ASSUME NEW s \in Asides, GoesAside(s)
        PROVE  Fine(disk') /\ \A d \in past' : Other(d)
    <3>1. \A u \in Temps : disk'.at[u] = disk.at[u]
      BY <2>3 DEF GoesAside
    <3>2. \A u \in Temps : disk.at[u] # None => disk.at[u] # Held(disk)
      BY DEF Held
    <3> QED
      BY <2>0, <2>3, <3>1, <3>2 DEF GoesAside
  <2>4. ASSUME NEW t \in Temps, Lands(t)
        PROVE  Fine(disk') /\ \A d \in past' : Other(d)
    <3>1. \A u \in Temps : disk'.at[u] = None \/ (disk'.at[u] = disk.at[u] /\ u # t)
      BY <2>4 DEF Lands
    <3>2. \A u \in Temps, s \in Asides : disk.at[u] # None => disk.at[u] # disk.at[s]
      BY DEF Held
    <3>3. None \notin disk'.owed /\ (\A d \in past' : d \in Each /\ None \notin d.owed)
      BY <2>0, <2>4 DEF Lands, None
    <3> QED
      BY <2>4, <3>1, <3>2, <3>3 DEF Lands
  <2>5. ASSUME NEW t \in Temps, Comes(t)
        PROVE  Fine(disk') /\ \A d \in past' : Other(d)
    <3>1. \A d \in Each : tally.files + 1 \notin d.owed \cup d.superseded
      OBVIOUS
    <3> QED
      BY <2>0, <2>5, <3>1 DEF Comes
  <2>6. ASSUME NEW s \in Kept, UserAt(s, 0) \/ UserAt(s, 1)
        PROVE  Fine(disk') /\ \A d \in past' : Other(d)
    BY <2>6 DEF UserAt
  <2>7. CASE TakenBack
    BY <2>7 DEF TakenBack, Each
  <2> QED
    BY <2>1, <2>2, <2>3, <2>4, <2>5, <2>6, <2>7 DEF DiskStep
<1>7. \A d \in past' : d \in Each
  BY EachGrows
<1>8. \A d \in past' : Fine(d)
  BY <1>4, <1>7
<1> QED
  BY <1>6, <1>8 DEF TempsOwn, Each

LEMMA ReplacedKept ==
  ASSUME Sound, DiskStep, tally \in Tallies
  PROVE  Replaced'
<1>1. past' \subseteq Each /\ disk \in Each /\ tally.files \in Nat
  BY EachGrows DEF Each
<1>2. \A d \in Each : /\ \A s \in Spots : d.at[s] \in 0..tally.files
                      /\ d.superseded \subseteq 0..tally.files
  BY DEF Sound, Numbered
<1>3. \A r, s \in Spots : disk.at[r] = disk.at[s] /\ disk.at[r] # None => r = s
  BY <1>1 DEF Sound, Apart
<1>4. \A d \in Each :
        /\ Held(d) \notin d.superseded \ {None}
        /\ d.superseded \subseteq disk.superseded
        /\ \A s \in Asides : d.at[s] \in d.superseded \ {None} => disk.at[s] = d.at[s]
  BY DEF Sound, Replaced
<1>5. Temps \cap Kept = {} /\ Temps \subseteq Spots /\ Asides \subseteq Kept /\ "path" \in Kept
      /\ Kept \subseteq Spots /\ "path" \notin Asides
  BY Spotted DEF Kept
<1> DEFINE Stays(d) ==
             /\ d.superseded \subseteq disk'.superseded
             /\ \A s \in Asides : d.at[s] \in d.superseded \ {None} => disk'.at[s] = d.at[s]
<1>6. Held(disk') \notin disk'.superseded \ {None} /\ \A d \in past' : Stays(d)
  <2> USE <1>1, <1>2, <1>3, <1>4, <1>5 DEF Held
  <2>1. ASSUME NEW C \in SUBSET Spots, Clears(C)
        PROVE  Held(disk') \notin disk'.superseded \ {None} /\ \A d \in past' : Stays(d)
    BY <2>1 DEF Clears
  <2>2. ASSUME NEW s \in Asides, Returns(s)
        PROVE  Held(disk') \notin disk'.superseded \ {None} /\ \A d \in past' : Stays(d)
    BY <2>2 DEF Returns
  <2>3. ASSUME NEW s \in Asides, GoesAside(s)
        PROVE  Held(disk') \notin disk'.superseded \ {None} /\ \A d \in past' : Stays(d)
    BY <2>3 DEF GoesAside
  <2>4. ASSUME NEW t \in Temps, Lands(t)
        PROVE  Held(disk') \notin disk'.superseded \ {None} /\ \A d \in past' : Stays(d)
    <3>1. disk.at[t] \notin disk.superseded \ {None} /\ \A s \in Asides : disk.at[t] # disk.at[s]
      BY <2>4 DEF Lands, Sound, TempsOwn
    <3> QED
      BY <2>4, <3>1 DEF Lands
  <2>5. ASSUME NEW t \in Temps, Comes(t)
        PROVE  Held(disk') \notin disk'.superseded \ {None} /\ \A d \in past' : Stays(d)
    BY <2>5 DEF Comes
  <2>6. ASSUME NEW s \in Kept, UserAt(s, 0) \/ UserAt(s, 1)
        PROVE  Held(disk') \notin disk'.superseded \ {None} /\ \A d \in past' : Stays(d)
    BY <2>6 DEF UserAt
  <2>7. CASE TakenBack
    BY <2>7 DEF TakenBack, Each
  <2> QED
    BY <2>1, <2>2, <2>3, <2>4, <2>5, <2>6, <2>7 DEF DiskStep
<1>7. \A d \in past' : Held(d) \notin d.superseded \ {None}
  BY <1>1, <1>4
<1> QED
  BY <1>6, <1>7 DEF Replaced, Each, Held

LEMMA SoundKept ==
  ASSUME Sound, DiskStep, tally \in Tallies
  PROVE  Sound'
  BY NumberedKept, ApartKept, TempsKept, ReplacedKept DEF Sound

-----------------------------------------------------------------------------
(* How far a commit is.                                                       *)

LEMMA PendingKept ==
  ASSUME Typed, RowKnown, Pending, [Next]_vars
  PROVE  Pending'
<1> USE DEF At
<1>1. CASE \/ User \/ (\E t \in Temps : Fetch(t)) \/ Observe \/ UNCHANGED vars
  BY <1>1
  DEF User, UserWrites, UserRemoves, UserMovesParent, Fetch, Observe, vars, Pending, Guarded
<1>2. CASE Asked \/ BeginResolve
  BY <1>2 DEF Asked, Begin, BeginResolve, Pending, Guarded
<1>3. CASE NotOpen \/ ResolveBack \/ ResolveLeave \/ ResolveSync \/ ResolveFails
           \/ ResolveRecorded
  BY <1>3
  DEF NotOpen, ResolveBack, ResolveLeave, ResolveSync, Resolved, ResolveFails, ResolveRecorded,
      Durable, Next1, Pending, Guarded
<1>4. CASE Guard
  BY <1>4 DEF Guard, Ends, Pending, Guarded
<1>5. CASE Journalled \/ NoPlace \/ Displaced \/ PlaceTaken \/ NotDisplaced
  BY <1>5 DEF Journalled, NoPlace, Displaced, PlaceTaken, NotDisplaced, Ends, Pending, Guarded
<1>6. CASE Placed
  BY <1>6 DEF Placed, Pending, NoWrites
<1>7. CASE NotPlaced \/ PutBack \/ LeftAside \/ Stranded
  BY <1>7 DEF NotPlaced, PutBack, LeftAside, Stranded, Ends, Pending, Guarded
<1>8. CASE Synced \/ NotSynced \/ NotRemoved \/ Report
  BY <1>8 DEF Synced, NotSynced, NotRemoved, Report, Durable, Ends, Pending, Guarded
<1>9. CASE Removed
  <2>1. op'.kind = "remove" /\ pc' = "landed" /\ mode' = "up"
    BY <1>9 DEF Removed, Typed, Commits
  <2>2. writes'.gone = FALSE /\ writes'.unrow = {}
    BY <1>9 DEF Removed, NoWrites
  <2> QED
    BY <2>1, <2>2 DEF Pending, Guarded
<1>10. CASE Crash \/ PowerLoss
  BY <1>10 DEF Crash, PowerLoss, Down, Pending, Guarded
<1>11. CASE NothingToUndo \/ UndoBack \/ UndoLeft \/ UndoLanded \/ UndoFails
  <2>1. mode' = "undone" /\ mode = "down" /\ pc' = pc /\ pc = "idle"
    BY <1>11
    DEF NothingToUndo, UndoBack, UndoLeft, UndoLanded, UndoFails, Undo, ToUndo, RowKnown
  <2>2. writes' = NoWrites \/ \E gone \in BOOLEAN : writes' = Writes(gone, {journal.to})
                           \/ writes' = Writes(gone, {})
    BY <1>11 DEF NothingToUndo, UndoBack, UndoLeft, UndoLanded, UndoFails, Undo
  <2>3. writes'.rows = {}
    BY <2>2 DEF Writes, NoWrites
  <2> QED
    BY <2>1, <2>3 DEF Pending, Guarded
<1>12. ASSUME NEW claimed \in SUBSET Temps, NEW old \in SUBSET Trash, Tidy(claimed, old)
       PROVE  Pending'
  BY <1>12 DEF Tidy, RowKnown, Pending
<1>13. CASE Up
  BY <1>13 DEF Up, Durable, RowKnown, Pending
<1> QED
  BY <1>1, <1>2, <1>3, <1>4, <1>5, <1>6, <1>7, <1>8, <1>9, <1>10, <1>11, <1>12, <1>13
  DEF Next, Steps, Resolve, Write, Start

\* Only a fetch brings a temp file, and one that no row names.
LEMMA TempTellsKept ==
  ASSUME Typed, DisksWhole, RowKnown, TempTells, [Next]_vars
  PROVE  TempTells'
<1> USE DEF At
<1>0. /\ disk \in Disks /\ op \in Commits /\ open \in Rows
      /\ Temps \cap Kept = {} /\ Temps \subseteq Spots /\ "path" \in Kept /\ "none" \notin Temps
      /\ Asides \subseteq Kept /\ Kept \subseteq Spots
  BY Spotted, BoundsAssumption DEF DisksWhole, Whole, Typed, TypeOK, Kept
<1>a. /\ open.kind = "unsynced" => open.temp \in Temps
      /\ op.kind = "write" => op.temp \in Temps
  BY <1>0 DEF Rows, NoRow, Typed
<1>1. CASE User
  <2>1. PICK s \in Kept : \/ disk' = Made(Taken(disk, s), s) \/ disk' = Taken(disk, s)
                           \/ disk' = [Taken(disk, s) EXCEPT !.parent = ~@]
    BY <1>0, <1>1 DEF User, UserWrites, UserRemoves, UserMovesParent, Settles
  <2>2. ASSUME NEW t \in Temps
        PROVE  disk'.at[t] = disk.at[t]
    <3>1. t # s /\ t \in Spots /\ s \in Spots
      BY <1>0
    <3>2. disk.at \in [Spots -> Maybe(Files)]
      BY <1>0 DEF Disks
    <3>3. \E f : disk'.at = [disk.at EXCEPT ![s] = f]
      <4>1. CASE disk' = Made(Taken(disk, s), s)
        BY <1>0, <3>2, <4>1 DEF Made, Taken, Disks
      <4>2. CASE disk' = Taken(disk, s)
        BY <1>0, <3>2, <4>2 DEF Taken, Disks
      <4>3. CASE disk' = [Taken(disk, s) EXCEPT !.parent = ~@]
        BY <1>0, <3>2, <4>3 DEF Taken, Disks
      <4> QED
        BY <2>1, <4>1, <4>2, <4>3
    <3> QED
      BY <3>1, <3>2, <3>3
  <2> QED
    BY <1>1, <1>a, <2>2
    DEF User, UserWrites, UserRemoves, UserMovesParent, TempTells, Moves, Guarded, Before
<1>2. ASSUME NEW t \in Temps, Fetch(t)
      PROVE  TempTells'
  <2>1. \A u \in Temps \ {t} : disk'.at[u] = disk.at[u]
    BY <1>0, <1>2 DEF Fetch, Do, Disks
  <2>2. t # open.temp /\ pc = "idle" /\ UNCHANGED <<open, pc, op>>
    BY <1>2 DEF Fetch
  <2> QED
    BY <1>a, <2>1, <2>2 DEF TempTells, Moves, Guarded, Before
<1>3. CASE \/ NotOpen \/ ResolveSync \/ ResolveRecorded \/ Journalled \/ PlaceTaken
           \/ Synced \/ NotRemoved \/ UndoLanded \/ NothingToUndo \/ Up
           \/ UNCHANGED vars \/ Observe
  <2>1. disk' = disk /\ (open' = open \/ open' = NoRow)
    BY <1>3
    DEF NotOpen, ResolveSync, Resolved, ResolveRecorded, Journalled, PlaceTaken, Synced,
        NotRemoved, UndoLanded, NothingToUndo, Undo, Up, vars, Observe, DiskStays, Fsync
  <2>2. NoRow.kind = "none"
    BY DEF NoRow
  <2>3. op'.kind = op.kind /\ op'.temp = op.temp
    BY <1>0, <1>3
    DEF NotOpen, ResolveSync, Resolved, ResolveRecorded, Journalled, PlaceTaken, Synced,
        NotRemoved, UndoLanded, NothingToUndo, Undo, Up, vars, Observe, Ends, Commits
  <2>4. /\ pc' \in Before \cup Guarded \cup {"placing", "undoing"} /\ op.kind = "write"
               => pc \in Before \cup Guarded \cup {"placing", "undoing"}
        /\ pc' # "landed" \/ pc = "landed"
        /\ pc' \in {"looking"} \cup Moves =>
               pc \in {"looking"} \cup Moves \/ open' = NoRow \/ pc = "recording"
    BY <1>3, <2>2
    DEF NotOpen, ResolveSync, Resolved, ResolveRecorded, Journalled, PlaceTaken, Synced,
        NotRemoved, UndoLanded, NothingToUndo, Undo, Up, vars, Observe, Ends, Moves, Guarded,
        Before, Next1
  <2>5. pc = "recording" => open = NoRow
    BY DEF RowKnown
  <2> QED
    BY <2>1, <2>2, <2>3, <2>4, <2>5 DEF TempTells

<1>4. ASSUME NEW d \in {"trash", "copy"}, NEW t \in Temps, Begin("write", t, d)
      PROVE  TempTells'
  <2>1. op'.temp = t /\ op'.kind = "write" /\ disk.at[t] # None /\ disk' = disk
        /\ open' = open /\ pc' = "resolving"
    BY <1>4 DEF Begin, NoOp, DiskStays
  <2> QED
    BY <2>1 DEF TempTells, Moves, Guarded, Before
<1>5. ASSUME NEW d \in {"trash", "copy"}, Begin("remove", "none", d) \/ BeginResolve
      PROVE  TempTells'
  <2>1. op'.kind # "write" /\ disk' = disk /\ open' = open /\ pc' = "resolving"
    BY <1>5 DEF Begin, BeginResolve, NoOp, DiskStays
  <2> QED
    BY <2>1 DEF TempTells, Moves
<1>6. CASE ResolveBack
  <2>1. open' = NoRow /\ op' = op /\ pc' = "recording" /\ pc = "resolving"
        /\ disk' = Rename(disk, open.to, "path") /\ open.to \in Asides
    BY <1>0, <1>6 DEF ResolveBack, Resolved, Do, ToGoBack, Rows, NoRow, Asides
  <2>2. \A t \in Temps : disk'.at[t] = disk.at[t]
    BY <1>0, <2>1 DEF Rename, Disks
  <2> QED
    BY <1>a, <2>1, <2>2 DEF TempTells, NoRow, Moves, Guarded, Before
<1>7. CASE ResolveLeave
  <2>1. open' = NoRow /\ op' = op /\ pc' = "recording" /\ pc = "resolving" /\ disk' = disk
    BY <1>7 DEF ResolveLeave, Resolved, DiskStays
  <2> QED
    BY <2>1 DEF TempTells, NoRow, Moves, Guarded, Before
<1>8. CASE ResolveFails
  <2>1. /\ disk' = disk /\ op'.kind = op.kind /\ op'.temp = op.temp /\ pc = "resolving"
        /\ pc' \in {"idle", "reporting"}
              \/ (pc' = "looking" /\ open' = [open EXCEPT !.kind = "unsynced"] /\ ToSync)
        /\ open' = IF ToSync THEN [open EXCEPT !.kind = "unsynced"] ELSE open
    BY <1>0, <1>8 DEF ResolveFails, Next1, DiskStays, Commits, ToSync
  <2>2. ToSync => /\ [open EXCEPT !.kind = "unsynced"].kind = "unsynced"
                  /\ [open EXCEPT !.kind = "unsynced"].temp = open.temp
                  /\ open.temp \in Temps
    BY <1>0 DEF ToSync, Rows, NoRow
  <2>3. ToSync => disk.at[open.temp] = None
    BY <1>0 DEF ToSync, ToGoBack, TempTells, Rows
  <2> QED
    BY <2>1, <2>2, <2>3 DEF TempTells, Moves, Guarded, Before
<1>9. CASE Guard
  <2>1. op'.kind = op.kind /\ op'.temp = op.temp /\ open' = open /\ disk'.at = disk.at
        /\ pc = "looking" /\ pc' # "landed"
    BY <1>0, <1>9 DEF Guard, Ends, Do, DiskStays, Commits, Disks
  <2> QED
    BY <2>1 DEF TempTells, Moves, Guarded, Before
<1>10. CASE Displaced
  <2>1. op' = op /\ open' = open /\ disk' = Rename(disk, "path", op.to) /\ op.to \in Asides
        /\ pc = "journalled" /\ pc' = "placing"
    BY <1>0, <1>10 DEF Displaced, Do, Typed, Commits
  <2>2. \A t \in Temps : disk'.at[t] = disk.at[t]
    BY <1>0, <2>1 DEF Rename, Disks
  <2> QED
    BY <1>a, <2>1, <2>2 DEF TempTells, Moves, Guarded, Before
<1>11. CASE NoPlace
  <2>1. op'.kind = op.kind /\ op'.temp = op.temp /\ open' = open /\ disk' = disk
        /\ pc' = "reporting"
    BY <1>0, <1>11 DEF NoPlace, Ends, DiskStays, Commits
  <2> QED
    BY <2>1 DEF TempTells, Moves, Guarded, Before
<1>12. CASE NotDisplaced \/ LeftAside \/ PutBack \/ (NotPlaced /\ op.to = "none")
  <2>1. PICK e \in {disk, Rename(disk, op.to, "path")} :
           /\ \E d \in Discarded(e) : disk' \in {d, Undone(d)}
           /\ e = disk \/ op.to \in Asides
    BY <1>0, <1>12 DEF NotDisplaced, LeftAside, PutBack, NotPlaced, Do, Typed, Commits
  <2>2. e \in Disks /\ \A t \in Temps : e.at[t] = disk.at[t]
    <3>1. CASE e = disk
      BY <1>0, <3>1
    <3>2. CASE e = Rename(disk, op.to, "path") /\ op.to \in Asides
      <4>1. op.to \in Spots /\ "path" \in Spots
        BY <1>0, <3>2
      <4>2. disk.at[op.to] \in Maybe(Files) /\ None \in Maybe(Files)
        BY <1>0, <4>1 DEF Disks, Maybe
      <4>3. e.at \in [Spots -> Maybe(Files)]
        BY <1>0, <3>2, <4>1, <4>2 DEF Rename, Disks
      <4>4. e \in Disks
        BY <1>0, <3>2, <4>3 DEF Rename, Disks
      <4> QED
        BY <1>0, <3>2, <4>1, <4>4 DEF Rename, Disks
    <3> QED
      BY <2>1, <3>1, <3>2
  <2>3. PICK d \in Discarded(e) : disk' \in {d, Undone(d)}
    BY <2>1
  <2>4. \A t \in Temps : d.at[t] = disk.at[t] \/ d.at[t] = None
    BY <1>0, <2>2, <2>3 DEF Discarded, Clear, Disks
  <2>5. disk'.at = d.at
    BY <1>0, <2>2, <2>3 DEF Discarded, Clear, Undone, Disks
  <2>6. pc' = "reporting" /\ open' = open
    BY <1>12 DEF NotDisplaced, LeftAside, PutBack, NotPlaced, Ends
  <2> QED
    BY <1>a, <2>4, <2>5, <2>6 DEF TempTells, Moves, Guarded, Before
<1>13. CASE NotPlaced /\ op.to # "none"
  <2>1. pc = "placing" /\ pc' = "undoing" /\ disk' = disk /\ op' = op /\ open' = open
    BY <1>13 DEF NotPlaced, DiskStays
  <2> QED
    BY <2>1 DEF TempTells, Moves, Guarded, Before
<1>14. CASE Placed
  <2>1. /\ op.temp \in Temps /\ pc = "placing" /\ pc' = "landed" /\ open' = open
        /\ op'.temp = op.temp /\ disk'.at = Rename(disk, op.temp, "path").at
    BY <1>0, <1>14 DEF Placed, Do, Typed, Commits, Rename, Disks
  <2>2. disk'.at[op.temp] = None /\ \A t \in Temps \ {op.temp} : disk'.at[t] = disk.at[t]
    BY <1>0, <2>1 DEF Rename, Disks
  <2> QED
    BY <1>a, <2>1, <2>2 DEF TempTells, Moves, Guarded, Before
<1>15. CASE Stranded
  <2>1. open'.kind = "displaced" /\ pc' = "reporting"
    BY <1>15 DEF Stranded, Ends, Row
  <2> QED
    BY <2>1 DEF TempTells, Moves, Guarded, Before
<1>16. CASE NotSynced
  <2>1. /\ pc = "landed" /\ pc' = "reporting" /\ disk' = disk
        /\ open' = open \/ (op.kind = "write" /\ open' = Row("unsynced", op.to, op.temp))
    BY <1>16 DEF NotSynced, Ends, DiskStays
  <2> QED
    BY <2>1 DEF TempTells, Row, Moves, Guarded, Before
<1>17. CASE Removed
  <2>1. PICK to \in Places : disk'.at = Rename(disk, "path", to).at
    BY <1>0, <1>17 DEF Removed, Do, Rename, Disks
  <2>2. to \in Asides
    BY <2>1 DEF Places, Free, Asides
  <2>3. \A t \in Temps : disk'.at[t] = disk.at[t]
    BY <1>0, <2>1, <2>2 DEF Rename, Disks
  <2>4. op'.kind = "remove" /\ pc' = "landed" /\ pc = "guarded" /\ open' = open
    BY <1>0, <1>17 DEF Removed, Commits
  <2> QED
    BY <1>a, <2>3, <2>4 DEF TempTells, Moves, Guarded, Before
<1>18. CASE Report
  <2>1. disk' = disk /\ pc' = "idle" /\ (open' = NoRow \/ open' = open)
    BY <1>18 DEF Report, DiskStays
  <2> QED
    BY <2>1 DEF TempTells, NoRow, Moves, Guarded, Before
<1>19. CASE Crash \/ PowerLoss
  <2>1. open' = NoRow /\ pc' = "idle"
    BY <1>19 DEF Crash, PowerLoss, Down
  <2> QED
    BY <2>1 DEF TempTells, NoRow, Moves, Guarded, Before
<1>20. CASE UndoBack \/ UndoLeft
  <2>1. open' = NoRow /\ pc' = "idle"
    BY <1>20 DEF UndoBack, UndoLeft, Undo, ToUndo, RowKnown
  <2> QED
    BY <2>1 DEF TempTells, NoRow, Moves, Guarded, Before
<1>21. CASE UndoFails
  <2>1. pc' = "idle" /\ disk' = disk /\ journal # NoRow
        /\ open' = [journal EXCEPT !.kind = IF disk.at[journal.temp] = None
                                            THEN "unsynced" ELSE "displaced"]
    BY <1>21 DEF UndoFails, Undo, ToUndo, RowKnown, DiskStays
  <2>2. open'.temp = journal.temp
        /\ open'.kind = IF disk.at[journal.temp] = None THEN "unsynced" ELSE "displaced"
    BY <2>1 DEF Typed, TypeOK, Rows, NoRow
  <2> QED
    BY <2>1, <2>2 DEF TempTells, Moves, Guarded, Before
<1>22. ASSUME NEW claimed \in SUBSET Temps, NEW old \in SUBSET Trash, Tidy(claimed, old)
       PROVE  TempTells'
  <2>1. \A t \in Temps : disk'.at[t] = disk.at[t] \/ disk'.at[t] = None
    <3> DEFINE cleared == old \cup (Temps \ (claimed \cup {open.temp}))
               d == [disk EXCEPT !.at = [s \in Spots |-> IF s \in cleared THEN None
                                                         ELSE disk.at[s]],
                                 !.owed = @ \ {disk.at[t] : t \in old}]
    <3>1. disk' = d
      BY <1>22 DEF Tidy, Do, Settles
    <3>2. d.at = [s \in Spots |-> IF s \in cleared THEN None ELSE disk.at[s]]
      BY <1>0 DEF Disks
    <3> QED
      BY <1>0, <3>1, <3>2
  <2>2. open' = open /\ pc' = "idle"
    BY <1>22 DEF Tidy, RowKnown
  <2> QED
    BY <1>a, <2>1, <2>2 DEF TempTells, Moves, Guarded, Before
<1> QED
  BY <1>1, <1>2, <1>3, <1>4, <1>5, <1>6, <1>7, <1>8, <1>9, <1>10, <1>11, <1>12, <1>13, <1>14,
     <1>15, <1>16, <1>17, <1>18, <1>19, <1>20, <1>21, <1>22
  DEF Next, Asked, Steps, Resolve, Write, Start

LEMMA ReportsKept ==
  ASSUME Typed, Reports, [Next]_vars
  PROVE  Reports'
<1> USE DEF At, Reports
<1>0. op \in Commits
  BY DEF Typed
<1>1. CASE Asked \/ BeginResolve \/ Report \/ Crash \/ PowerLoss
  <2>1. op'.result = "none"
    <3>1. CASE Asked
      BY <3>1 DEF Asked, Begin, NoOp
    <3>2. CASE BeginResolve
      BY <3>2 DEF BeginResolve, NoOp
    <3>3. CASE Report \/ Crash \/ PowerLoss
      BY <3>3 DEF Report, Crash, PowerLoss, Down, NoOp
    <3> QED
      BY <1>1, <3>1, <3>2, <3>3
  <2> QED
    BY <2>1
<1>2. CASE Placed \/ Removed \/ Guard \/ Journalled \/ ResolveFails
  BY <1>0, <1>2 DEF Placed, Removed, Guard, Journalled, ResolveFails, Next1, Ends, Commits
<1>3. CASE \/ NoPlace \/ NotDisplaced \/ NotPlaced \/ PutBack \/ LeftAside \/ Stranded
           \/ Synced \/ NotSynced \/ NotRemoved
  BY <1>3
  DEF NoPlace, NotDisplaced, NotPlaced, PutBack, LeftAside, Stranded, Synced, NotSynced,
      NotRemoved, Ends
<1>4. CASE \/ User \/ (\E t \in Temps : Fetch(t)) \/ NotOpen \/ ResolveBack \/ ResolveLeave
           \/ ResolveSync \/ ResolveRecorded \/ Displaced \/ PlaceTaken \/ Observe \/ Start
           \/ UNCHANGED vars
  BY <1>4
  DEF User, UserWrites, UserRemoves, UserMovesParent, Fetch, NotOpen, ResolveBack, ResolveLeave,
      ResolveSync, Resolved, ResolveRecorded, Displaced, PlaceTaken, Observe, Start,
      NothingToUndo, UndoBack, UndoLeft, UndoLanded, UndoFails, Undo, Up, Tidy, vars
<1> QED
  BY <1>1, <1>2, <1>3, <1>4 DEF Next, Steps, Resolve, Write

LEMMA KnownNumberedKept ==
  ASSUME Typed, Sound, KnownNumbered, DiskStep, [Next]_vars
  PROVE  KnownNumbered'
<1>0. /\ tally.files \in Nat /\ tally'.files \in Nat /\ tally.files <= tally'.files
      /\ \A s \in Spots : disk.at[s] \in 0..tally.files
      /\ op \in Commits
  BY EachGrows DEF Typed, Sound, Numbered, Each
<1>1. record' \in {record, op.expected, Held(disk)}
  <2>1. CASE Report \/ Observe
    BY <2>1 DEF Report, Observe, Observed
  <2>2. CASE ~(Report \/ Observe)
    BY <2>2
    DEF Next, User, UserWrites, UserRemoves, UserMovesParent, Fetch, Asked, Begin, BeginResolve,
        Steps, Resolve, Write, Start, NotOpen, ResolveBack, ResolveLeave, ResolveSync, Resolved,
        ResolveFails, ResolveRecorded, Guard, Journalled, NoPlace, Displaced, PlaceTaken,
        NotDisplaced, Placed, NotPlaced, PutBack, LeftAside, Stranded, Synced, NotSynced,
        Removed, NotRemoved, Crash, PowerLoss, Down, NothingToUndo, UndoBack, UndoLeft,
        UndoLanded, UndoFails, Undo, Up, Tidy, store, vars
  <2> QED
    BY <2>1, <2>2
<1>2. op'.expected \in {op.expected, record, None} \cup {disk.at[s] : s \in Temps}
  <2>1. CASE Asked
    BY <2>1 DEF Asked, Begin, NoOp
  <2>2. CASE BeginResolve \/ Report \/ Crash \/ PowerLoss
    BY <2>2 DEF BeginResolve, Report, Crash, PowerLoss, Down, NoOp
  <2>3. CASE Placed
    BY <1>0, <2>3 DEF Placed, Typed, Commits
  <2>4. CASE Removed \/ Guard \/ Journalled
    BY <1>0, <2>4 DEF Removed, Guard, Journalled, Ends, Commits
  <2>5. CASE \/ ResolveFails \/ NoPlace \/ NotDisplaced \/ NotPlaced \/ PutBack \/ LeftAside
             \/ Stranded \/ Synced \/ NotSynced \/ NotRemoved
    BY <1>0, <2>5
    DEF ResolveFails, NoPlace, NotDisplaced, NotPlaced, PutBack, LeftAside, Stranded, Synced,
        NotSynced, NotRemoved, Ends, Commits
  <2>6. CASE \/ User \/ (\E t \in Temps : Fetch(t)) \/ NotOpen \/ ResolveBack \/ ResolveLeave
             \/ ResolveSync \/ ResolveRecorded \/ Displaced \/ PlaceTaken \/ Observe \/ Start
             \/ UNCHANGED vars
    BY <2>6
    DEF User, UserWrites, UserRemoves, UserMovesParent, Fetch, NotOpen, ResolveBack,
        ResolveLeave, ResolveSync, Resolved, ResolveRecorded, Displaced, PlaceTaken, Observe,
        Start, NothingToUndo, UndoBack, UndoLeft, UndoLanded, UndoFails, Undo, Up, Tidy, vars
  <2> QED
    BY <2>1, <2>2, <2>3, <2>4, <2>5, <2>6 DEF Next, Steps, Resolve, Write
<1>3. "path" \in Spots /\ Temps \subseteq Spots
  BY Spotted DEF Kept
<1>4. /\ record \in 0..tally'.files /\ op.expected \in 0..tally'.files
      /\ None \in 0..tally'.files /\ \A s \in Spots : disk.at[s] \in 0..tally'.files
  BY <1>0 DEF KnownNumbered, None
<1>5. record' \in 0..tally'.files
  BY <1>1, <1>3, <1>4 DEF Held
<1>6. op'.expected \in 0..tally'.files
  BY <1>2, <1>3, <1>4
<1> QED
  BY <1>5, <1>6 DEF KnownNumbered

\* While a commit is guarded only the user does anything at its places, and
\* what he makes is new.
LEMMA AimsKept ==
  ASSUME Typed, RowKnown, Sound, KnownNumbered, Aims, [Next]_vars
  PROVE  Aims'
<1> USE DEF At
<1>0. /\ disk \in Disks /\ op \in Commits /\ tally \in Tallies /\ tally.files \in Nat
      /\ \A s \in Spots : disk.at[s] \in 0..tally.files
      /\ disk.superseded \subseteq 0..tally.files /\ record \in 0..tally.files
      /\ Asides \subseteq Kept /\ Kept \subseteq Spots /\ "path" \in Kept /\ "path" \notin Asides
      /\ "copy" \in Asides
  BY Spotted, BoundsAssumption
  DEF Typed, TypeOK, Disks, Tallies, Sound, Numbered, Each, KnownNumbered, Kept, Asides
<1>1. CASE User
  <2>1. /\ record' = record /\ pc' = pc /\ op' = op
        /\ \E s \in Kept : \/ disk' = Made(Taken(disk, s), s) \/ disk' = Taken(disk, s)
                           \/ disk' = [Taken(disk, s) EXCEPT !.parent = ~@]
    BY <1>0, <1>1 DEF User, UserWrites, UserRemoves, UserMovesParent, Settles, store
  <2>2. /\ \A s \in Asides : disk'.at[s] \in {disk.at[s], None, tally.files + 1}
        /\ disk'.superseded = disk.superseded
    <3>1. PICK k \in Kept : \/ disk' = Made(Taken(disk, k), k) \/ disk' = Taken(disk, k)
                            \/ disk' = [Taken(disk, k) EXCEPT !.parent = ~@]
      BY <2>1
    <3>2. /\ disk'.superseded = disk.superseded
          /\ disk'.at = [disk.at EXCEPT ![k] = None]
                \/ disk'.at = [[disk.at EXCEPT ![k] = None] EXCEPT ![k] = tally.files + 1]
      BY <1>0, <3>1 DEF Made, Taken, Disks
    <3> QED
      BY <1>0, <3>2 DEF Disks
  <2>3. tally.files + 1 # record /\ tally.files + 1 \notin disk.superseded
    BY <1>0
  <2> QED
    BY <1>0, <2>1, <2>2, <2>3 DEF Aims
<1>2. CASE Asked
  BY <1>2 DEF Asked, Begin, NoOp, Aims, store, Guarded, Before
<1>3. CASE BeginResolve
  BY <1>3 DEF BeginResolve, NoOp, Aims, store, Guarded, Before
<1>4. CASE NotOpen \/ ResolveBack \/ ResolveLeave \/ ResolveSync \/ ResolveRecorded
  BY <1>4
  DEF NotOpen, ResolveBack, ResolveLeave, ResolveSync, Resolved, ResolveRecorded, Next1, store,
      Aims, Guarded, Before
<1>5. CASE ResolveFails
  <2>1. op'.kind = op.kind /\ op'.expected = op.expected /\ record' = record /\ pc = "resolving"
        /\ pc' \in {"looking", "idle", "reporting"}
    BY <1>0, <1>5 DEF ResolveFails, Next1, Commits, store
  <2> QED
    BY <2>1 DEF Aims, Guarded, Before
<1>6. CASE Guard
  <2>1. /\ record' = record /\ pc = "looking" /\ pc' \in {"placing", "guarded", "reporting"}
        /\ disk'.at = disk.at /\ disk'.superseded = disk.superseded
        /\ op'.kind = op.kind /\ op'.to = op.to /\ op'.displace = op.displace
        /\ op'.expected = op.expected
    BY <1>0, <1>6 DEF Guard, Ends, Do, DiskStays, store, Disks, Commits
  <2>2. pc' \in {"placing", "guarded"} =>
            /\ Held(disk) = op.expected /\ (pc' = "placing" <=> Held(disk) = None)
            /\ op.kind = "write" /\ op.displace = "copy" => disk.at["copy"] = None
    BY <1>6 DEF Guard, Ends
  <2>3. op.kind # "resolve"
    BY <2>1 DEF Typed
  <2>4. op.expected = record
    BY <2>1, <2>3 DEF Aims, Before
  <2>5. pc' = "guarded" => \A s \in Asides : disk.at[s] # Held(disk)
    BY <1>0, <2>2 DEF Sound, Apart, Each, Held
  <2> QED
    BY <2>1, <2>2, <2>4, <2>5 DEF Aims, Guarded, Before
<1>7. CASE Journalled \/ PlaceTaken
  <2>1. /\ record' = record /\ pc \in Guarded /\ pc' \in Guarded /\ disk' = disk
        /\ op'.kind = op.kind /\ op'.displace = op.displace
    BY <1>0, <1>7 DEF Journalled, PlaceTaken, DiskStays, store, Commits, Guarded
  <2> QED
    BY <2>1 DEF Aims, Guarded, Before
<1>8. CASE Displaced
  <2>1. op'.to # "none" /\ pc' = "placing"
    BY <1>8 DEF Displaced, Typed
  <2> QED
    BY <2>1 DEF Aims, Guarded, Before
<1>9. CASE \/ NoPlace \/ NotDisplaced \/ Placed \/ NotPlaced \/ PutBack \/ LeftAside \/ Stranded
           \/ Synced \/ NotSynced \/ Removed \/ NotRemoved \/ Report \/ Crash \/ PowerLoss
  BY <1>9
  DEF NoPlace, NotDisplaced, Placed, NotPlaced, PutBack, LeftAside, Stranded, Synced, NotSynced,
      Removed, NotRemoved, Report, Crash, PowerLoss, Down, Ends, Aims, Guarded, Before
<1>10. CASE (\E t \in Temps : Fetch(t)) \/ Observe
  BY <1>10 DEF Fetch, Observe, Aims, Guarded, Before
<1>11. CASE Start
  <2>1. pc' = pc /\ pc = "idle"
    BY <1>11
    DEF Start, NothingToUndo, UndoBack, UndoLeft, UndoLanded, UndoFails, Undo, ToUndo, Up, Tidy,
        RowKnown
  <2> QED
    BY <2>1 DEF Aims, Guarded, Before
<1>12. CASE UNCHANGED vars
  BY <1>12 DEF vars, Aims
<1> QED
  BY <1>1, <1>2, <1>3, <1>4, <1>5, <1>6, <1>7, <1>8, <1>9, <1>10, <1>11, <1>12
  DEF Next, Steps, Resolve, Write

\* A row is made when nothing that was replaced is where its file is to go,
\* and what goes there until its commit lands was not replaced.
LEMMA RowLiveKept ==
  ASSUME Typed, RowKnown, Sound, RowLive, Control, DiskStep, [Next]_vars
  PROVE  RowLive'
<1> USE DEF At
<1>0. /\ tally \in Tallies /\ tally.files \in Nat /\ disk \in Each /\ past' \subseteq Each
      /\ \A s \in Spots : disk.at[s] \in 0..tally.files
      /\ disk.superseded \subseteq 0..tally.files /\ journal \in Rows /\ op \in Commits
      /\ Asides \subseteq Kept /\ Kept \subseteq Spots /\ "path" \in Kept /\ "path" \notin Asides
      /\ Temps \subseteq Spots /\ Temps \cap Kept = {}
  BY Spotted, EachGrows DEF Typed, TypeOK, Sound, Numbered, Each, Kept
<1> DEFINE Live(d, to, temp) == d.at[temp] # None => d.at[to] \notin d.superseded \ {None}
<1>1. CASE Journalled
  <2>1. PICK to \in Places : journal' = Row("displaced", to, op.temp)
    BY <1>1 DEF Journalled
  <2>2. past' = past /\ disk' = disk /\ journal'.to = to /\ to \in Asides
    BY <1>1, <2>1 DEF Journalled, DiskStays, Row, Places, Free, Asides
  <2>3. disk.at[to] \notin disk.superseded \ {None}
    <3>1. CASE to = "copy"
      <4>1. op.displace = "copy" /\ op.kind = "write" /\ pc = "guarded"
        BY <1>1, <2>1, <3>1, BoundsAssumption DEF Journalled, Places, Free
      <4> QED
        BY <3>1, <4>1 DEF Control, Aims, Guarded
    <3>2. CASE to \in Trash
      BY <2>1, <3>2, BoundsAssumption DEF Places, Free
    <3> QED
      BY <2>2, <3>1, <3>2 DEF Asides
  <2>4. \A d \in Each : d.at[to] \notin d.superseded \ {None}
    BY <2>2, <2>3 DEF Sound, Replaced
  <2> QED
    BY <2>2, <2>4 DEF RowLive, Each
<1>2. CASE ~Journalled
  <2>1. journal' = journal \/ journal' = NoRow
    BY <1>2
    DEF Next, User, UserWrites, UserRemoves, UserMovesParent, Fetch, Asked, Begin, BeginResolve,
        Steps, Resolve, Write, Start, NotOpen, ResolveBack, ResolveLeave, ResolveSync, Resolved,
        ResolveFails, ResolveRecorded, Guard, NoPlace, Displaced, PlaceTaken, Report, Observe,
        NotDisplaced, Placed, NotPlaced, PutBack, LeftAside, Stranded, Synced, NotSynced,
        Removed, NotRemoved, Crash, PowerLoss, Down, NothingToUndo, UndoBack, UndoLeft,
        UndoLanded, UndoFails, Undo, Up, Tidy, Durable, Journal, store, vars
  <2>2. SUFFICES ASSUME journal # NoRow, journal' = journal
                 PROVE  \A d \in past' \cup {disk'} : Live(d, journal.to, journal.temp)
    BY <2>1 DEF RowLive, Each
  <2>3. journal.to \in Asides /\ journal.temp \in Temps
    BY <1>0, <2>2 DEF Rows, Asides
  <2>4. \A d \in Each : Live(d, journal.to, journal.temp)
    BY <2>2 DEF RowLive
  <2>5. /\ \A s \in Spots \ {"path"} : Held(disk) # None => disk.at[s] # Held(disk)
        /\ Held(disk) \notin disk.superseded \ {None}
    BY <1>0 DEF Sound, Apart, Replaced, Held
  <2>6. Live(disk', journal.to, journal.temp)
    <3> USE <1>0, <2>3, <2>4, <2>5
    <3>1. ASSUME NEW C \in SUBSET Spots, Clears(C)
          PROVE  Live(disk', journal.to, journal.temp)
      BY <3>1 DEF Clears
    <3>2. ASSUME NEW s \in Asides, Returns(s)
          PROVE  Live(disk', journal.to, journal.temp)
      BY <3>2 DEF Returns
    <3>3. ASSUME NEW s \in Asides, GoesAside(s), disk'.superseded = disk.superseded
          PROVE  Live(disk', journal.to, journal.temp)
      BY <3>3 DEF GoesAside
    <3>4. ASSUME NEW s \in Asides, GoesAside(s), Removed
          PROVE  Live(disk', journal.to, journal.temp)
      <4>1. op.to = "none" /\ pc = "guarded" /\ mode = "up"
        BY <3>4 DEF Removed, Typed
      <4>2. Matches /\ open.kind # "displaced"
        BY <4>1 DEF RowKnown, Control, TempTells, Moves
      <4>3. open # NoRow /\ open.kind = "unsynced" /\ open.temp = journal.temp
        BY <2>2, <4>2 DEF Matches, Typed, TypeOK, Rows
      <4>4. disk.at[journal.temp] = None
        BY <4>3 DEF Control, TempTells
      <4> QED
        BY <3>4, <4>4 DEF GoesAside
    <3>5. ASSUME NEW t \in Temps, Lands(t), Placed, t = op.temp
          PROVE  Live(disk', journal.to, journal.temp)
      <4>1. CASE op.to = "none"
        <5>1. disk'.superseded = disk.superseded
          BY <3>5, <4>1, BoundsAssumption DEF Placed, Do, Typed, TypeOK, Rename, Kept
        <5> QED
          BY <3>5, <5>1 DEF Lands
      <4>2. CASE op.to # "none"
        <5>1. journal.temp = t
          BY <3>5, <4>2 DEF Placed, RowKnown, Moves
        <5> QED
          BY <3>5, <5>1 DEF Lands
      <4> QED
        BY <4>1, <4>2
    <3>6. ASSUME NEW t \in Temps, Comes(t), Fetch(t)
          PROVE  Live(disk', journal.to, journal.temp)
      BY <3>6 DEF Comes, Fetch
    <3>7. ASSUME NEW s \in Kept, UserAt(s, 0) \/ UserAt(s, 1)
          PROVE  Live(disk', journal.to, journal.temp)
      BY <3>7 DEF UserAt
    <3>8. CASE TakenBack
      BY <3>8 DEF TakenBack, Each
    <3> QED
      BY <3>1, <3>2, <3>3, <3>4, <3>5, <3>6, <3>7, <3>8 DEF DiskStep
  <2> QED
    BY <1>0, <2>4, <2>6
<1> QED
  BY <1>1, <1>2

-----------------------------------------------------------------------------
(* What is in the trash is listed.                                            *)

\* The rows as changes leave them, where there are no new ones.
LEMMA RowsSay ==
  ASSUME Typed
  PROVE  /\ \A t \in Trash : TrashRows(NoWrites)[t] = trashRows[t]
         /\ \A gone \in BOOLEAN : \A t \in Trash : \A unrow :
                TrashRows(Writes(gone, unrow))[t] = IF t \in unrow THEN None ELSE trashRows[t]
<1>1. NoWrites.rows = {} /\ NoWrites.unrow = {}
  BY DEF NoWrites
<1>2. \A gone \in BOOLEAN : \A unrow :
         Writes(gone, unrow).rows = {} /\ Writes(gone, unrow).unrow = unrow \cap Trash
  BY DEF Writes
<1>3. \A t \in Trash : TrashRows(NoWrites)[t] = trashRows[t]
  BY <1>1 DEF TrashRows
<1>4. ASSUME NEW gone \in BOOLEAN, NEW t \in Trash, NEW unrow
      PROVE  TrashRows(Writes(gone, unrow))[t] = IF t \in unrow THEN None ELSE trashRows[t]
  <2> DEFINE w == Writes(gone, unrow)
  <2>1. w.rows = {} /\ w.unrow = unrow \cap Trash
    BY <1>2
  <2>2. TrashRows(w)[t] = IF t \in w.unrow THEN None ELSE trashRows[t]
    <3> HIDE DEF w
    <3> QED
      BY <2>1 DEF TrashRows
  <2> QED
    BY <2>1, <2>2
<1> QED
  BY <1>3, <1>4

\* Steps after which the trash holds no more and the rows are the same.
LEMMA ListedStays ==
  ASSUME Typed, Listed, \A t \in Trash : disk'.at[t] \in {disk.at[t], None},
         tally'.strays = tally.strays, trashRows' = trashRows,
         writes'.rows = writes.rows, writes'.unrow = writes.unrow
  PROVE  Listed'
<1>1. \A t \in Trash : TrashRows(writes)'[t] = TrashRows(writes)[t]
  BY DEF TrashRows
<1> QED
  BY <1>1 DEF Listed

\* Steps that take a row away with what was there, or where a stray is.
LEMMA ListedUnrows ==
  ASSUME Typed, Typed', Listed, writes = NoWrites, tally'.strays = tally.strays,
         trashRows' = trashRows,
         NEW gone \in BOOLEAN, NEW unrow, writes' = Writes(gone, unrow),
         \A t \in Trash : disk'.at[t] \in {disk.at[t], None},
         \A t \in Trash \cap unrow : disk'.at[t] \in tally.strays \cup {None}
  PROVE  Listed'
<1>1. \A t \in Trash : TrashRows(NoWrites)[t] = trashRows[t]
  BY RowsSay
<1>2. \A t \in Trash : disk.at[t] \notin tally.strays \cup {None} => trashRows[t] # None
  BY <1>1 DEF Listed
<1>3. writes'.rows = {} /\ writes'.unrow = unrow \cap Trash
  BY DEF Writes
<1>4. \A t \in Trash : t \notin unrow => TrashRows(writes)'[t] = trashRows[t]
  BY <1>3 DEF TrashRows
<1> QED
  BY <1>2, <1>4 DEF Listed

\* What was to be made durable is.
LEMMA ListedDurable ==
  ASSUME Typed, Typed', Listed, Durable(writes), disk' = disk, tally'.strays = tally.strays
  PROVE  Listed'
<1>1. trashRows' = TrashRows(writes) /\ writes'.rows = {} /\ writes'.unrow = {}
  BY DEF Durable, NoWrites
<1>2. \A t \in Trash : TrashRows(writes)'[t] = trashRows'[t]
  BY <1>1 DEF TrashRows
<1> QED
  BY <1>1, <1>2 DEF Listed

LEMMA TrashKnownKept ==
  ASSUME Typed, Typed', DisksWhole, RowKnown, Control, TrashKnown, [Next]_vars
  PROVE  TrashKnown'
<1> USE DEF At
<1>0. /\ disk \in Disks /\ op \in Commits /\ tally \in Tallies
      /\ "path" \notin Trash /\ "copy" \notin Trash /\ "none" \notin Trash
      /\ Trash \cap Temps = {} /\ Trash \subseteq Spots /\ "path" \in Spots
      /\ Temps \subseteq Spots /\ Asides \subseteq Spots /\ Trash \subseteq Kept
      /\ op.temp \in Temps \cup {"none"}
  BY Spotted, BoundsAssumption
  DEF Typed, DisksWhole, Whole, Kept, Spots, Asides, Commits
<1>a. mode = "up" => Listed
  BY DEF TrashKnown
<1>1. ASSUME NEW s \in Kept, UserWrites(s) \/ UserRemoves(s) \/ (s = "path" /\ UserMovesParent)
      PROVE  TrashKnown'
  <2>1. /\ UNCHANGED <<trashRows, mode, pc, op, writes>>
        /\ \/ disk' = Made(Taken(disk, s), s) /\ Edit(s, 1)
           \/ disk' = Taken(disk, s) /\ Edit(s, 0)
           \/ disk' = [Taken(disk, s) EXCEPT !.parent = ~@] /\ Edit(s, 0)
    BY <1>1 DEF UserWrites, UserRemoves, UserMovesParent, Settles, store
  <2>2. /\ \A t \in Trash : disk'.at[t] \in {disk.at[t], None} \cup tally'.strays
        /\ tally.strays \subseteq tally'.strays
    <3>1. CASE disk' = Made(Taken(disk, s), s) /\ Edit(s, 1)
      BY <1>0, <3>1, EditSays DEF Made, Taken, Disks
    <3>2. CASE disk' = Taken(disk, s) /\ Edit(s, 0)
      BY <1>0, <3>2, EditSays DEF Taken, Disks
    <3>3. CASE disk' = [Taken(disk, s) EXCEPT !.parent = ~@] /\ Edit(s, 0)
      BY <1>0, <3>3, EditSays DEF Taken, Disks
    <3> QED
      BY <2>1, <3>1, <3>2, <3>3
  <2>3. \A t \in Trash : TrashRows(writes)'[t] = TrashRows(writes)[t]
    BY <2>1 DEF TrashRows
  <2>4. Listed => Listed'
    BY <2>2, <2>3 DEF Listed
  <2> QED
    BY <2>1, <2>2, <2>4 DEF TrashKnown
<1>2. ASSUME NEW t \in Temps, Fetch(t)
      PROVE  TrashKnown'
  <2>1. /\ \A s \in Trash : disk'.at[s] = disk.at[s]
        /\ tally'.strays = tally.strays /\ pc' = "idle" /\ mode = "up"
    BY <1>0, <1>2 DEF Fetch, Do, Count, Disks, Tallies
  <2> QED
    BY <1>2, <1>a, <2>1, ListedStays DEF Fetch, store, TrashKnown, Guarded
<1>3. CASE Asked \/ BeginResolve \/ NotOpen \/ Observe \/ Synced \/ PlaceTaken \/ UNCHANGED vars
  <2>1. /\ disk' = disk /\ tally' = tally /\ trashRows' = trashRows /\ mode' = mode
        /\ writes'.rows = writes.rows /\ writes'.unrow = writes.unrow
    BY <1>3
    DEF Asked, Begin, BeginResolve, NotOpen, Observe, Synced, PlaceTaken, Ends, DiskStays, Fsync,
        Typed, Changes, store, vars
  <2>2. Listed => Listed'
    BY <2>1, ListedStays
  <2>3. CASE PlaceTaken
    BY <2>1, <2>2, <2>3 DEF PlaceTaken, TrashKnown, Guarded
  <2>4. CASE Asked \/ BeginResolve \/ NotOpen \/ Observe \/ Synced
    BY <2>1, <2>2, <2>4
    DEF Asked, Begin, BeginResolve, NotOpen, Next1, Observe, Synced, Ends, TrashKnown, Guarded
  <2>5. CASE UNCHANGED vars
    BY <2>1, <2>2, <2>5 DEF vars, TrashKnown
  <2> QED
    BY <1>3, <2>3, <2>4, <2>5
<1>4. CASE ResolveFails \/ Stranded \/ NotSynced \/ NotRemoved
  <2>1. /\ disk' = disk /\ trashRows' = trashRows /\ mode' = mode /\ mode = "up"
        /\ writes'.rows = writes.rows /\ writes'.unrow = writes.unrow
        /\ pc' \notin Guarded
    BY <1>4
    DEF ResolveFails, Stranded, NotSynced, NotRemoved, Next1, Ends, DiskStays, store, Control,
        Pending, Guarded
  <2>2. tally'.strays = tally.strays
    BY <1>0, <1>4, FaultSays DEF ResolveFails, Stranded, NotSynced, NotRemoved
  <2> QED
    BY <1>a, <2>1, <2>2, ListedStays DEF TrashKnown, Guarded
<1>5. CASE Guard
  <2>1. /\ disk'.at = disk.at /\ tally' = tally /\ trashRows' = trashRows /\ mode = "up"
        /\ writes' = writes /\ op'.to = "none"
    BY <1>0, <1>5
    DEF Guard, Ends, Do, DiskStays, store, Disks, Commits, Control, Pending, RowKnown
  <2> QED
    BY <1>0, <1>a, <2>1, ListedStays DEF TrashKnown
<1>6. CASE Placed
  <2>1. /\ \A t \in Trash : disk'.at[t] = disk.at[t]
        /\ tally' = tally /\ trashRows' = trashRows /\ mode = "up" /\ writes' = writes
        /\ pc' = "landed"
    BY <1>0, <1>6 DEF Placed, Do, Rename, Disks, Typed, store
  <2> QED
    BY <1>a, <2>1, ListedStays DEF TrashKnown, Guarded
<1>7. CASE NotPlaced
  <2>1. /\ \A t \in Trash : disk'.at[t] = disk.at[t]
        /\ trashRows' = trashRows /\ mode = "up" /\ writes' = writes /\ pc' \notin Guarded
    <3>1. /\ trashRows' = trashRows /\ mode = "up" /\ writes' = writes /\ pc' \notin Guarded
          /\ disk' = disk \/ \E d \in Discarded(disk) : disk' = Undone(d)
      BY <1>7 DEF NotPlaced, Ends, Do, DiskStays, store, Control, Pending, Guarded
    <3> QED
      BY <1>0, <3>1 DEF Discarded, Clear, Undone, Disks
  <2>2. tally'.strays = tally.strays
    BY <1>0, <1>7, FaultSays DEF NotPlaced
  <2> QED
    BY <1>a, <2>1, <2>2, ListedStays DEF TrashKnown, Guarded
<1>8. CASE ResolveRecorded \/ Report \/ Up
  <2>1. Durable(writes) /\ disk' = disk /\ tally' = tally /\ pc' \notin Guarded
        /\ mode \in {"up", "tidied"}
    BY <1>8 DEF ResolveRecorded, Report, Up, DiskStays, Next1, Guarded, RowKnown
  <2> QED
    BY <2>1, ListedDurable DEF TrashKnown, Guarded
<1>9. CASE ResolveBack
  <2>1. /\ writes' = Writes(TRUE, {open.to}) /\ disk' = Rename(disk, open.to, "path")
        /\ trashRows' = trashRows /\ mode = "up" /\ writes = NoWrites /\ pc' = "recording"
        /\ tally' = CameBack(tally, disk.at[open.to]) /\ open # NoRow
    BY <1>9 DEF ResolveBack, Resolved, Do, store, Control, Pending, ToGoBack, NoRow
  <2>2. open.to \in Asides
    BY <2>1 DEF Typed, TypeOK, Rows, Asides
  <2>3. /\ \A t \in Trash : disk'.at[t] \in {disk.at[t], None}
        /\ \A t \in Trash \cap {open.to} : disk'.at[t] = None
    BY <1>0, <2>1, <2>2 DEF Rename, Disks
  <2>4. tally'.strays = tally.strays
    BY <1>0, <2>1, CameBackSays
  <2>5. Listed'
    BY <1>a, <2>1, <2>3, <2>4, ListedUnrows
  <2> QED
    BY <2>1, <2>5 DEF TrashKnown, Guarded
<1>10. CASE ResolveLeave \/ ResolveSync
  <2>1. /\ writes' = Writes(TRUE, {}) /\ disk' = disk /\ trashRows' = trashRows
        /\ mode = "up" /\ writes = NoWrites /\ pc' = "recording"
        /\ tally' = tally \/ tally' = Excuse(tally, {disk.at[open.to]})
    BY <1>10
    DEF ResolveLeave, ResolveSync, Resolved, DiskStays, Fsync, store, Control, Pending
  <2>2. tally'.strays = tally.strays
    BY <1>0, <2>1, ExcuseSays
  <2>3. /\ \A t \in Trash : disk'.at[t] \in {disk.at[t], None}
        /\ \A t \in Trash \cap {} : disk'.at[t] \in tally.strays \cup {None}
        /\ TRUE \in BOOLEAN
    BY <2>1
  <2>4. Listed'
    BY <1>a, <2>1, <2>2, <2>3, ListedUnrows
  <2> QED
    BY <2>1, <2>4 DEF TrashKnown, Guarded
<1>11. CASE Journalled
  <2>1. PICK to \in Places :
           /\ op' = [op EXCEPT !.to = to]
           /\ trashRows' = [t \in Trash |-> IF t = to THEN op.expected
                                           ELSE IF t = op.to THEN None ELSE trashRows[t]]
    BY <1>11 DEF Journalled
  <2>2. /\ op.expected \in Files /\ pc \in Guarded /\ mode = "up" /\ disk' = disk
        /\ writes' = NoWrites /\ writes = NoWrites /\ tally' = tally /\ op'.to = to
        /\ pc' = "journalled"
    BY <1>0, <1>11, <2>1
    DEF Journalled, DiskStays, Typed, Commits, Control, Pending, Guarded
  <2>3. op.expected # None
    BY <2>2 DEF Files, None
  <2>4. to \in Trash => disk.at[to] = None
    BY <1>0, <2>1 DEF Places, Free
  <2>5. \A t \in Trash : TrashRows(NoWrites)[t] = trashRows[t]
    BY RowsSay
  <2>6. \A t \in Trash : TrashRows(writes)'[t] = trashRows'[t]
    BY <2>2 DEF TrashRows, NoWrites
  <2>7. Listed'
    BY <1>a, <2>1, <2>2, <2>3, <2>5, <2>6 DEF Listed, TrashKnown
  <2> QED
    BY <2>1, <2>2, <2>3, <2>4, <2>7 DEF TrashKnown
<1>12. CASE NoPlace
  <2>1. /\ writes' = Writes(op.to # "none", {op.to}) /\ disk' = disk /\ tally' = tally
        /\ trashRows' = trashRows /\ mode = "up" /\ writes = NoWrites /\ pc' = "reporting"
        /\ pc \in Guarded
    BY <1>12 DEF NoPlace, Ends, DiskStays, store, Control, Pending, Guarded
  <2>2. \A t \in Trash \cap {op.to} : disk.at[t] \in tally.strays \cup {None}
    BY <2>1 DEF TrashKnown
  <2>3. (op.to # "none") \in BOOLEAN
    OBVIOUS
  <2>4. Listed'
    BY <1>a, <2>1, <2>2, <2>3, ListedUnrows
  <2> QED
    BY <2>1, <2>4 DEF TrashKnown, Guarded
<1>13. CASE Displaced
  <2>1. /\ disk' = Rename(disk, "path", op.to) /\ op.to \in Asides /\ disk.at[op.to] = None
        /\ UNCHANGED <<trashRows, mode, op, writes, tally>>
        /\ pc' = "placing" /\ mode = "up" /\ pc = "journalled" /\ writes = NoWrites
    BY <1>0, <1>13
    DEF Displaced, CanRename, Do, Typed, Commits, store, Control, Pending, Guarded
  <2>2. \A t \in Trash \ {op.to} : disk'.at[t] = disk.at[t]
    BY <1>0, <2>1 DEF Rename, Disks
  <2>3. \A t \in Trash : TrashRows(writes)'[t] = trashRows[t] /\ TrashRows(writes)[t] = trashRows[t]
    BY <2>1 DEF TrashRows, NoWrites
  <2>4. Listed'
    BY <1>a, <2>1, <2>2, <2>3 DEF Listed, TrashKnown
  <2> QED
    BY <2>1, <2>4 DEF TrashKnown, Guarded
<1>14. CASE NotDisplaced
  <2>1. PICK d \in Discarded(disk) : disk' = d
    BY <1>14 DEF NotDisplaced, Do
  <2>2. \A t \in Trash : disk'.at[t] = disk.at[t]
    BY <1>0, <2>1 DEF Discarded, Clear, Disks
  <2>3. /\ writes' = Writes(TRUE, {op.to}) /\ trashRows' = trashRows /\ mode = "up"
        /\ writes = NoWrites /\ pc' = "reporting" /\ pc = "journalled"
    BY <1>14 DEF NotDisplaced, Ends, store, Control, Pending, Guarded
  <2>4. tally'.strays = tally.strays
    BY <1>0, <1>14, FaultSays DEF NotDisplaced
  <2>5. \A t \in Trash \cap {op.to} : disk'.at[t] \in tally.strays \cup {None}
    BY <2>2, <2>3 DEF TrashKnown, Guarded
  <2>6. Listed'
    BY <1>a, <2>2, <2>3, <2>4, <2>5, ListedUnrows
  <2> QED
    BY <2>3, <2>6 DEF TrashKnown, Guarded
<1>15. CASE PutBack
  <2>1. PICK d \in Discarded(Rename(disk, op.to, "path")) : disk' = d
    BY <1>15 DEF PutBack, Do
  <2>2. /\ op.to \in Asides /\ tally' = CameBack(tally, disk.at[op.to])
        /\ writes' = Writes(TRUE, {op.to}) /\ trashRows' = trashRows /\ mode = "up"
        /\ writes = NoWrites /\ pc' = "reporting"
    BY <1>0, <1>15 DEF PutBack, Ends, Typed, Commits, store, Control, Pending
  <2>3. \A t \in Trash : Rename(disk, op.to, "path").at[t] = IF t = op.to THEN None ELSE disk.at[t]
    BY <1>0, <2>2 DEF Rename, Disks
  <2>4. \A t \in Trash : disk'.at[t] = Rename(disk, op.to, "path").at[t]
    <3> DEFINE e == Rename(disk, op.to, "path")
    <3>1. DOMAIN e.at = Spots /\ "at" \in DOMAIN e
      BY <1>0, <2>2 DEF Rename, Disks
    <3>2. disk' = e \/ disk' = Clear(e, op.temp)
      BY <2>1 DEF Discarded
    <3>3. \A t \in Trash : t # op.temp
      BY <1>0
    <3>4. \A t \in Trash : Clear(e, op.temp).at[t] = e.at[t]
      <4> HIDE DEF e
      <4>1. Clear(e, op.temp).at \in {e.at, [e.at EXCEPT ![op.temp] = None]}
        BY <3>1 DEF Clear
      <4> QED
        BY <1>0, <3>1, <3>3, <4>1
    <3> QED
      BY <3>2, <3>4
  <2>5. tally'.strays = tally.strays
    BY <1>0, <2>2, CameBackSays
  <2>6. /\ \A t \in Trash : disk'.at[t] \in {disk.at[t], None}
        /\ \A t \in Trash \cap {op.to} : disk'.at[t] \in tally.strays \cup {None}
        /\ TRUE \in BOOLEAN
    BY <2>3, <2>4
  <2>7. Listed'
    BY <1>a, <2>2, <2>5, <2>6, ListedUnrows
  <2> QED
    BY <2>2, <2>7 DEF TrashKnown, Guarded
<1>16. CASE LeftAside
  <2>1. PICK d \in Discarded(disk) : disk' = d
    BY <1>16 DEF LeftAside, Do
  <2>2. \A t \in Trash : disk'.at[t] = disk.at[t]
    BY <1>0, <2>1 DEF Discarded, Clear, Disks
  <2>3. /\ writes' = Writes(TRUE, {}) /\ trashRows' = trashRows /\ mode = "up"
        /\ writes = NoWrites /\ pc' = "reporting"
        /\ tally' = Excuse(tally, {disk.at[op.to]})
    BY <1>16 DEF LeftAside, Ends, store, Control, Pending
  <2>4. tally'.strays = tally.strays
    BY <1>0, <2>3, ExcuseSays
  <2>5. /\ \A t \in Trash : disk'.at[t] \in {disk.at[t], None}
        /\ \A t \in Trash \cap {} : disk'.at[t] \in tally.strays \cup {None}
        /\ TRUE \in BOOLEAN
    BY <2>2
  <2>6. Listed'
    BY <1>a, <2>3, <2>4, <2>5, ListedUnrows
  <2> QED
    BY <2>3, <2>6 DEF TrashKnown, Guarded
<1>17. CASE Removed
  <2>1. PICK to \in Places :
           /\ disk'.at = Rename(disk, "path", to).at
           /\ writes' = [NoWrites EXCEPT !.rows = {r \in {<<to, op.expected>>} : to \in Trash}]
    BY <1>0, <1>17 DEF Removed, Do, Rename, Disks
  <2>2. /\ to \in Asides /\ op.expected \in Files /\ pc' = "landed" /\ mode = "up"
        /\ trashRows' = trashRows /\ tally' = tally /\ writes = NoWrites
    BY <1>17, <2>1
    DEF Removed, Places, Free, Asides, Typed, store, Control, Pending, Guarded
  <2>3. op.expected # None
    BY <2>2 DEF Files, None
  <2>4. \A t \in Trash \ {to} : disk'.at[t] = disk.at[t]
    BY <1>0, <2>1, <2>2 DEF Rename, Disks
  <2>5. /\ writes'.rows = {r \in {<<to, op.expected>>} : to \in Trash} /\ writes'.unrow = {}
    BY <2>1 DEF NoWrites
  <2>6. \A t \in Trash : TrashRows(writes)'[t] = IF t = to THEN op.expected ELSE trashRows[t]
    <3> TAKE t \in Trash
    <3>1. CASE t # to
      BY <2>2, <2>5, <3>1 DEF TrashRows
    <3>2. CASE t = to
      <4>1. writes'.rows = {<<to, op.expected>>}
        BY <2>5, <3>2
      <4>2. (CHOOSE r \in writes'.rows : r[1] = t) = <<to, op.expected>>
        BY <3>2, <4>1
      <4>3. \E r \in writes'.rows : r[1] = t
        BY <3>2, <4>1
      <4>4. TrashRows(writes)'[t] = (CHOOSE r \in writes'.rows : r[1] = t)[2]
        BY <4>3 DEF TrashRows
      <4>5. TrashRows(writes)'[t] = <<to, op.expected>>[2]
        BY <4>2, <4>4
      <4> QED
        BY <3>2, <4>5
    <3> QED
      BY <3>1, <3>2
  <2>7. \A t \in Trash : TrashRows(writes)[t] = trashRows[t]
    BY <2>2, RowsSay
  <2>8. Listed'
    BY <1>a, <2>2, <2>3, <2>4, <2>6, <2>7 DEF Listed
  <2> QED
    BY <2>2, <2>8 DEF TrashKnown, Guarded
<1>18. CASE Crash \/ PowerLoss
  BY <1>18 DEF Crash, PowerLoss, Down, TrashKnown, Guarded
<1>19. CASE NothingToUndo \/ UndoBack \/ UndoLeft \/ UndoLanded \/ UndoFails
  <2>1. mode' = "undone" /\ pc' = "idle"
    BY <1>19
    DEF NothingToUndo, UndoBack, UndoLeft, UndoLanded, UndoFails, Undo, ToUndo, RowKnown
  <2> QED
    BY <2>1 DEF TrashKnown, Guarded
<1>20. ASSUME NEW claimed \in SUBSET Temps, NEW old \in SUBSET Trash, Tidy(claimed, old)
       PROVE  TrashKnown'
  <2> DEFINE cleared == old \cup (Temps \ (claimed \cup {open.temp}))
             d == [disk EXCEPT !.at = [s \in Spots |-> IF s \in cleared THEN None
                                                       ELSE disk.at[s]],
                               !.owed = @ \ {disk.at[t] : t \in old}]
             rows == TrashRows(writes)
             stale == {t \in Trash : rows[t] # None /\ disk.at[t] = None}
             adopts == {t \in Trash : rows[t] = None /\ disk.at[t] # None}
  <2>1. /\ mode = "undone" /\ mode' = "tidied" /\ disk' = d /\ tally' = tally /\ pc' = "idle"
        /\ trashRows' = trashRows /\ writes.rows = {}
        /\ writes' = [writes EXCEPT !.unrow = @ \cup stale \cup old,
                                    !.rows = {<<t, disk.at[t]>> : t \in adopts \ old}]
    BY <1>20 DEF Tidy, Do, Settles, store, RowKnown, Control, Pending
  <2>2. /\ writes'.unrow = writes.unrow \cup stale \cup old
        /\ writes'.rows = {<<t, disk.at[t]>> : t \in adopts \ old}
    BY <2>1 DEF Typed, Changes
  <2>3. \A t \in Trash : disk'.at[t] = IF t \in old THEN None ELSE disk.at[t]
    <3>1. d.at = [s \in Spots |-> IF s \in cleared THEN None ELSE disk.at[s]]
      BY <1>0 DEF Disks
    <3> QED
      BY <1>0, <2>1, <3>1
  <2>4. \A t \in Trash : rows[t] = IF t \in writes.unrow THEN None ELSE trashRows[t]
    BY <2>1 DEF TrashRows
  <2>5. ASSUME NEW t \in Trash, t \notin old, disk.at[t] # None
        PROVE  TrashRows(writes)'[t] # None
    <3>1. CASE rows[t] = None
      <4>1. <<t, disk.at[t]>> \in writes'.rows
        BY <2>2, <2>5, <3>1
      <4>2. \A r \in writes'.rows : r[1] = t => r[2] = disk.at[t]
        BY <2>2
      <4>3. (CHOOSE r \in writes'.rows : r[1] = t)[2] = disk.at[t]
        BY <4>1, <4>2
      <4> QED
        BY <2>5, <4>1, <4>3 DEF TrashRows
    <3>2. CASE rows[t] # None
      <4>1. ~ \E r \in writes'.rows : r[1] = t
        BY <2>2, <3>2
      <4>2. t \notin writes'.unrow
        BY <2>2, <2>4, <2>5, <3>2
      <4> QED
        BY <2>1, <2>4, <3>2, <4>1, <4>2 DEF TrashRows
    <3> QED
      BY <3>1, <3>2
  <2>6. Listed'
    BY <2>3, <2>5 DEF Listed
  <2> QED
    BY <2>1, <2>6 DEF TrashKnown, Guarded
<1> QED
  BY <1>0, <1>1, <1>2, <1>3, <1>4, <1>5, <1>6, <1>7, <1>8, <1>9, <1>10, <1>11, <1>12, <1>13,
     <1>14, <1>15, <1>16, <1>17, <1>18, <1>19, <1>20
  DEF Next, User, Steps, Resolve, Write, Start, Kept

-----------------------------------------------------------------------------
(* What the index says of the path is explained.                              *)

\* Steps after which what is at the path and aside is the same.  A row that
\* goes has nothing to say of what is claimed.
LEMMA ExplainedStays ==
  ASSUME Typed, Explained, PastGrows,
         \A s \in Kept : disk'.at[s] = disk.at[s],
         disk'.owed \subseteq disk.owed, disk.superseded \subseteq disk'.superseded,
         tally.excused \subseteq tally'.excused, tally.undone \subseteq tally'.undone,
         tally.back \subseteq tally'.back \cup tally'.excused,
         Claimed' \subseteq Claimed,
         \/ Journal(writes) = NoRow
         \/ /\ Journal(writes)' # NoRow /\ journal' = journal
            /\ disk.at[journal.temp] # None => disk'.at[journal.temp] # None
         \/ disk.at[journal.to] \notin Claimed \ tally'.excused
         \/ past' = {} /\ disk.at[journal.temp] = None
  PROVE  Explained'
<1> SUFFICES ASSUME NEW f \in Claimed'
             PROVE  /\ Settled(disk, f)' \/ Held(disk') = f \/ Aside(disk, f)'
                    /\ \A d \in past' : \/ Settled(d, f)' \/ Held(d) = f \/ f \in tally'.back
                                        \/ Aside(d, f)' /\ disk'.at[journal'.to] = f
  BY DEF Explained
<1>1. /\ f \in Claimed /\ f # None
      /\ Settled(disk, f) \/ Held(disk) = f \/ Aside(disk, f)
      /\ \A d \in past : \/ Settled(d, f) \/ Held(d) = f \/ f \in tally.back
                         \/ Aside(d, f) /\ disk.at[journal.to] = f
  BY DEF Explained, Claimed
<1>2. \A d : Settled(d, f) => Settled(d, f)'
  BY DEF Settled
<1>3. /\ Settled(disk, f) => Settled(disk, f)'
      /\ Held(disk') = Held(disk) /\ "path" \in Kept
  BY DEF Settled, Held, Kept
<1>4. \A d : Aside(d, f) =>
          /\ Journal(writes) = journal /\ journal # NoRow /\ journal.to \in Kept
          /\ d.at[journal.to] = f /\ d.at[journal.temp] # None
  BY Spotted DEF Aside, Journal, Typed, TypeOK, Rows, Asides
<1>5. f \in tally'.excused => \A d : Settled(d, f)'
  BY DEF Settled
<1>6. CASE f \in tally'.excused
  BY <1>5, <1>6
<1>7. CASE f \notin tally'.excused
  <2>1. Settled(disk, f)' \/ Held(disk') = f \/ Aside(disk, f)'
    BY <1>1, <1>3, <1>4, <1>7 DEF Aside
  <2>2. ASSUME NEW d \in past'
        PROVE  \/ Settled(d, f)' \/ Held(d) = f \/ f \in tally'.back
               \/ Aside(d, f)' /\ disk'.at[journal'.to] = f
    <3>1. d \in past \/ d = disk
      BY DEF PastGrows
    <3>2. \/ Settled(d, f) \/ Held(d) = f \/ f \in tally.back
          \/ Aside(d, f) /\ disk.at[journal.to] = f
      BY <1>1, <1>4, <3>1
    <3> QED
      BY <1>1, <1>2, <1>4, <1>7, <3>2 DEF Aside
  <2> QED
    BY <2>1, <2>2
<1> QED
  BY <1>6, <1>7

\* What the journal has back at the path comes back there.
LEMMA ExplainedBack ==
  ASSUME Typed, Explained, PastGrows, Held(disk) = None,
         Held(disk') = disk.at[journal.to],
         disk'.owed = disk.owed, disk'.superseded = disk.superseded,
         tally'.excused = tally.excused \ {Held(disk')}, tally'.undone = tally.undone,
         tally'.back = tally.back \cup {Held(disk')},
         Claimed' \subseteq Claimed \cup {Held(disk')}
  PROVE  Explained'
<1> SUFFICES ASSUME NEW f \in Claimed'
             PROVE  /\ Settled(disk, f)' \/ Held(disk') = f \/ Aside(disk, f)'
                    /\ \A d \in past' : \/ Settled(d, f)' \/ Held(d) = f \/ f \in tally'.back
                                        \/ Aside(d, f)' /\ disk'.at[journal'.to] = f
  BY DEF Explained
<1>1. CASE f = Held(disk')
  BY <1>1
<1>2. CASE f # Held(disk')
  <2>1. /\ f \in Claimed /\ f # None
        /\ Settled(disk, f) \/ Held(disk) = f \/ Aside(disk, f)
        /\ \A d \in past : \/ Settled(d, f) \/ Held(d) = f \/ f \in tally.back
                           \/ Aside(d, f) /\ disk.at[journal.to] = f
    BY <1>2 DEF Explained, Claimed
  <2>2. \A d : Settled(d, f) => Settled(d, f)'
    BY <1>2 DEF Settled
  <2>3. Settled(disk, f) => Settled(disk, f)'
    BY <1>2 DEF Settled
  <2>4. ~Aside(disk, f) /\ disk.at[journal.to] # f
    BY <1>2 DEF Aside
  <2> QED
    BY <2>1, <2>2, <2>3, <2>4 DEF PastGrows
<1> QED
  BY <1>1, <1>2

LEMMA ExplainedByUser ==
  ASSUME Typed, DisksWhole, Sound, KnownNumbered, Explained, User
  PROVE  Explained'
<1>1. PICK k \in Kept : UserWrites(k) \/ UserRemoves(k) \/ (k = "path" /\ UserMovesParent)
  <2>1. CASE \E s \in Kept : UserWrites(s) \/ UserRemoves(s)
    BY <2>1
  <2>2. CASE UserMovesParent
    BY <2>2 DEF Kept
  <2> QED
    BY <2>1, <2>2 DEF User
<1>2. PICK made \in {0, 1} :
         /\ Edit(k, made) /\ past' = {}
         /\ UNCHANGED <<store, pc, op, writes>>
         /\ \/ made = 1 /\ disk' = Made(Taken(disk, k), k)
            \/ disk' = Taken(disk, k)
            \/ disk' = [Taken(disk, k) EXCEPT !.parent = ~@]
  BY <1>1 DEF UserWrites, UserRemoves, UserMovesParent, Settles
<1> DEFINE n == tally.files + 1
<1>3. /\ disk \in Disks /\ tally \in Tallies /\ tally.files \in Nat /\ Kept \subseteq Spots
      /\ \A s \in Spots : disk.at[s] \in 0..tally.files
      /\ disk.owed \subseteq 1..tally.files
      /\ record \in 0..tally.files /\ op.expected \in 0..tally.files
  BY Spotted
  DEF Typed, TypeOK, Disks, Tallies, Sound, Numbered, KnownNumbered, Each
<1>4. /\ disk'.at[k] \in {None, n} /\ \A s \in Spots \ {k} : disk'.at[s] = disk.at[s]
      /\ disk'.owed \subseteq (disk.owed \ {disk.at[k]}) \cup {n}
      /\ disk'.superseded = disk.superseded
  <2> DEFINE d == Taken(disk, k)
  <2>1. /\ d.at = [disk.at EXCEPT ![k] = None] /\ d.owed = disk.owed \ {disk.at[k]}
        /\ d.superseded = disk.superseded /\ DOMAIN d = {"at", "parent", "owed", "superseded"}
    BY <1>3 DEF Taken, Disks
  <2>2. \/ /\ disk'.at = [d.at EXCEPT ![k] = n] /\ disk'.owed = d.owed \cup {n}
           /\ disk'.superseded = d.superseded
        \/ disk'.at = d.at /\ disk'.owed = d.owed /\ disk'.superseded = d.superseded
    <3> HIDE DEF d
    <3> QED
      BY <1>2, <2>1 DEF Made, d
  <2> QED
    BY <1>3, <2>1, <2>2 DEF Disks
<1>5. /\ tally'.undone = tally.undone /\ tally.excused \subseteq tally'.excused
      /\ k = "path" => \A s \in Kept : disk.at[s] \in tally'.excused
  BY <1>2, <1>3, EditSays
<1>6. SUFFICES ASSUME NEW f \in Claimed', Held(disk') # f
               PROVE  Settled(disk, f)' \/ Aside(disk, f)'
  BY <1>2 DEF Explained
<1>7. f # None /\ f # n /\ (f \in Claimed \/ f \in {record, op.expected})
  BY <1>2, <1>3, <1>6 DEF Claimed, store
<1>8. CASE k = "path"
  <2>1. CASE f \in disk.owed
    <3>1. PICK s \in Kept : disk.at[s] = f
      BY <2>1 DEF DisksWhole, Whole
    <3> QED
      BY <1>5, <1>8, <3>1 DEF Settled
  <2>2. CASE f \notin disk.owed
    BY <1>4, <1>7, <2>2 DEF Settled
  <2> QED
    BY <2>1, <2>2
<1>9. CASE k # "path"
  <2>1. Held(disk') = Held(disk) /\ f \in Claimed
    BY <1>2, <1>3, <1>4, <1>9, Spotted DEF Held, Kept, Claimed, store
  <2>2. Settled(disk, f) \/ Aside(disk, f)
    BY <1>6, <2>1 DEF Explained
  <2>3. Settled(disk, f) => Settled(disk, f)'
    BY <1>4, <1>5, <1>7 DEF Settled
  <2>4. ASSUME Aside(disk, f)
        PROVE  Settled(disk, f)' \/ Aside(disk, f)'
    <3>1. /\ Journal(writes) # NoRow /\ journal.to \in Kept /\ journal.temp \in Spots \ Kept
          /\ disk.at[journal.to] = f /\ disk.at[journal.temp] # None
      BY <2>4, Spotted DEF Aside, Journal, Typed, TypeOK, Rows, Asides
    <3>2. Journal(writes)' = Journal(writes) /\ journal' = journal
      BY <1>2 DEF Journal, store
    <3>3. CASE journal.to = k
      BY <1>4, <1>7, <3>1, <3>3 DEF Settled
    <3>4. CASE journal.to # k
      BY <1>3, <1>4, <3>1, <3>2, <3>4 DEF Aside
    <3> QED
      BY <3>3, <3>4
  <2> QED
    BY <2>2, <2>3, <2>4
<1> QED
  BY <1>8, <1>9

\* What is claimed at a moment is what was, and is at the path.
LEMMA ExplainedSays ==
  ASSUME Typed, Explained, NEW f \in Claimed
  PROVE  /\ f # None
         /\ Settled(disk, f) \/ Held(disk) = f \/ Aside(disk, f)
         /\ \A d \in past : \/ Settled(d, f) \/ Held(d) = f \/ f \in tally.back
                            \/ Aside(d, f) /\ disk.at[journal.to] = f
         /\ \A d : Aside(d, f) =>
                /\ Journal(writes) = journal /\ journal # NoRow
                /\ journal.to \in Asides /\ journal.temp \in Temps
                /\ d.at[journal.to] = f /\ d.at[journal.temp] # None
<1>1. /\ f # None
      /\ Settled(disk, f) \/ Held(disk) = f \/ Aside(disk, f)
      /\ \A d \in past : \/ Settled(d, f) \/ Held(d) = f \/ f \in tally.back
                         \/ Aside(d, f) /\ disk.at[journal.to] = f
  BY DEF Explained, Claimed
<1>2. \A d : Aside(d, f) =>
          /\ Journal(writes) = journal /\ journal # NoRow
          /\ journal.to \in Asides /\ journal.temp \in Temps
          /\ d.at[journal.to] = f /\ d.at[journal.temp] # None
  BY Spotted DEF Aside, Journal, Typed, TypeOK, Rows, Asides
<1> QED
  BY <1>1, <1>2

LEMMA ExplainedDisplaced ==
  ASSUME Typed, DisksWhole, RowKnown, Control, Explained, Displaced
  PROVE  Explained'
<1> USE DEF At
<1>1. /\ disk' = Rename(disk, "path", op.to) /\ PastGrows /\ disk.at[op.to] = None
      /\ UNCHANGED <<journal, record, mode, op, writes, tally>>
      /\ op.to \in Asides /\ op.temp \in Temps /\ disk \in Disks /\ writes = NoWrites
      /\ journal # NoRow /\ journal.to = op.to /\ journal.temp = op.temp
      /\ disk.at[op.temp] # None /\ pc' = "placing" /\ op.result # "applied"
  BY DEF Displaced, CanRename, Do, PastGrows, store, Typed, Commits, DisksWhole, Whole, Control,
         Pending, TempTells, Reports, RowKnown, Moves, Guarded
<1>2. /\ disk'.at[op.to] = Held(disk) /\ disk'.at[op.temp] = disk.at[op.temp]
      /\ Held(disk') = None /\ disk'.owed = disk.owed /\ disk'.superseded = disk.superseded
  BY <1>1, Spotted DEF Rename, Disks, Held, Kept
<1>3. Journal(writes)' # NoRow
  BY <1>1 DEF Journal, NoWrites
<1> SUFFICES ASSUME NEW f \in Claimed'
             PROVE  /\ Settled(disk, f)' \/ Held(disk') = f \/ Aside(disk, f)'
                    /\ \A d \in past' : \/ Settled(d, f)' \/ Held(d) = f \/ f \in tally'.back
                                        \/ Aside(d, f)' /\ disk'.at[journal'.to] = f
  BY DEF Explained
<1>4. f \in Claimed
  BY <1>1, <1>2 DEF Claimed
<1>5. ~Aside(disk, f) /\ disk.at[journal.to] # f
  BY <1>1, <1>4 DEF Aside, Claimed
<1>6. Settled(disk, f)' \/ Aside(disk, f)'
  <2>1. Settled(disk, f) \/ Held(disk) = f
    BY <1>4, <1>5, ExplainedSays
  <2> QED
    BY <1>1, <1>2, <1>3, <2>1 DEF Settled, Aside
<1>7. \A d : Settled(d, f) => Settled(d, f)'
  BY <1>1 DEF Settled
<1> QED
  BY <1>1, <1>4, <1>5, <1>6, <1>7, ExplainedSays DEF PastGrows

\* What a commit placed no one could claim before, and what it displaced it
\* replaced.
LEMMA ExplainedPlaced ==
  ASSUME Typed, DisksWhole, RowKnown, Sound, Control, Explained, Placed
  PROVE  Explained'
<1> USE DEF At
<1> DEFINE g == disk.at[op.temp]
<1>1. /\ PastGrows /\ UNCHANGED <<journal, record, writes, tally>>
      /\ op.temp \in Temps /\ disk \in Disks /\ writes = NoWrites
      /\ disk' = [Rename(disk, op.temp, "path") EXCEPT
                    !.owed = @ \cup {g},
                    !.superseded = @ \cup {disk.at[s] : s \in Kept \cap {op.to}}]
      /\ g # None /\ Held(disk) = None /\ pc = "placing" /\ op.result # "applied"
      /\ op'.expected = g
      /\ op.to # "none" => journal.to = op.to /\ op.to \in Asides
      /\ op.to = "none" => record = None
  BY DEF Placed, CanRename, Held, Do, PastGrows, store, Typed, Commits, DisksWhole, Whole, Control,
         Pending, Aims, Reports, RowKnown, Moves, Guarded
<1>2. /\ Held(disk') = g
      /\ disk'.owed = disk.owed \cup {g} /\ disk.superseded \subseteq disk'.superseded
      /\ \A s \in Kept \cap {op.to} : disk.at[s] \in disk'.superseded
      /\ \A s \in Asides : disk'.at[s] = disk.at[s]
  <2> DEFINE e == Rename(disk, op.temp, "path")
  <2>1. /\ e.at = [[disk.at EXCEPT ![op.temp] = None] EXCEPT !["path"] = g]
        /\ e.owed = disk.owed /\ e.superseded = disk.superseded
        /\ DOMAIN e = {"at", "parent", "owed", "superseded"}
    BY <1>1 DEF Rename, Disks
  <2>2. /\ disk'.at = e.at /\ disk'.owed = e.owed \cup {g}
        /\ disk'.superseded = e.superseded \cup {disk.at[s] : s \in Kept \cap {op.to}}
    <3> HIDE DEF e, g
    <3> QED
      BY <1>1, <2>1 DEF e
  <2> QED
    BY <1>1, <2>1, <2>2, Spotted DEF Disks, Held, Kept
<1> SUFFICES ASSUME NEW f \in Claimed'
             PROVE  /\ Settled(disk, f)' \/ Held(disk') = f \/ Aside(disk, f)'
                    /\ \A d \in past' : \/ Settled(d, f)' \/ Held(d) = f \/ f \in tally'.back
                                        \/ Aside(d, f)' /\ disk'.at[journal'.to] = f
  BY DEF Explained
<1>3. f = g \/ (f = record /\ f \in Claimed)
  BY <1>1, <1>2 DEF Claimed
<1>4. CASE f = g
  <2>1. \A d \in past' : f \notin d.owed
    BY <1>1, <1>4 DEF Sound, TempsOwn, Each, PastGrows
  <2> QED
    BY <1>2, <1>4, <2>1 DEF Settled
<1>5. CASE f = record /\ f \in Claimed /\ f # g
  <2>1. f # None /\ op.to # "none" /\ journal.to = op.to /\ op.to \in Asides /\ op.to \in Kept
    BY <1>1, <1>5, ExplainedSays, Spotted
  <2>2. \A d : /\ Settled(d, f) => Settled(d, f)'
               /\ Aside(d, f) => Aside(d, f)'
    BY <1>1 DEF Settled, Aside, Journal
  <2>3. Settled(disk, f) \/ Aside(disk, f)
    BY <1>1, <1>5, <2>1, ExplainedSays
  <2>4. Settled(disk, f)'
    BY <1>1, <1>2, <1>5, <2>1, <2>3 DEF Settled, Aside
  <2>5. disk'.at[journal'.to] = disk.at[journal.to]
    BY <1>1, <1>2, <2>1
  <2> QED
    BY <1>5, <2>2, <2>3, <2>4, <2>5, ExplainedSays DEF PastGrows, Aside, Placed, Do
<1> QED
  BY <1>3, <1>4, <1>5

LEMMA ExplainedRemoved ==
  ASSUME Typed, DisksWhole, Control, Explained, Removed
  PROVE  Explained'
<1> USE DEF At
<1>1. PICK to \in Places :
         /\ CanRename(disk, "path", to) /\ PastGrows
         /\ disk' = [Rename(disk, "path", to) EXCEPT !.superseded = @ \cup {Held(disk)}]
         /\ writes' = [NoWrites EXCEPT !.rows = {r \in {<<to, op.expected>>} : to \in Trash}]
  BY DEF Removed, Do, PastGrows
<1>2. /\ UNCHANGED <<journal, record, tally>> /\ disk \in Disks /\ writes = NoWrites
      /\ to \in Asides /\ disk.at[to] = None /\ op'.expected = None /\ writes'.gone = FALSE
  BY <1>1
  DEF Removed, store, DisksWhole, Whole, Control, Pending, Guarded, Places, Free, Asides,
      CanRename, Typed, Commits, NoWrites
<1>3. /\ Held(disk') = None /\ disk'.owed = disk.owed
      /\ disk'.superseded = disk.superseded \cup {Held(disk)}
      /\ \A s \in Spots \ {"path", to} : disk'.at[s] = disk.at[s]
  BY <1>1, <1>2, Spotted DEF Rename, Disks, Held, Kept
<1> SUFFICES ASSUME NEW f \in Claimed'
             PROVE  /\ Settled(disk, f)' \/ Held(disk') = f \/ Aside(disk, f)'
                    /\ \A d \in past' : \/ Settled(d, f)' \/ Held(d) = f \/ f \in tally'.back
                                        \/ Aside(d, f)' /\ disk'.at[journal'.to] = f
  BY DEF Explained
<1>4. f \in Claimed
  BY <1>2, <1>3 DEF Claimed
<1>5. /\ \A d : Settled(d, f) => Settled(d, f)'
      /\ Settled(disk, f) \/ Held(disk) = f => Settled(disk, f)'
  BY <1>2, <1>3 DEF Settled
<1>6. Aside(disk, f) \/ (\E d : Aside(d, f) /\ disk.at[journal.to] = f) =>
          disk'.at[journal.to] = f /\ disk'.at[journal.temp] = disk.at[journal.temp]
  <2>1. f # None /\ journal.to \in Asides /\ journal.temp \in Temps
            /\ disk.at[journal.to] = f /\ journal.to # to
        => journal.to \in Spots \ {"path", to} /\ journal.temp \in Spots \ {"path", to}
    BY <1>2, Spotted DEF Kept
  <2> QED
    BY <1>2, <1>3, <1>4, <2>1, ExplainedSays
<1>7. \A d : Aside(d, f) => Aside(d, f)'
  BY <1>2 DEF Aside, Journal, NoWrites
<1>8. Aside(disk, f) => Aside(disk, f)'
  BY <1>2, <1>6, <1>7 DEF Aside, Journal, NoWrites
<1> QED
  BY <1>1, <1>2, <1>4, <1>5, <1>6, <1>7, <1>8, ExplainedSays DEF PastGrows, Aside

LEMMA ExplainedTakenBack ==
  ASSUME Typed, Explained, PowerLoss
  PROVE  Explained'
<1>1. /\ disk' \in past /\ past' = {} /\ UNCHANGED store /\ writes' = NoWrites
      /\ pc' = "idle" /\ op' = NoOp
  BY DEF PowerLoss, Down
<1>2. /\ tally'.excused = tally.excused /\ tally.undone \subseteq tally'.undone
      /\ \A b \in tally.back : Held(disk') # b => Files \subseteq tally'.undone
  BY <1>1 DEF PowerLoss, Typed, Tallies
<1> SUFFICES ASSUME NEW f \in Claimed', Held(disk') # f
             PROVE  Settled(disk, f)' \/ Aside(disk, f)'
  BY <1>1 DEF Explained
<1>3. f = record /\ f \in Claimed /\ f \in Files
  BY <1>1 DEF Claimed, NoOp, store, Typed, TypeOK, Maybe
<1>4. CASE Settled(disk', f)
  BY <1>2, <1>4 DEF Settled
<1>5. CASE f \in tally.back
  BY <1>2, <1>3, <1>5 DEF Settled
<1>6. CASE Aside(disk', f)
  BY <1>1, <1>3, <1>6, ExplainedSays DEF Aside, Journal, NoWrites, store
<1> QED
  BY <1>1, <1>3, <1>4, <1>5, <1>6, ExplainedSays

\* Steps that leave the disk as it is, and the row if there is one.
LEMMA ExplainedQuiet ==
  ASSUME Typed, DisksWhole, RowKnown, Control, Explained,
         \/ Asked \/ BeginResolve \/ NotOpen \/ ResolveFails \/ ResolveRecorded \/ Guard
         \/ PlaceTaken \/ Stranded \/ NotSynced \/ NotRemoved \/ Report \/ Observe
         \/ Crash \/ UndoFails \/ Up \/ UNCHANGED vars
  PROVE  Explained'
<1> USE DEF At
<1>0. op \in Commits /\ disk \in Disks /\ tally \in Tallies
  BY DEF Typed, DisksWhole, Whole
<1>1. /\ PastGrows /\ disk'.at = disk.at /\ disk'.owed = disk.owed
      /\ disk'.superseded = disk.superseded
  <2>1. CASE Guard
    BY <1>0, <2>1 DEF Guard, DiskStays, Do, PastGrows, Disks
  <2>2. CASE ~Guard
    BY <2>2
    DEF Asked, Begin, BeginResolve, NotOpen, ResolveFails, ResolveRecorded, PlaceTaken, Stranded,
        NotSynced, NotRemoved, Report, Observe, Crash, UndoFails, Up, DiskStays, vars, PastGrows
  <2> QED
    BY <2>1, <2>2
<1>2. /\ tally'.excused = tally.excused /\ tally'.undone = tally.undone
      /\ tally'.back = tally.back
  <2>1. CASE ResolveFails \/ Stranded \/ NotSynced \/ NotRemoved \/ UndoFails
    BY <1>0, <2>1, FaultSays DEF ResolveFails, Stranded, NotSynced, NotRemoved, UndoFails
  <2>2. CASE Crash
    BY <1>0, <2>2 DEF Crash, Count, Tallies
  <2>3. CASE \/ Asked \/ BeginResolve \/ NotOpen \/ ResolveRecorded \/ Guard \/ PlaceTaken
             \/ Report \/ Observe \/ Up \/ UNCHANGED vars
    BY <2>3
    DEF Asked, Begin, BeginResolve, NotOpen, ResolveRecorded, Guard, PlaceTaken, Report,
        Observe, Up, vars
  <2> QED
    BY <2>1, <2>2, <2>3
<1>3. Claimed' \subseteq Claimed
  <2> SUFFICES /\ record' \in Claimed \cup {None}
               /\ pc' = "landed" \/ op'.result = "applied" => op'.expected \in Claimed \cup {None}
    BY <1>1 DEF Claimed, Held
  <2>a. {record, Held(disk)} \subseteq Claimed \cup {None}
    BY DEF Claimed
  <2>b. pc = "landed" \/ op.result = "applied" => op.expected \in Claimed \cup {None}
    BY DEF Claimed
  <2>1. CASE Asked \/ BeginResolve
    <3>1. record' = record /\ pc' = "resolving"
      BY <2>1 DEF Asked, Begin, BeginResolve, store
    <3>2. op'.result = "none"
      BY <2>1 DEF Asked, Begin, BeginResolve, NoOp
    <3> QED
      BY <2>a, <3>1, <3>2
  <2>2. CASE NotOpen \/ ResolveRecorded \/ PlaceTaken \/ Up \/ UNCHANGED vars
    <3>1. record' = record /\ op' = op /\ (pc' = "landed" => pc = "landed")
      BY <2>2 DEF NotOpen, ResolveRecorded, PlaceTaken, Up, Next1, store, vars
    <3> QED
      BY <2>a, <2>b, <3>1
  <2>3. CASE ResolveFails \/ Stranded \/ NotRemoved
    <3>1. record' = record /\ pc' # "landed" /\ (op' = op \/ op'.result # "applied")
      BY <1>0, <2>3 DEF ResolveFails, Stranded, NotRemoved, Ends, Next1, store, Commits
    <3> QED
      BY <2>a, <2>b, <3>1
  <2>4. CASE NotSynced
    <3>1. record' = record /\ pc = "landed" /\ op'.expected = op.expected
      BY <1>0, <2>4 DEF NotSynced, Ends, store, Commits
    <3> QED
      BY <2>a, <2>b, <3>1
  <2>5. CASE Guard
    <3>1. /\ record' = record /\ pc' # "landed" /\ op'.expected = op.expected
          /\ op'.result = "applied" => op.result = "applied" \/ Held(disk) = op.expected
      BY <1>0, <2>5 DEF Guard, Ends, store, Commits
    <3> QED
      BY <2>a, <2>b, <3>1
  <2>6. CASE Report
    <3>1. /\ record' \in {record, Held(disk)} \/ (op.result = "applied" /\ record' = op.expected)
          /\ pc' = "idle" /\ op'.result = "none"
      BY <2>6 DEF Report, NoOp
    <3> QED
      BY <2>a, <2>b, <3>1
  <2>7. CASE Observe
    <3>1. record' \in {record, Held(disk)} /\ op' = op /\ pc' = pc
      BY <2>7 DEF Observe, Observed
    <3> QED
      BY <2>a, <2>b, <3>1
  <2>8. CASE Crash
    <3>1. record' = record /\ pc' = "idle" /\ op'.result = "none"
      BY <2>8 DEF Crash, Down, NoOp, store
    <3> QED
      BY <2>a, <3>1
  <2>9. CASE UndoFails
    <3>1. record' = record /\ op' = op /\ pc' = pc
      BY <2>9 DEF UndoFails, Undo, store
    <3> QED
      BY <2>a, <2>b, <3>1
  <2> QED
    BY <2>1, <2>2, <2>3, <2>4, <2>5, <2>6, <2>7, <2>8, <2>9
<1>4. Journal(writes) = NoRow \/ (Journal(writes)' # NoRow /\ journal' = journal)
  <2>1. writes' = writes \/ writes' = NoWrites
    BY <1>0
    DEF Asked, Begin, BeginResolve, NotOpen, ResolveFails, ResolveRecorded, Guard, PlaceTaken,
        Stranded, NotSynced, NotRemoved, Report, Observe, Crash, Down, UndoFails, Undo, Up, Ends,
        Durable, vars
  <2>2. journal' = journal \/ journal' = Journal(writes)
    BY DEF Asked, Begin, BeginResolve, NotOpen, ResolveFails, ResolveRecorded, Guard, PlaceTaken,
        Stranded, NotSynced, NotRemoved, Report, Observe, Crash, Down, UndoFails, Undo, Up, Ends,
        Durable, vars, store
  <2> QED
    BY <2>1, <2>2 DEF Journal, NoWrites
<1> QED
  BY <1>1, <1>2, <1>3, <1>4, ExplainedStays

\* What a start or a fetch does to what nobody claims, and to old trash.
LEMMA ExplainedTidied ==
  ASSUME Typed, DisksWhole, RowKnown, Control, Explained,
         NEW claimed \in SUBSET Temps, NEW old \in SUBSET Trash, Tidy(claimed, old)
  PROVE  Explained'
<1> DEFINE cleared == old \cup (Temps \ (claimed \cup {open.temp}))
           d == [disk EXCEPT !.at = [s \in Spots |-> IF s \in cleared THEN None
                                                     ELSE disk.at[s]],
                             !.owed = @ \ {disk.at[t] : t \in old}]
<1>1. /\ mode = "undone" /\ UNCHANGED <<journal, record, pc, op, tally>>
      /\ disk' = d /\ PastGrows /\ (old # {} => past' = {}) /\ writes'.gone = writes.gone
      /\ disk \in Disks
  BY DEF Tidy, Do, Settles, PastGrows, store, Typed, Changes, DisksWhole, Whole
<1>2. /\ disk'.at = [s \in Spots |-> IF s \in cleared THEN None ELSE disk.at[s]]
      /\ disk'.owed = disk.owed \ {disk.at[t] : t \in old}
      /\ disk'.superseded = disk.superseded
  <2>1. /\ d.at = [s \in Spots |-> IF s \in cleared THEN None ELSE disk.at[s]]
        /\ d.owed = disk.owed \ {disk.at[t] : t \in old} /\ d.superseded = disk.superseded
    BY <1>1 DEF Disks
  <2> QED
    BY <1>1, <2>1
<1>3. Held(disk') = Held(disk)
  BY <1>2, Spotted, BoundsAssumption DEF Held, Kept
<1>4. Claimed' = Claimed
  BY <1>1, <1>3 DEF Claimed
<1>5. Journal(writes)' = Journal(writes) /\ journal' = journal
  BY <1>1 DEF Journal
<1>6. Journal(writes) # NoRow => journal.temp \in Temps /\ journal.temp = open.temp
  BY <1>1 DEF Journal, RowKnown, Matches, Typed, TypeOK, Rows
<1>7. Journal(writes) # NoRow => disk'.at[journal.temp] = disk.at[journal.temp]
  BY <1>2, <1>6, Spotted, BoundsAssumption
<1>8. CASE old = {}
  <2>1. \A s \in Kept : disk'.at[s] = disk.at[s]
    BY <1>2, <1>8, Spotted
  <2>2. disk'.owed \subseteq disk.owed /\ disk.superseded \subseteq disk'.superseded
    BY <1>2
  <2> QED
    BY <1>1, <1>4, <1>5, <1>7, <2>1, <2>2, ExplainedStays
<1>9. CASE old # {}
  <2> SUFFICES ASSUME NEW f \in Claimed', Held(disk') # f
               PROVE  Settled(disk, f)' \/ Aside(disk, f)'
    BY <1>1, <1>9 DEF Explained
  <2>1. Settled(disk, f) \/ Aside(disk, f)
    BY <1>3, <1>4, ExplainedSays
  <2>2. CASE Settled(disk, f)
    BY <1>1, <1>2, <2>2 DEF Settled
  <2>3. CASE Aside(disk, f)
    <3>1. Journal(writes) # NoRow /\ journal.to \in Spots \ Temps /\ disk.at[journal.to] = f
      BY <1>4, <2>3, ExplainedSays, Spotted DEF Aside
    <3>2. CASE journal.to \in old
      BY <1>2, <3>1, <3>2 DEF Settled
    <3>3. CASE journal.to \notin old
      BY <1>2, <1>5, <1>7, <2>3, <3>1, <3>3 DEF Aside
    <3> QED
      BY <3>2, <3>3
  <2> QED
    BY <2>1, <2>2, <2>3
<1> QED
  BY <1>8, <1>9

LEMMA ExplainedFetched ==
  ASSUME Typed, DisksWhole, Explained, NEW t \in Temps, Fetch(t)
  PROVE  Explained'
<1>1. /\ PastGrows /\ UNCHANGED <<journal, record, pc, op, writes>> /\ disk \in Disks
      /\ t # journal.temp /\ disk' = [disk EXCEPT !.at[t] = tally.files + 1]
  BY DEF Fetch, Do, PastGrows, store, DisksWhole, Whole
<1>2. /\ \A s \in Spots \ {t} : disk'.at[s] = disk.at[s]
      /\ disk'.owed = disk.owed /\ disk'.superseded = disk.superseded
  BY <1>1 DEF Disks
<1>3. /\ tally'.excused = tally.excused /\ tally'.undone = tally.undone
      /\ tally'.back = tally.back
  BY DEF Fetch, Count, Typed, Tallies
<1>4. \A s \in Kept : disk'.at[s] = disk.at[s]
  BY <1>2, Spotted
<1>5. Claimed' = Claimed
  BY <1>1, <1>4 DEF Claimed, Held, Kept
<1>6. Journal(writes)' = Journal(writes) /\ journal' = journal
  BY <1>1 DEF Journal
<1>7. Journal(writes) # NoRow => disk'.at[journal.temp] = disk.at[journal.temp]
  BY <1>1, <1>2, Spotted DEF Journal, Typed, TypeOK, Rows
<1> QED
  BY <1>1, <1>2, <1>3, <1>4, <1>5, <1>6, <1>7, ExplainedStays

\* A commit that has displaced nothing gives up: a row that is still open is
\* of one that landed.
LEMMA ExplainedNotPlaced ==
  ASSUME Typed, DisksWhole, RowKnown, Control, Explained, NotPlaced
  PROVE  Explained'
<1> USE DEF At
<1>1. /\ PastGrows /\ UNCHANGED <<journal, record>> /\ disk \in Disks /\ tally \in Tallies
      /\ pc' # "landed" /\ op'.result # "applied" /\ writes = NoWrites /\ writes' = NoWrites
      /\ pc = "placing" /\ mode = "up" /\ op.temp \in Temps
  BY DEF NotPlaced, Ends, Do, DiskStays, PastGrows, store, DisksWhole, Whole, Typed, Commits,
         Control, Pending, Reports
<1>2. /\ tally'.excused = tally.excused /\ tally'.undone = tally.undone
      /\ tally'.back = tally.back
  BY <1>1, FaultSays DEF NotPlaced
<1>3. /\ \A s \in Spots \ {op.temp} : disk'.at[s] = disk.at[s]
      /\ disk'.owed = disk.owed /\ disk'.superseded = disk.superseded
      /\ op.to # "none" => disk' = disk
  <2>1. CASE op.to # "none"
    BY <2>1 DEF NotPlaced, DiskStays
  <2>2. CASE op.to = "none"
    <3>1. PICK d \in Discarded(disk) : disk' = Undone(d)
      BY <2>2 DEF NotPlaced, Do
    <3>2. /\ \A s \in Spots \ {op.temp} : d.at[s] = disk.at[s]
          /\ d.owed = disk.owed /\ d.superseded = disk.superseded /\ DOMAIN d = DOMAIN disk
      BY <1>1 DEF Discarded, Clear, Disks
    <3>3. disk'.at = d.at /\ disk'.owed = d.owed /\ disk'.superseded = d.superseded
      BY <3>1 DEF Undone
    <3> QED
      BY <2>2, <3>2, <3>3
  <2> QED
    BY <2>1, <2>2
<1>4. \A s \in Kept : disk'.at[s] = disk.at[s]
  BY <1>1, <1>3, Spotted
<1>5. Claimed' \subseteq Claimed
  BY <1>1, <1>4 DEF Claimed, Held, Kept
<1>6. Journal(writes) = NoRow \/ (Journal(writes)' # NoRow /\ journal' = journal)
  BY <1>1 DEF Journal
<1>7. Journal(writes) # NoRow /\ disk.at[journal.temp] # None => disk'.at[journal.temp] # None
  <2>1. CASE op.to # "none"
    BY <1>3, <2>1
  <2>2. CASE op.to = "none" /\ journal # NoRow
    <3>1. open # NoRow /\ open.temp = journal.temp /\ open.kind # "displaced"
      BY <1>1, <2>2 DEF RowKnown, Moves, Matches, Control, TempTells
    <3>2. disk.at[journal.temp] = None
      BY <3>1 DEF Typed, TypeOK, Rows, Control, TempTells
    <3> QED
      BY <3>2
  <2> QED
    BY <2>1, <2>2 DEF Journal
<1> QED
  BY <1>1, <1>2, <1>3, <1>4, <1>5, <1>6, <1>7, ExplainedStays

\* While a commit is guarded nothing that is claimed is aside.
LEMMA GuardedClaims ==
  ASSUME Typed, Sound, Control, pc \in Guarded, NEW s \in Asides
  PROVE  disk.at[s] \notin Claimed
<1>1. disk.at[s] # record /\ op.result # "applied" /\ pc # "landed"
  BY DEF Control, Aims, Reports, Guarded
<1>2. disk.at[s] # None => disk.at[s] # Held(disk)
  BY Spotted DEF Sound, Apart, Each, Held, Kept
<1> QED
  BY <1>1, <1>2 DEF Claimed

\* The row goes, with what it had back at the path left aside, known to be
\* replaced, or never gone.
LEMMA ExplainedUnrowed ==
  ASSUME Typed, DisksWhole, RowKnown, Sound, Control, Explained,
         \/ ResolveLeave \/ UndoLeft \/ LeftAside \/ ResolveSync \/ Synced \/ UndoLanded
         \/ NothingToUndo \/ Journalled \/ NoPlace \/ NotDisplaced
  PROVE  Explained'
<1> USE DEF At
<1>0. op \in Commits /\ disk \in Disks /\ tally \in Tallies /\ op.temp \in Temps \cup {"none"}
  BY DEF Typed, DisksWhole, Whole, Commits
<1>1. /\ PastGrows /\ \A s \in Kept : disk'.at[s] = disk.at[s]
      /\ disk'.owed = disk.owed /\ disk'.superseded = disk.superseded
  <2>1. CASE LeftAside \/ NotDisplaced
    <3>1. PICK d \in Discarded(disk) : Do(d)
      BY <2>1 DEF LeftAside, NotDisplaced
    <3>2. /\ \A s \in Kept : d.at[s] = disk.at[s]
          /\ d.owed = disk.owed /\ d.superseded = disk.superseded
      BY <1>0, Spotted DEF Discarded, Clear, Disks
    <3> QED
      BY <3>1, <3>2 DEF Do, PastGrows
  <2>2. CASE ~(LeftAside \/ NotDisplaced)
    BY <2>2
    DEF ResolveLeave, UndoLeft, ResolveSync, Synced, UndoLanded, NothingToUndo, Journalled,
        NoPlace, DiskStays, Fsync, PastGrows
  <2> QED
    BY <2>1, <2>2
<1>2. Claimed' \subseteq Claimed
  <2>1. record' = record /\ Held(disk') = Held(disk)
    BY <1>1
    DEF ResolveLeave, UndoLeft, LeftAside, ResolveSync, Synced, UndoLanded, NothingToUndo,
        Journalled, NoPlace, NotDisplaced, Resolved, Undo, store, Held, Kept
  <2>2. CASE Synced
    <3>1. pc = "landed" /\ op'.expected = op.expected
      BY <1>0, <2>2 DEF Synced, Ends, Commits
    <3> QED
      BY <2>1, <3>1 DEF Claimed
  <2>3. CASE ResolveLeave \/ ResolveSync \/ UndoLeft \/ UndoLanded \/ NothingToUndo
    <3>1. op' = op /\ (pc' = "landed" => pc = "landed")
      BY <2>3 DEF ResolveLeave, ResolveSync, Resolved, UndoLeft, UndoLanded, NothingToUndo, Undo
    <3> QED
      BY <2>1, <3>1 DEF Claimed
  <2>4. CASE LeftAside \/ Journalled \/ NoPlace \/ NotDisplaced
    <3>1. pc' # "landed" /\ op'.result # "applied"
      BY <1>0, <2>4
      DEF LeftAside, Journalled, NoPlace, NotDisplaced, Ends, Commits, Control, Reports
    <3> QED
      BY <2>1, <3>1 DEF Claimed
  <2> QED
    BY <2>2, <2>3, <2>4
<1>3. /\ tally.excused \subseteq tally'.excused /\ tally'.undone = tally.undone
      /\ tally.back \subseteq tally'.back \cup tally'.excused
      /\ ResolveLeave => disk.at[open.to] \in tally'.excused
      /\ UndoLeft => disk.at[journal.to] \in tally'.excused
      /\ LeftAside => disk.at[op.to] \in tally'.excused
  <2>1. CASE ResolveLeave \/ UndoLeft \/ LeftAside
    <3>1. PICK f : /\ tally' = Excuse(tally, {f})
                   /\ ResolveLeave => f = disk.at[open.to]
                   /\ UndoLeft => f = disk.at[journal.to]
                   /\ LeftAside => f = disk.at[op.to]
      <4>1. CASE ResolveLeave
        BY <4>1, Zenon DEF ResolveLeave, UndoLeft, LeftAside, ToUndo, RowKnown
      <4> QED
        BY <2>1, <4>1 DEF ResolveLeave, UndoLeft, LeftAside, ToUndo
    <3> QED
      BY <1>0, <3>1, ExcuseSays
  <2>2. CASE ~(ResolveLeave \/ UndoLeft \/ LeftAside)
    <3>1. Fault \/ UNCHANGED tally
      BY <2>2
      DEF ResolveSync, Synced, UndoLanded, NothingToUndo, Journalled, NoPlace, NotDisplaced
    <3> QED
      BY <1>0, <2>2, <3>1, FaultSays
  <2> QED
    BY <2>1, <2>2
<1>4. \/ Journal(writes) = NoRow
      \/ /\ Journal(writes)' # NoRow /\ journal' = journal
         /\ disk.at[journal.temp] # None => disk'.at[journal.temp] # None
      \/ disk.at[journal.to] \notin Claimed \ tally'.excused
      \/ past' = {} /\ disk.at[journal.temp] = None
  <2> SUFFICES ASSUME Journal(writes) # NoRow
               PROVE  \/ /\ Journal(writes)' # NoRow /\ journal' = journal
                         /\ disk.at[journal.temp] # None => disk'.at[journal.temp] # None
                      \/ disk.at[journal.to] \notin Claimed \ tally'.excused
                      \/ past' = {} /\ disk.at[journal.temp] = None
    OBVIOUS
  <2>0. journal # NoRow /\ journal.to \in Asides /\ ~writes.gone
    BY DEF Journal, Typed, TypeOK, Rows, Asides
  <2>1. CASE ResolveLeave
    <3>1. open.to = journal.to
      BY <2>1 DEF ResolveLeave, RowKnown, Matches
    <3> QED
      BY <1>3, <2>1, <3>1
  <2>2. CASE UndoLeft
    BY <1>3, <2>2
  <2>3. CASE LeftAside
    <3>1. op.to = journal.to
      BY <2>3 DEF LeftAside, RowKnown, Moves, Typed
    <3> QED
      BY <1>3, <2>3, <3>1
  <2>4. CASE ResolveSync
    <3>1. past' = {} /\ open # NoRow /\ open.temp = journal.temp
      BY <2>4 DEF ResolveSync, Fsync, ToSync, RowKnown, Matches
    <3>2. open.kind = "unsynced" \/ (open.kind = "displaced" /\ disk.at[open.temp] = None)
      BY <2>4, <3>1 DEF ResolveSync, ToSync, ToGoBack, Typed, TypeOK, Rows
    <3> QED
      BY <3>1, <3>2 DEF Control, TempTells
  <2>5. CASE Synced
    <3>1. past' = {} /\ pc = "landed" /\ mode = "up" /\ writes' =
              [writes EXCEPT !.gone = op.kind = "write" /\ op.to # "none"] /\ journal' = journal
          /\ disk' = disk
      BY <2>5 DEF Synced, Fsync, Ends, store
    <3>2. CASE op.to # "none"
      <4>1. op.kind = "write" /\ journal.temp = op.temp
        BY <3>1, <3>2 DEF Typed, RowKnown, Moves
      <4> QED
        BY <3>1, <4>1 DEF Control, TempTells
    <3>3. CASE op.to = "none"
      <4>1. ~writes'.gone
        BY <3>1, <3>3 DEF Typed, Changes
      <4> QED
        BY <2>0, <3>1, <4>1 DEF Journal
    <3> QED
      BY <3>2, <3>3
  <2>6. CASE UndoLanded
    BY <2>6 DEF UndoLanded, Fsync
  <2>7. CASE NothingToUndo
    <3>1. disk.at[journal.to] = None
      BY <2>0, <2>7 DEF NothingToUndo, ToUndo
    <3> QED
      BY <3>1 DEF Claimed
  <2>8. CASE Journalled \/ NoPlace \/ NotDisplaced
    <3>1. pc \in Guarded
      BY <2>8 DEF Journalled, NoPlace, NotDisplaced, Guarded
    <3> QED
      BY <2>0, <3>1, GuardedClaims
  <2> QED
    BY <2>1, <2>2, <2>3, <2>4, <2>5, <2>6, <2>7, <2>8
<1>5. disk'.owed \subseteq disk.owed /\ disk.superseded \subseteq disk'.superseded
      /\ tally.undone \subseteq tally'.undone
  BY <1>1, <1>3
<1> QED
  BY <1>1, <1>2, <1>3, <1>4, <1>5, ExplainedStays

LEMMA ExplainedReturned ==
  ASSUME Typed, DisksWhole, RowKnown, Control, Explained,
         ResolveBack \/ PutBack \/ UndoBack
  PROVE  Explained'
<1> USE DEF At
<1>0. disk \in Disks /\ op \in Commits /\ tally \in Tallies /\ op.temp \in Temps \cup {"none"}
  BY DEF Typed, DisksWhole, Whole, Commits
<1> DEFINE e == Rename(disk, journal.to, "path")
<1>1. /\ CanRename(disk, journal.to, "path") /\ PastGrows /\ journal # NoRow
      /\ disk' = e \/ disk' = Clear(e, op.temp)
      /\ record' = record
      /\ (op' = op /\ (pc' = "landed" => pc = "landed"))
             \/ (pc' = "reporting" /\ op'.result = "failed")
  <2>1. CASE ResolveBack
    <3>1. open # NoRow /\ open.to = journal.to /\ journal # NoRow
      BY <2>1, BoundsAssumption DEF ResolveBack, ToGoBack, NoRow, RowKnown, Matches
    <3> QED
      BY <2>1, <3>1 DEF ResolveBack, Resolved, Do, PastGrows, store
  <2>2. CASE PutBack
    <3>1. op.to = journal.to /\ journal # NoRow
      BY <2>2 DEF PutBack, Typed, RowKnown, Moves
    <3>2. pc' = "reporting" /\ op'.result = "failed" /\ record' = record /\ PastGrows
      BY <1>0, <2>2 DEF PutBack, Ends, Commits, store, Do, PastGrows
    <3> QED
      BY <2>2, <3>1, <3>2 DEF PutBack, Discarded, Do
  <2>3. CASE UndoBack
    BY <2>3 DEF UndoBack, ToUndo, Undo, Do, PastGrows, store
  <2> QED
    BY <2>1, <2>2, <2>3
<1>2. /\ disk.at[journal.to] # None /\ Held(disk) = None /\ journal.to \in Asides
  BY <1>1 DEF CanRename, Held, Typed, TypeOK, Rows, Asides
<1>3. Held(disk') = disk.at[journal.to] /\ disk'.owed = disk.owed
      /\ disk'.superseded = disk.superseded
  <2>1. /\ e.at = [[disk.at EXCEPT ![journal.to] = None] EXCEPT !["path"] = disk.at[journal.to]]
        /\ e.owed = disk.owed /\ e.superseded = disk.superseded
        /\ DOMAIN e = {"at", "parent", "owed", "superseded"}
    BY <1>0, <1>2, Spotted DEF Rename, Disks, Kept
  <2>2. e.at["path"] = disk.at[journal.to] /\ DOMAIN e.at = Spots /\ "path" \in Spots
    BY <1>0, <2>1, Spotted DEF Disks, Kept
  <2>3. disk'.at["path"] = e.at["path"] /\ disk'.owed = e.owed /\ disk'.superseded = e.superseded
    <3> HIDE DEF e
    <3> QED
      BY <1>0, <1>1, <2>1, <2>2, Spotted DEF Clear, Kept
  <2> QED
    BY <2>1, <2>2, <2>3 DEF Held
<1>4. /\ tally'.excused = tally.excused \ {Held(disk')} /\ tally'.undone = tally.undone
      /\ tally'.back = tally.back \cup {Held(disk')}
  <2>1. CASE ResolveBack \/ PutBack
    <3>1. tally' = CameBack(tally, disk.at[journal.to])
      <4>1. CASE ResolveBack
        BY <4>1, BoundsAssumption DEF ResolveBack, ToGoBack, NoRow, RowKnown, Matches
      <4>2. CASE PutBack
        BY <4>2 DEF PutBack, Typed, RowKnown, Moves
      <4> QED
        BY <2>1, <4>1, <4>2
    <3> QED
      BY <1>0, <1>3, <3>1, CameBackSays
  <2>2. CASE UndoBack
    <3> DEFINE t == [tally EXCEPT !.faults = @ + 1]
    <3>1. /\ t \in Tallies /\ t.excused = tally.excused /\ t.undone = tally.undone
          /\ t.back = tally.back
      BY <1>0, NotedTyped DEF Tallies
    <3>2. tally' = CameBack(tally, Held(disk')) \/ tally' = CameBack(t, Held(disk'))
      BY <2>2 DEF UndoBack, Do
    <3> HIDE DEF t
    <3>3. CASE tally' = CameBack(tally, Held(disk'))
      BY <1>0, <3>3, CameBackSays
    <3>4. CASE tally' = CameBack(t, Held(disk'))
      BY <3>1, <3>4, CameBackSays
    <3> QED
      BY <3>2, <3>3, <3>4
  <2> QED
    BY <2>1, <2>2
<1>5. Claimed' \subseteq Claimed \cup {Held(disk')}
  BY <1>1 DEF Claimed
<1> QED
  BY <1>1, <1>2, <1>3, <1>4, <1>5, ExplainedBack

LEMMA ExplainedKept ==
  ASSUME Typed, DisksWhole, RowKnown, Sound, KnownNumbered, Control, Explained, [Next]_vars
  PROVE  Explained'
<1>1. CASE User
  BY <1>1, ExplainedByUser
<1>2. CASE \E t \in Temps : Fetch(t)
  BY <1>2, ExplainedFetched
<1>3. CASE \/ Asked \/ BeginResolve \/ NotOpen \/ ResolveFails \/ ResolveRecorded \/ Guard
           \/ PlaceTaken \/ Stranded \/ NotSynced \/ NotRemoved \/ Report \/ Observe
           \/ Crash \/ UndoFails \/ Up \/ UNCHANGED vars
  BY <1>3, ExplainedQuiet
<1>4. CASE \/ ResolveLeave \/ UndoLeft \/ LeftAside \/ ResolveSync \/ Synced \/ UndoLanded
           \/ NothingToUndo \/ Journalled \/ NoPlace \/ NotDisplaced
  BY <1>4, ExplainedUnrowed
<1>5. CASE ResolveBack \/ PutBack \/ UndoBack
  BY <1>5, ExplainedReturned
<1>6. CASE Displaced \/ Placed \/ NotPlaced \/ Removed
  BY <1>6, ExplainedDisplaced, ExplainedPlaced, ExplainedNotPlaced, ExplainedRemoved
<1>7. CASE PowerLoss
  BY <1>7, ExplainedTakenBack
<1>8. CASE \E claimed \in SUBSET Temps, old \in SUBSET Trash : Tidy(claimed, old)
  BY <1>8, ExplainedTidied
<1> QED
  BY <1>1, <1>2, <1>3, <1>4, <1>5, <1>6, <1>7, <1>8 DEF Next, Steps, Resolve, Write, Start

-----------------------------------------------------------------------------
(* What holds throughout.                                                     *)

LEMMA InitAccounts == Init => Accounts
<1> SUFFICES ASSUME Init PROVE Accounts
  OBVIOUS
<1>1. /\ Each = {disk} /\ "path" \in Kept /\ "path" \in Spots /\ "path" \notin Temps
      /\ "path" \notin Asides /\ Trash \subseteq Asides /\ Asides \subseteq Spots
      /\ Temps \subseteq Spots
  BY Spotted DEF Init, Each, Kept, Asides
<1>2. /\ disk.at["path"] = 1 /\ \A s \in Spots \ {"path"} : disk.at[s] = None
      /\ disk.owed = {1} /\ disk.superseded = {} /\ tally.files = 1
  BY <1>1 DEF Init
<1>3. Sound
  BY <1>1, <1>2 DEF Sound, Numbered, Apart, TempsOwn, Replaced, Held, None
<1>4. KnownNumbered /\ RowLive
  BY <1>2 DEF Init, KnownNumbered, RowLive, NoOp, None
<1>5. Control
  BY DEF Init, Control, Pending, TempTells, Aims, Reports, NoOp, NoRow, Before, Guarded, Moves
<1>6. TrashKnown
  BY <1>1, <1>2 DEF Init, TrashKnown, Listed, Guarded
<1>7. Explained
  BY <1>2 DEF Init, Explained, Claimed, Held, NoOp
<1> QED
  BY <1>3, <1>4, <1>5, <1>6, <1>7 DEF Accounts

LEMMA StepAccounts ==
  ASSUME IInv, IInv', Accounts, [Next]_vars
  PROVE  Accounts'
<1>1. /\ Typed /\ DisksWhole /\ RowKnown /\ Typed' /\ tally \in Tallies
      /\ Sound /\ KnownNumbered /\ RowLive /\ Control /\ TrashKnown /\ Explained
      /\ Pending /\ TempTells /\ Aims /\ Reports
  BY DEF IInv, Accounts, Control, Typed
<1>2. DiskStep
  BY <1>1, DiskSteps
<1>3. Sound'
  BY <1>1, <1>2, SoundKept
<1>4. KnownNumbered'
  BY <1>1, <1>2, KnownNumberedKept
<1>5. RowLive'
  BY <1>1, <1>2, RowLiveKept
<1>6. Pending' /\ TempTells' /\ Aims' /\ Reports'
  BY <1>1, PendingKept, TempTellsKept, AimsKept, ReportsKept
<1>7. TrashKnown'
  BY <1>1, TrashKnownKept
<1>8. Explained'
  BY <1>1, ExplainedKept
<1> QED
  BY <1>3, <1>4, <1>5, <1>6, <1>7, <1>8 DEF Accounts, Control

THEOREM AccountsAlways == Spec => [](IInv /\ Accounts)
<1>1. Init => IInv /\ Accounts
  BY InitTyped, InitWhole, InitKnown, InitAccounts DEF IInv
<1>2. IInv /\ [Next]_vars => IInv'
  BY StepWhole, StepTyped, StepKnown DEF IInv
<1>3. IInv /\ IInv' /\ Accounts /\ [Next]_vars => Accounts'
  BY StepAccounts
<1> QED
  BY <1>1, <1>2, <1>3, PTL DEF Spec

\* What commits move to the trash is listed there once the commit is reported
\* or the start is done, so it can be pruned, whatever failed on the way.
THEOREM TrashIsListed == Spec => []TrashAccounted
<1>1. IInv /\ Accounts => TrashAccounted
  <2> SUFFICES ASSUME IInv, Accounts, mode = "up", pc = "idle"
               PROVE  \A t \in Trash :
                          disk.at[t] \notin tally.strays \cup {None} => trashRows[t] # None
    BY DEF TrashAccounted
  <2>1. Listed /\ writes = NoWrites /\ Typed
    BY DEF IInv, Accounts, TrashKnown, Control, Pending
  <2> QED
    BY <2>1, RowsSay DEF Listed
<1> QED
  BY <1>1, AccountsAlways, PTL

\* The index is never told that a file was deleted which the host moved aside
\* and has back, or may yet put back: the user took it, a commit replaced it,
\* or a power loss undid what brought it back.
THEOREM DeletionsAreReal == Spec => NoPhantomDeletion
<1> DEFINE Real == Absent => Excused(record) \/ record \in tally.undone
<1>1. IInv /\ Accounts /\ [Next]_vars => [Real]_vars
  <2> SUFFICES ASSUME IInv, Accounts, Next, Absent
               PROVE  Excused(record) \/ record \in tally.undone
    OBVIOUS
  <2>1. /\ Typed /\ RowKnown /\ Control /\ Explained
        /\ record # None /\ record' = None /\ op.result # "applied"
    BY DEF IInv, Accounts, Absent
  <2>2. Report \/ Observe
    BY <2>1
    DEF Next, User, UserWrites, UserRemoves, UserMovesParent, Fetch, Asked, Begin, BeginResolve,
        Steps, Resolve, Write, Start, NotOpen, ResolveBack, ResolveLeave, ResolveSync, Resolved,
        ResolveFails, ResolveRecorded, Guard, Journalled, NoPlace, Displaced, PlaceTaken,
        NotDisplaced, Placed, NotPlaced, PutBack, LeftAside, Stranded, Synced, NotSynced,
        Removed, NotRemoved, Crash, PowerLoss, Down, NothingToUndo, UndoBack, UndoLeft,
        UndoLanded, UndoFails, Undo, Up, Tidy, store
  <2>3. Held(disk) = None /\ Journal(writes) = NoRow
    <3>1. CASE Report
      <4>1. Held(disk) = None /\ open' = NoRow /\ mode = "up" /\ pc = "reporting"
            /\ open' = IF writes.gone THEN NoRow ELSE open
        BY <2>1, <3>1 DEF Report, At
      <4> QED
        BY <2>1, <4>1 DEF Journal, RowKnown, Matches
    <3>2. CASE Observe
      <4>1. Held(disk) = None /\ open = NoRow /\ mode = "up" /\ pc = "idle"
        BY <2>1, <3>2 DEF Observe, Observed, At
      <4> QED
        BY <2>1, <4>1 DEF Journal, RowKnown, Matches
    <3> QED
      BY <2>2, <3>1, <3>2
  <2>4. record \in Claimed
    BY <2>1 DEF Claimed
  <2>5. Settled(disk, record)
    BY <2>1, <2>3, <2>4 DEF Explained, Aside
  <2> QED
    BY <2>5 DEF Settled, Excused
<1> QED
  BY <1>1, AccountsAlways, PTL DEF Spec, NoPhantomDeletion

\* What a commit replaced is not brought back to the path by a later commit, a
\* resolve or a start, unless a power loss takes back the commit itself.
THEOREM ReplacedStaysAway == Spec => NoResurrection
<1> DEFINE Away == Held(disk') \in disk.superseded \ {None} =>
                       Held(disk') = Held(disk) \/ tally'.crashes # tally.crashes
<1>1. IInv /\ Accounts /\ [Next]_vars => [Away]_vars
  <2> SUFFICES ASSUME IInv, Accounts, [Next]_vars
               PROVE  Away
    OBVIOUS
  <2>1. DiskStep /\ tally.files \in Nat
    BY DiskSteps, EachGrows DEF IInv, Accounts, Typed, Tallies
  <2>2. /\ disk.superseded \subseteq 0..tally.files
        /\ \A t \in Temps : disk.at[t] \notin disk.superseded \ {None}
        /\ "path" \in Spots /\ "path" \notin Temps /\ "path" \notin Asides
    BY Spotted DEF Accounts, Sound, Numbered, TempsOwn, Each, Kept
  <2>3. tally.files + 1 \notin disk.superseded
    BY <2>1, <2>2
  <2> USE <2>2, <2>3 DEF Held
  <2>4. ASSUME NEW C \in SUBSET Spots, Clears(C)
        PROVE  Away
    BY <2>4 DEF Clears
  <2>5. ASSUME NEW s \in Asides, Returns(s) \/ GoesAside(s)
        PROVE  Away
    BY <2>5 DEF Returns, GoesAside
  <2>6. ASSUME NEW t \in Temps, Lands(t) \/ Comes(t)
        PROVE  Away
    BY <2>6 DEF Lands, Comes
  <2>7. ASSUME NEW s \in Kept, UserAt(s, 0) \/ UserAt(s, 1)
        PROVE  Away
    BY <2>7 DEF UserAt
  <2>8. CASE TakenBack
    BY <2>8 DEF TakenBack
  <2> QED
    BY <2>1, <2>4, <2>5, <2>6, <2>7, <2>8 DEF DiskStep
<1> QED
  BY <1>1, AccountsAlways, PTL DEF Spec, NoResurrection

=============================================================================
