----------------------------- MODULE CommitProofs -----------------------------
(* Proofs about Commit: no file is lost, and a path that the journal has a    *)
(* row of is known to have one, for any number of places, files, failures,    *)
(* crashes and things the user does.                                          *)
EXTENDS Commit, TLAPS

\* Where a displaced file may go.
Asides == Trash \cup {"copy"}

Disks ==
    [at : [Spots -> Maybe(Files)], parent : BOOLEAN, owed : SUBSET Files,
     superseded : SUBSET Maybe(Files)]

\* A disk on which nothing somebody may claim is missing.
Whole(d) ==
    /\ d \in Disks
    /\ \A f \in d.owed : \E s \in Kept : d.at[s] = f

\* What the disk may be taken back to is as whole as what it is.
DisksWhole == Whole(disk) /\ \A d \in past : Whole(d)

Commits ==
    [kind : {"none", "write", "remove", "resolve"}, temp : Temps \cup {"none"},
     displace : {"none", "trash", "copy"}, expected : Maybe(Files), to : Asides \cup {"none"},
     created : BOOLEAN, result : {"none", "applied", "changed", "failed", "blind"}]

Changes == [gone : BOOLEAN, unrow : SUBSET Trash, rows : SUBSET (Trash \X Files)]

Tallies ==
    [files : 0..MaxFiles, edits : Nat, faults : Nat, crashes : Nat,
     back : SUBSET Maybe(Files), excused : SUBSET Maybe(Files),
     undone : SUBSET Maybe(Files), strays : SUBSET Files]

Moves == {"guarded", "journalled", "placing", "undoing", "landed"}

\* A commit that has come past its guard has something to do it with.
Typed ==
    /\ TypeOK
    /\ op \in Commits /\ writes \in Changes /\ tally \in Tallies
    /\ op.kind = "write" => op.temp \in Temps
    /\ op.to # "none" => op.kind = "write"
    /\ pc # "idle" /\ op.kind # "resolve" =>
           op.displace \in {"trash", "copy"} /\ op.kind \in {"write", "remove"}
    /\ pc \in {"looking"} \cup Moves => op.kind # "resolve"
    /\ pc \in {"guarded", "journalled"} => op.expected \in Files
    /\ pc \in {"journalled", "undoing"} => op.to # "none"
    /\ pc \in {"journalled", "placing", "undoing"} => op.kind = "write"

\* The open row is the journal's row.
Matches ==
    (journal = NoRow <=> open = NoRow) /\ open.to = journal.to /\ open.temp = journal.temp

\* Who knows of the row: memory, the commit that made it, or the changes that
\* take it away.
RowKnown ==
    /\ mode = "down" => open = NoRow
    /\ pc \in {"idle", "resolving", "recording", "looking"} => op.to = "none"
    /\ mode = "up" /\ pc \in {"idle", "resolving", "looking"} => Matches
    /\ mode = "up" /\ pc \in Moves =>
           IF op.to = "none" THEN Matches
           ELSE journal # NoRow /\ journal.to = op.to /\ journal.temp = op.temp
    /\ mode = "up" /\ pc = "recording" => writes.gone /\ open = NoRow
    /\ mode = "up" /\ pc = "reporting" => writes.gone \/ Matches
    /\ mode \in {"undone", "tidied"} => IF writes.gone THEN open = NoRow ELSE Matches
    /\ mode # "up" => pc = "idle"

IInv == Typed /\ DisksWhole /\ RowKnown

-----------------------------------------------------------------------------
(* What the steps do to a disk.                                               *)

LEMMA Spotted ==
    /\ Kept \cap Temps = {} /\ "none" \notin Spots /\ "path" \notin Asides
    /\ Asides \subseteq Kept /\ Kept \subseteq Spots /\ Temps \subseteq Spots
  BY BoundsAssumption DEF Kept, Spots, Asides

\* A rename to a place that is empty loses no file.
LEMMA RenameWhole ==
  ASSUME NEW d, Whole(d), NEW from \in Spots, NEW to \in Kept, d.at[to] = None
  PROVE  Whole(Rename(d, from, to))
<1> DEFINE e == Rename(d, from, to)
<1>1. e \in Disks
  BY Spotted DEF Whole, Disks, Rename, Maybe, None
<1>2. ASSUME NEW f \in e.owed
      PROVE  \E s \in Kept : e.at[s] = f
  <2>1. f \in d.owed /\ f \in Files
    BY <1>2 DEF Rename, Whole, Disks
  <2>2. PICK s \in Kept : d.at[s] = f
    BY <2>1 DEF Whole
  <2>3. f # None
    BY <2>1, BoundsAssumption DEF Files, None
  <2>4. CASE s = from
    BY <2>2, <2>3, <2>4, Spotted DEF Rename, Whole, Disks
  <2>5. CASE s # from
    BY <2>2, <2>3, <2>5, Spotted DEF Rename, Whole, Disks
  <2> QED
    BY <2>4, <2>5
<1> QED
  BY <1>1, <1>2 DEF Whole

\* Nor does taking a temp file away.
LEMMA ClearWhole ==
  ASSUME NEW d, Whole(d), NEW temp \in Temps \cup {"none"}
  PROVE  Whole(Clear(d, temp))
  BY Spotted DEF Whole, Disks, Clear, Maybe, None

LEMMA ParentWhole ==
  ASSUME NEW d, Whole(d), NEW p \in BOOLEAN
  PROVE  Whole([d EXCEPT !.parent = p])
  BY DEF Whole, Disks

LEMMA TakenWhole ==
  ASSUME NEW d, Whole(d), NEW spot \in Kept
  PROVE  Whole(Taken(d, spot)) /\ Taken(d, spot).at[spot] = None
  BY Spotted DEF Whole, Disks, Taken, Maybe, None

LEMMA MadeWhole ==
  ASSUME NEW d, Whole(d), NEW spot \in Kept, d.at[spot] = None,
         tally.files \in Nat, tally.files < MaxFiles
  PROVE  Whole(Made(d, spot))
<1> DEFINE f == tally.files + 1
           e == Made(d, spot)
<1>1. f \in Files
  BY BoundsAssumption DEF Files
<1>2. e \in Disks /\ e.owed = d.owed \cup {f} /\ e.at = [d.at EXCEPT ![spot] = f]
  BY <1>1, Spotted DEF Whole, Disks, Made, Maybe
<1>3. ASSUME NEW g \in d.owed
      PROVE  \E s \in Kept : e.at[s] = g
  <2>1. PICK s \in Kept : d.at[s] = g
    BY DEF Whole
  <2>2. g # None
    BY BoundsAssumption DEF Whole, Disks, Files, None
  <2> QED
    BY <1>2, <2>1, <2>2, Spotted DEF Whole, Disks
<1>4. e.at[spot] = f
  BY <1>2, Spotted DEF Whole, Disks
<1> QED
  BY <1>2, <1>3, <1>4 DEF Whole

LEMMA DoWhole ==
  ASSUME DisksWhole, NEW d, Whole(d), Do(d) \/ Settles(d)
  PROVE  DisksWhole'
  BY DEF DisksWhole, Do, Settles

LEMMA StayWhole ==
  ASSUME DisksWhole, DiskStays \/ Fsync
  PROVE  DisksWhole'
  BY DEF DisksWhole, DiskStays, Fsync

-----------------------------------------------------------------------------
(* No file is lost.                                                           *)

LEMMA InitWhole == Init => DisksWhole
<1> SUFFICES ASSUME Init PROVE DisksWhole
  OBVIOUS
<1>1. disk \in Disks
  BY BoundsAssumption, Spotted DEF Init, Disks, Maybe, Files, None
<1>2. disk.at["path"] = 1 /\ "path" \in Kept
  BY Spotted DEF Init, Kept, Spots
<1> QED
  BY <1>1, <1>2 DEF Init, DisksWhole, Whole

\* Each step leaves every file that was owed where somebody finds it.
LEMMA StepWhole ==
  ASSUME Typed, DisksWhole, [Next]_vars
  PROVE  DisksWhole'
<1> USE DEF At
<1>0. Whole(disk) /\ tally.files \in Nat
  BY DEF DisksWhole, Typed, Tallies
<1>1. ASSUME NEW s \in Kept, UserWrites(s)
      PROVE  DisksWhole'
  <2>1. tally.files < MaxFiles /\ Settles(Made(Taken(disk, s), s))
    BY <1>1 DEF UserWrites
  <2>2. Whole(Taken(disk, s)) /\ Taken(disk, s).at[s] = None
    BY <1>0, TakenWhole
  <2>3. Whole(Made(Taken(disk, s), s))
    BY <1>0, <2>1, <2>2, MadeWhole
  <2> QED
    BY <2>1, <2>3, DoWhole
<1>2. ASSUME NEW s \in Kept, UserRemoves(s)
      PROVE  DisksWhole'
  BY <1>0, <1>2, TakenWhole, DoWhole DEF UserRemoves
<1>3. CASE UserMovesParent
  <2>1. Settles([Taken(disk, "path") EXCEPT !.parent = ~@])
    BY <1>3 DEF UserMovesParent
  <2>2. "path" \in Kept
    BY DEF Kept
  <2>3. Whole(Taken(disk, "path"))
    BY <1>0, <2>2, TakenWhole
  <2>4. Taken(disk, "path").parent \in BOOLEAN
    BY <2>3 DEF Whole, Disks
  <2>5. Whole([Taken(disk, "path") EXCEPT !.parent = ~@])
    BY <2>3, <2>4, ParentWhole
  <2> QED
    BY <2>1, <2>5, DoWhole
<1>4. ASSUME NEW t \in Temps, Fetch(t)
      PROVE  DisksWhole'
  <2> DEFINE d == [disk EXCEPT !.at[t] = tally.files + 1]
  <2>1. tally.files < MaxFiles /\ Do(d)
    BY <1>4 DEF Fetch
  <2>2. tally.files + 1 \in Files
    BY <1>0, <2>1, BoundsAssumption DEF Files
  <2>3. Whole(d)
    BY <1>0, <2>2, Spotted DEF Whole, Disks, Maybe
  <2> QED
    BY <2>1, <2>3, DoWhole
<1>5. CASE \/ Asked \/ BeginResolve \/ NotOpen \/ ResolveLeave \/ ResolveSync
           \/ ResolveFails \/ ResolveRecorded \/ Journalled \/ NoPlace \/ PlaceTaken
           \/ Stranded \/ Synced \/ NotSynced \/ Report \/ Observe
           \/ Crash \/ NothingToUndo \/ UndoLeft \/ UndoLanded \/ UndoFails \/ Up
  BY <1>5, StayWhole
  DEF Asked, Begin, BeginResolve, NotOpen, ResolveLeave, ResolveSync, ResolveFails,
      ResolveRecorded, Journalled, NoPlace, PlaceTaken, Stranded, Synced, NotSynced,
      Report, Observe, Crash, NothingToUndo, UndoLeft, UndoLanded, UndoFails, Up
<1>6. CASE ResolveBack
  <2>1. open.to \in Asides
    BY <1>6 DEF ResolveBack, ToGoBack, Typed, TypeOK, Rows, NoRow, Asides
  <2>2. Whole(Rename(disk, open.to, "path"))
    BY <1>0, <1>6, <2>1, Spotted, RenameWhole DEF ResolveBack, CanRename, Kept
  <2> QED
    BY <1>6, <2>2, DoWhole DEF ResolveBack
<1>7. CASE Guard
  <2>1. \/ DiskStays
        \/ Do([disk EXCEPT !.parent = TRUE])
    BY <1>7 DEF Guard
  <2> QED
    BY <1>0, <2>1, ParentWhole, DoWhole, StayWhole
<1>8. CASE Displaced
  <2>1. op.to \in Asides
    BY <1>8 DEF Displaced, Typed, Commits
  <2> QED
    BY <1>0, <1>8, <2>1, Spotted, RenameWhole, DoWhole DEF Displaced, CanRename, Kept
<1>9. op.temp \in Temps \cup {"none"}
  BY DEF Typed, Commits
<1>10. CASE NotDisplaced
  BY <1>0, <1>9, <1>10, ClearWhole, DoWhole DEF NotDisplaced, Discarded
<1>11. CASE Placed
  <2> DEFINE f == disk.at[op.temp]
             d == Rename(disk, op.temp, "path")
             u == disk.superseded \cup {disk.at[s] : s \in Kept \cap {op.to}}
             e == [d EXCEPT !.owed = @ \cup {f}, !.superseded = u]
  <2>1. op.temp \in Temps /\ CanRename(disk, op.temp, "path")
    BY <1>11 DEF Placed, Typed
  <2>2. f \in Files /\ Do(e)
    BY <1>0, <1>11, <2>1, Spotted
    DEF Placed, CanRename, Whole, Disks, Maybe, None, Rename
  <2>3. "path" \in Kept /\ op.temp \in Spots
    BY <2>1, Spotted DEF Kept
  <2>4. Whole(d)
    BY <1>0, <2>1, <2>3, RenameWhole DEF CanRename
  <2>5. Whole(d) /\ d.at["path"] = f /\ d.superseded = disk.superseded
    BY <1>0, <2>3, <2>4, Spotted DEF Whole, Disks, Rename
  <2>6. u \in SUBSET Maybe(Files)
    BY <1>0, Spotted DEF Whole, Disks
  <2>7. /\ e.at = d.at /\ e.owed = d.owed \cup {f} /\ e \in Disks
        /\ "path" \in Kept
    BY <2>2, <2>5, <2>6 DEF Whole, Disks, Kept
  <2>8. Whole(e)
    BY <2>5, <2>7 DEF Whole
  <2> QED
    BY <2>2, <2>8, DoWhole
<1>12. CASE NotPlaced
  <2>1. ASSUME NEW d \in Discarded(disk)
        PROVE  Whole(Undone(d))
    BY <1>0, <1>9, <2>1, ClearWhole, ParentWhole DEF Discarded, Undone
  <2> QED
    BY <1>12, <2>1, DoWhole, StayWhole DEF NotPlaced
<1>13. CASE PutBack
  <2>1. op.to \in Asides
    BY <1>13 DEF PutBack, Typed, Commits
  <2>2. Whole(Rename(disk, op.to, "path"))
    BY <1>0, <1>13, <2>1, Spotted, RenameWhole DEF PutBack, CanRename, Kept
  <2> QED
    BY <1>9, <1>13, <2>2, ClearWhole, DoWhole DEF PutBack, Discarded
<1>14. CASE LeftAside
  BY <1>0, <1>9, <1>14, ClearWhole, DoWhole DEF LeftAside, Discarded
<1>15. CASE Removed
  <2>1. PICK to \in Places :
           /\ CanRename(disk, "path", to)
           /\ Do([Rename(disk, "path", to) EXCEPT !.superseded = @ \cup {Held(disk)}])
    BY <1>15 DEF Removed
  <2>2. to \in Asides
    BY <2>1 DEF Places, Free, Asides
  <2>3. Whole(Rename(disk, "path", to))
    BY <1>0, <2>1, <2>2, Spotted, RenameWhole DEF CanRename, Kept, Spots
  <2>4. Held(disk) \in Maybe(Files)
    BY <1>0, Spotted DEF Held, Whole, Disks, Kept, Spots
  <2>5. Whole([Rename(disk, "path", to) EXCEPT !.superseded = @ \cup {Held(disk)}])
    BY <2>3, <2>4 DEF Whole, Disks
  <2> QED
    BY <2>1, <2>5, DoWhole
<1>16. CASE NotRemoved
  BY <1>16, StayWhole DEF NotRemoved
<1>17. CASE PowerLoss
  BY <1>17 DEF PowerLoss, DisksWhole
<1>18. CASE UndoBack
  <2>1. journal.to \in Asides
    BY <1>18 DEF UndoBack, ToUndo, Typed, TypeOK, Rows, NoRow, Asides
  <2>2. Whole(Rename(disk, journal.to, "path"))
    BY <1>0, <1>18, <2>1, Spotted, RenameWhole DEF UndoBack, CanRename, Kept
  <2>3. \/ Do(Rename(disk, journal.to, "path"))
        \/ Settles(Rename(disk, journal.to, "path"))
    BY <1>18 DEF UndoBack, Settles
  <2> QED
    BY <2>2, <2>3, DoWhole
<1>19. ASSUME NEW claimed \in SUBSET Temps, NEW old \in SUBSET Trash, Tidy(claimed, old)
       PROVE  DisksWhole'
  <2> DEFINE cleared == old \cup (Temps \ (claimed \cup {open.temp}))
             d == [disk EXCEPT !.at = [s \in Spots |-> IF s \in cleared THEN None
                                                       ELSE disk.at[s]],
                               !.owed = @ \ {disk.at[t] : t \in old}]
  <2>1. Do(d) \/ Settles(d)
    BY <1>19 DEF Tidy
  <2>2. /\ d.at = [s \in Spots |-> IF s \in cleared THEN None ELSE disk.at[s]]
        /\ d.owed = disk.owed \ {disk.at[t] : t \in old}
        /\ d \in Disks
    BY <1>0 DEF Whole, Disks, Maybe
  <2>3. ASSUME NEW f \in d.owed
        PROVE  \E s \in Kept : d.at[s] = f
    <3>1. PICK s \in Kept : disk.at[s] = f
      BY <1>0, <2>2 DEF Whole
    <3>2. s \notin cleared /\ s \in Spots
      BY <2>2, <3>1, Spotted
    <3> QED
      BY <2>2, <3>1, <3>2
  <2>4. Whole(d)
    BY <2>2, <2>3 DEF Whole
  <2> QED
    BY <2>1, <2>4, DoWhole
<1>20. CASE UNCHANGED vars
  BY <1>20 DEF vars, DisksWhole
<1> QED
  BY <1>1, <1>2, <1>3, <1>4, <1>5, <1>6, <1>7, <1>8, <1>10, <1>11, <1>12, <1>13, <1>14,
     <1>15, <1>16, <1>17, <1>18, <1>19, <1>20
  DEF Next, User, Steps, Resolve, Write, Start

-----------------------------------------------------------------------------
(* Types.                                                                     *)

LEMMA InitTyped == Init => Typed
  BY BoundsAssumption, InitWhole
  DEF Init, Typed, TypeOK, DisksWhole, Whole, Disks, Rows, NoRow, Commits, NoOp, Changes, NoWrites,
      Tallies, Maybe, Files, None, Moves

LEMMA TallyUpdated ==
  ASSUME NEW t \in Tallies
  PROVE  /\ \A n \in 0..MaxFiles : [t EXCEPT !.files = n] \in Tallies
         /\ \A k \in Nat : [t EXCEPT !.edits = k] \in Tallies
         /\ \A k \in Nat : [t EXCEPT !.faults = k] \in Tallies
         /\ \A k \in Nat : [t EXCEPT !.crashes = k] \in Tallies
         /\ \A fs \in SUBSET Maybe(Files) : [t EXCEPT !.back = fs] \in Tallies
         /\ \A fs \in SUBSET Maybe(Files) : [t EXCEPT !.excused = fs] \in Tallies
         /\ \A fs \in SUBSET Maybe(Files) : [t EXCEPT !.undone = fs] \in Tallies
         /\ \A ss \in SUBSET Files : [t EXCEPT !.strays = ss] \in Tallies
<1>1. \A n \in 0..MaxFiles : [t EXCEPT !.files = n] \in Tallies
  BY DEF Tallies
<1>2. \A k \in Nat : [t EXCEPT !.edits = k] \in Tallies
  BY DEF Tallies
<1>3. \A k \in Nat : [t EXCEPT !.faults = k] \in Tallies
  BY DEF Tallies
<1>4. \A k \in Nat : [t EXCEPT !.crashes = k] \in Tallies
  BY DEF Tallies
<1>5. \A fs \in SUBSET Maybe(Files) : [t EXCEPT !.back = fs] \in Tallies
  BY DEF Tallies
<1>6. \A fs \in SUBSET Maybe(Files) : [t EXCEPT !.excused = fs] \in Tallies
  BY DEF Tallies
<1>7. \A fs \in SUBSET Maybe(Files) : [t EXCEPT !.undone = fs] \in Tallies
  BY DEF Tallies
<1>8. \A ss \in SUBSET Files : [t EXCEPT !.strays = ss] \in Tallies
  BY DEF Tallies
<1> QED
  BY <1>1, <1>2, <1>3, <1>4, <1>5, <1>6, <1>7, <1>8

LEMMA TallyTyped ==
  ASSUME NEW t \in Tallies
  PROVE  /\ t.files \in 0..MaxFiles /\ {t.edits, t.faults, t.crashes} \subseteq Nat
         /\ {t.back, t.excused, t.undone} \subseteq SUBSET Maybe(Files)
         /\ t.strays \in SUBSET Files
  BY DEF Tallies

\* What is counted, and what history notes of a file, has its type.
LEMMA NotedTyped ==
  ASSUME NEW t \in Tallies
  PROVE  /\ \A f \in Maybe(Files) : CameBack(t, f) \in Tallies
         /\ \A fs \in SUBSET Maybe(Files) : Excuse(t, fs) \in Tallies
         /\ [t EXCEPT !.faults = @ + 1] \in Tallies
<1>1. ASSUME NEW f \in Maybe(Files)
      PROVE  CameBack(t, f) \in Tallies
  <2> DEFINE u == [t EXCEPT !.back = @ \cup {f}]
  <2>1. u \in Tallies
    BY TallyTyped, TallyUpdated
  <2>2. [u EXCEPT !.excused = @ \ {f}] \in Tallies
    BY <2>1, TallyTyped, TallyUpdated
  <2>3. CameBack(t, f) = [u EXCEPT !.excused = @ \ {f}]
    BY DEF CameBack, Tallies
  <2> QED
    BY <2>2, <2>3
<1>2. ASSUME NEW fs \in SUBSET Maybe(Files)
      PROVE  Excuse(t, fs) \in Tallies
  <2> DEFINE u == [t EXCEPT !.excused = @ \cup fs]
  <2>1. u \in Tallies
    BY TallyTyped, TallyUpdated
  <2>2. [u EXCEPT !.back = @ \ fs] \in Tallies
    BY <2>1, TallyTyped, TallyUpdated
  <2>3. Excuse(t, fs) = [u EXCEPT !.back = @ \ fs]
    BY DEF Excuse, Tallies
  <2> QED
    BY <2>2, <2>3
<1>3. t.faults + 1 \in Nat
  BY TallyTyped
<1>4. [t EXCEPT !.faults = @ + 1] \in Tallies
  BY <1>3, TallyUpdated
<1> QED
  BY <1>1, <1>2, <1>4

LEMMA EditTyped ==
  ASSUME Typed, NEW spot \in Kept, NEW made \in {0, 1}, Edit(spot, made),
         tally.files + made <= MaxFiles
  PROVE  tally' \in Tallies
<1> DEFINE ss == IF made = 1 /\ spot \in Trash
                 THEN tally.strays \cup {tally.files + 1} ELSE tally.strays
           t1 == [tally EXCEPT !.edits = @ + 1]
           t2 == [t1 EXCEPT !.files = @ + made]
           t3 == [t2 EXCEPT !.strays = ss]
           fs == {disk.at[s] : s \in Kept}
<1>1. tally \in Tallies
  BY DEF Typed
<1>2. ss \in SUBSET Files
  BY <1>1, TallyTyped, BoundsAssumption DEF Files
<1>3. t1 \in Tallies
  <2>1. tally.edits + 1 \in Nat
    BY <1>1, TallyTyped
  <2> QED
    BY <1>1, <2>1, TallyUpdated
<1>4. t1.files + made \in 0..MaxFiles
  BY <1>1, TallyTyped, BoundsAssumption DEF Tallies
<1>5. t2 \in Tallies
  BY <1>3, <1>4, TallyUpdated
<1>6. t3 \in Tallies
  <2> HIDE DEF t2, ss
  <2> QED
    BY <1>2, <1>5, TallyUpdated
<1>7. fs \in SUBSET Maybe(Files)
  BY Spotted DEF Typed, TypeOK
<1>8. Excuse(t3, fs) \in Tallies
  BY <1>6, <1>7, NotedTyped
<1>9. tally' = IF spot = "path" THEN Excuse(t3, fs) ELSE t3
  BY <1>1 DEF Edit, Tallies
<1> QED
  BY <1>6, <1>8, <1>9

\* A failing call is counted.
LEMMA FaultTyped ==
  ASSUME Typed, Fault \/ UNCHANGED tally
  PROVE  tally' \in Tallies
<1>1. tally \in Tallies
  BY DEF Typed
<1>2. [tally EXCEPT !.faults = @ + 1] \in Tallies
  BY <1>1, NotedTyped
<1> QED
  BY <1>1, <1>2 DEF Fault, Count

LEMMA WritesTyped ==
  /\ NoWrites \in Changes
  /\ \A gone \in BOOLEAN : \A unrow : Writes(gone, unrow) \in Changes
  BY DEF NoWrites, Writes, Changes

\* What is made durable has its type.
LEMMA DurableTyped ==
  ASSUME Typed, Durable(writes)
  PROVE  journal' \in Rows /\ trashRows' \in [Trash -> Maybe(Files)] /\ writes' = NoWrites
<1>1. journal' \in Rows
  BY DEF Typed, TypeOK, Durable, Journal, Rows
<1>2. ASSUME NEW t \in Trash
      PROVE  TrashRows(writes)[t] \in Maybe(Files)
  <2>1. ASSUME \E r \in writes.rows : r[1] = t
        PROVE  (CHOOSE r \in writes.rows : r[1] = t)[2] \in Files
    <3> DEFINE c == CHOOSE r \in writes.rows : r[1] = t
    <3>1. c \in writes.rows
      BY <2>1
    <3>2. c \in Trash \X Files
      BY <3>1 DEF Typed, Changes
    <3> QED
      BY <3>2
  <2> QED
    BY <2>1 DEF TrashRows, Typed, TypeOK, Maybe
<1>3. trashRows' = [t \in Trash |-> TrashRows(writes)[t]]
  BY DEF Durable, TrashRows
<1> QED
  BY <1>1, <1>2, <1>3 DEF Durable

LEMMA StepTyped ==
  ASSUME Typed, DisksWhole', [Next]_vars
  PROVE  Typed'
<1> USE DEF At
<1>0. /\ disk' \in Disks /\ disk \in Disks /\ tally \in Tallies
      /\ \A s \in Spots : disk.at[s] \in Maybe(Files)
  BY DEF DisksWhole, Whole, Typed, TypeOK, Disks
<1>1. ASSUME NEW s \in Kept, UserWrites(s)
      PROVE  Typed'
  <2>1. tally' \in Tallies
    <3>1. Edit(s, 1) /\ tally.files + 1 <= MaxFiles
      BY <1>0, <1>1, TallyTyped, BoundsAssumption DEF UserWrites
    <3> QED
      BY <3>1, EditTyped
  <2> QED
    BY <1>0, <1>1, <2>1 DEF UserWrites, Typed, TypeOK, store, Disks
<1>2. ASSUME NEW s \in Kept, UserRemoves(s)
      PROVE  Typed'
  <2>1. tally' \in Tallies
    BY <1>2, EditTyped DEF UserRemoves, Typed, Tallies
  <2> QED
    BY <1>0, <1>2, <2>1 DEF UserRemoves, Typed, TypeOK, store, Disks
<1>3. CASE UserMovesParent
  <2>1. tally' \in Tallies
    BY <1>3, EditTyped DEF UserMovesParent, Typed, Tallies, Kept
  <2> QED
    BY <1>0, <1>3, <2>1 DEF UserMovesParent, Typed, TypeOK, store, Disks
<1>4. ASSUME NEW t \in Temps, Fetch(t)
      PROVE  Typed'
  <2>1. tally' \in Tallies
    BY <1>4, BoundsAssumption DEF Fetch, Count, Typed, Tallies
  <2> QED
    BY <1>0, <1>4, <2>1 DEF Fetch, Typed, TypeOK, store, Disks
<1>5. ASSUME NEW d \in {"trash", "copy"}, NEW t \in Temps, Begin("write", t, d)
      PROVE  Typed'
  BY <1>0, <1>5 DEF Begin, NoOp, Typed, TypeOK, Commits, store, Disks, Moves, Asides
<1>6. ASSUME NEW d \in {"trash", "copy"}, Begin("remove", "none", d)
      PROVE  Typed'
  BY <1>0, <1>6 DEF Begin, NoOp, Typed, TypeOK, Commits, store, Disks, Moves, Asides
<1>7. CASE BeginResolve
  BY <1>0, <1>7, BoundsAssumption
  DEF BeginResolve, NoOp, None, Maybe, Typed, TypeOK, Commits, store, Disks, Moves, Asides
<1>8. CASE NotOpen
  BY <1>0, <1>8
  DEF NotOpen, Next1, Typed, TypeOK, Commits, Changes, Rows, NoRow, NoWrites, store, Disks,
      Moves, Asides
<1>9. CASE ResolveBack
  <2>1. open.to \in Asides
    BY <1>9 DEF ResolveBack, ToGoBack, Typed, TypeOK, Rows, NoRow, Asides
  <2>2. tally' \in Tallies
    BY <1>0, <1>9, <2>1, Spotted, NotedTyped DEF ResolveBack
  <2> QED
    BY <1>0, <1>9, <2>2
    DEF ResolveBack, Resolved, Writes, Typed, TypeOK, Changes, Rows, NoRow, store, Disks, Moves
<1>10. CASE ResolveLeave
  <2>1. open.to \in Asides
    BY <1>10 DEF ResolveLeave, ToGoBack, Typed, TypeOK, Rows, NoRow, Asides
  <2>2. tally' \in Tallies
    BY <1>0, <1>10, <2>1, Spotted, NotedTyped DEF ResolveLeave
  <2> QED
    BY <1>0, <1>10, <2>2
    DEF ResolveLeave, Resolved, Writes, Typed, TypeOK, Changes, Rows, NoRow, store, Disks, Moves
<1>11. CASE ResolveSync
  BY <1>0, <1>11
  DEF ResolveSync, Resolved, Writes, Typed, TypeOK, Changes, Rows, NoRow, store, Disks, Moves
<1>12. CASE ResolveFails
  <2>1. tally' \in Tallies
    BY <1>12, FaultTyped DEF ResolveFails
  <2> QED
    BY <1>0, <1>12, <2>1
    DEF ResolveFails, Next1, Typed, TypeOK, Commits, Rows, NoRow, store, Disks, Moves
<1>13. CASE ResolveRecorded
  <2>1. journal' \in Rows /\ trashRows' \in [Trash -> Maybe(Files)] /\ writes' = NoWrites
    BY <1>13, DurableTyped DEF ResolveRecorded
  <2> QED
    BY <1>0, <1>13, <2>1
    DEF ResolveRecorded, Next1, Typed, TypeOK, Commits, Changes, NoWrites, Disks, Moves
<1>14. CASE Guard
  <2>1. "path" \in Spots
    BY Spotted DEF Kept
  <2>2. op' \in Commits /\ op'.kind = op.kind /\ op'.temp = op.temp /\ op'.to = op.to
        /\ op'.displace = op.displace /\ op'.expected = op.expected
    BY <1>14, ZenonT(60) DEF Guard, Ends, Typed, Commits
  <2>3. pc' = "guarded" => op.expected \in Files
    BY <1>0, <1>14, <2>1 DEF Guard, Ends, Held, Maybe, None
  <2>4. pc' \in {"guarded", "placing", "reporting"}
    BY <1>14 DEF Guard, Ends
  <2>5. writes' \in Changes
    BY <1>14, WritesTyped DEF Guard, Ends, Typed
  <2>6. pc' = "placing" => op.kind = "write"
    BY <1>14 DEF Guard, Ends, Typed, Moves
  <2> QED
    BY <1>0, <1>14, <2>2, <2>3, <2>4, <2>5, <2>6
    DEF Guard, Typed, TypeOK, Commits, Changes, store, Disks, Moves
<1>15. CASE Journalled
  <2>1. PICK to \in Places :
           /\ op' = [op EXCEPT !.to = to]
           /\ journal' = Row("displaced", to, op.temp)
           /\ trashRows' = [t \in Trash |-> IF t = to THEN op.expected
                                           ELSE IF t = op.to THEN None ELSE trashRows[t]]
    BY <1>15 DEF Journalled
  <2>2. to \in Asides
    BY <2>1 DEF Places, Free, Asides
  <2>3. op' \in Commits /\ journal' \in Rows /\ trashRows' \in [Trash -> Maybe(Files)]
    BY <1>15, <2>1, <2>2
    DEF Journalled, Typed, TypeOK, Commits, Rows, Row, Asides, Maybe
  <2> QED
    BY <1>0, <1>15, <2>1, <2>2, <2>3, BoundsAssumption
    DEF Journalled, Typed, TypeOK, Commits, Changes, Disks, Moves, Asides
<1>16. CASE NoPlace
  BY <1>0, <1>16
  DEF NoPlace, Ends, Writes, Typed, TypeOK, Commits, Changes, store, Disks, Moves
<1>17. CASE Displaced
  BY <1>0, <1>17 DEF Displaced, Typed, TypeOK, Commits, Changes, store, Disks, Moves
<1>18. CASE PlaceTaken
  BY <1>0, <1>18 DEF PlaceTaken, Typed, TypeOK, Commits, Changes, store, Disks, Moves
<1>19. CASE NotDisplaced
  <2>1. tally' \in Tallies
    BY <1>19, FaultTyped DEF NotDisplaced
  <2> QED
    BY <1>0, <1>19, <2>1
    DEF NotDisplaced, Ends, Writes, Typed, TypeOK, Commits, Changes, store, Disks, Moves
<1>20. CASE Placed
  <2>1. disk.at[op.temp] \in Maybe(Files)
    BY <1>0, <1>20, Spotted DEF Placed, Typed
  <2> QED
    BY <1>0, <1>20, <2>1 DEF Placed, Typed, TypeOK, Commits, Changes, store, Disks, Moves
<1>21. CASE NotPlaced
  <2>1. tally' \in Tallies
    BY <1>21, FaultTyped DEF NotPlaced
  <2> QED
    BY <1>0, <1>21, <2>1, WritesTyped
    DEF NotPlaced, Ends, Typed, TypeOK, Commits, Changes, store, Disks, Moves
<1>22. CASE PutBack \/ LeftAside
  <2>1. op.to \in Asides
    BY <1>22 DEF PutBack, LeftAside, Typed, Commits
  <2>2. tally' \in Tallies
    BY <1>0, <1>22, <2>1, Spotted, NotedTyped DEF PutBack, LeftAside
  <2>3. writes' \in Changes /\ op' = [op EXCEPT !.result = "failed"] /\ pc' = "reporting"
    BY <1>22, WritesTyped DEF PutBack, LeftAside, Ends
  <2> QED
    BY <1>0, <1>22, <2>2, <2>3
    DEF PutBack, LeftAside, Typed, TypeOK, Commits, Changes, store, Disks, Moves
<1>23. CASE Stranded
  <2>1. tally' \in Tallies
    BY <1>23, FaultTyped DEF Stranded
  <2>2. open' \in Rows
    BY <1>23 DEF Stranded, Row, Rows, Typed, Commits, Asides
  <2> QED
    BY <1>0, <1>23, <2>1, <2>2
    DEF Stranded, Ends, NoWrites, Typed, TypeOK, Commits, Changes, store, Disks, Moves
<1>24. CASE Synced
  BY <1>0, <1>24
  DEF Synced, Ends, Typed, TypeOK, Commits, Changes, store, Disks, Moves
<1>25. CASE NotSynced
  <2>1. tally' \in Tallies
    BY <1>25, FaultTyped DEF NotSynced
  <2>2. open' \in Rows
    BY <1>25 DEF NotSynced, Row, Rows, Typed, TypeOK, Commits, Asides
  <2> QED
    BY <1>0, <1>25, <2>1, <2>2
    DEF NotSynced, Ends, Typed, TypeOK, Commits, Changes, store, Disks, Moves
<1>26. CASE Removed
  <2>1. PICK to \in Places :
           writes' = [NoWrites EXCEPT !.rows = {r \in {<<to, op.expected>>} : to \in Trash}]
    BY <1>26 DEF Removed
  <2>2. {r \in {<<to, op.expected>>} : to \in Trash} \subseteq Trash \X Files
    BY <1>26 DEF Removed, Typed
  <2>3. writes' \in Changes
    BY <2>1, <2>2 DEF Changes, NoWrites
  <2> QED
    BY <1>0, <1>26, <2>3
    DEF Removed, None, Maybe, Typed, TypeOK, Commits, Changes, store, Disks, Moves
<1>27. CASE NotRemoved
  <2>1. tally' \in Tallies
    BY <1>27, FaultTyped DEF NotRemoved
  <2> QED
    BY <1>0, <1>27, <2>1
    DEF NotRemoved, Ends, NoWrites, Typed, TypeOK, Commits, Changes, store, Disks, Moves
<1>28. CASE Report
  <2>1. journal' \in Rows /\ trashRows' \in [Trash -> Maybe(Files)] /\ writes' = NoWrites
    BY <1>28, DurableTyped DEF Report
  <2>2. record' \in Maybe(Files)
    BY <1>0, <1>28, Spotted DEF Report, Held, Kept, Typed, TypeOK, Commits
  <2>3. open' \in Rows
    BY <1>28 DEF Report, Rows, Typed, TypeOK
  <2> QED
    BY <1>0, <1>28, <2>1, <2>2, <2>3
    DEF Report, Typed, TypeOK, Commits, Changes, NoWrites, NoOp, None, Maybe, Disks, Moves
<1>29. CASE Observe
  <2>1. record' \in Maybe(Files)
    BY <1>0, <1>29, Spotted DEF Observe, Observed, Held, Kept, Typed, TypeOK
  <2> QED
    BY <1>0, <1>29, <2>1 DEF Observe, Typed, TypeOK, Commits, Changes, Disks, Moves
<1>30. CASE Crash
  <2>1. tally' \in Tallies
    <3>1. tally.crashes + 1 \in Nat
      BY <1>0, TallyTyped
    <3> QED
      BY <1>0, <1>30, <3>1, TallyUpdated DEF Crash, Count
  <2> QED
    BY <1>0, <1>30, <2>1, WritesTyped, BoundsAssumption
    DEF Crash, Down, NoOp, None, Maybe, Typed, TypeOK, Commits, Changes, Rows, store, Disks,
        Moves
<1>31. CASE PowerLoss
  <2> DEFINE t == [tally EXCEPT !.crashes = @ + 1]
             u == tally'.undone
  <2>1. t \in Tallies
    <3>1. tally.crashes + 1 \in Nat
      BY <1>0, TallyTyped
    <3> QED
      BY <1>0, <3>1, TallyUpdated
  <2>2. PICK fs : /\ tally' = [t EXCEPT !.undone = fs]
                  /\ fs = tally.undone \cup ({Held(disk)} \ {Held(disk')})
                            \cup (IF \E b \in tally.back, d \in past : Held(d) # b
                                  THEN Files ELSE {})
    BY <1>0, <1>31 DEF PowerLoss, Tallies
  <2>3. Held(disk) \in Maybe(Files)
    BY <1>0, Spotted DEF Held, Kept
  <2>4. fs \in SUBSET Maybe(Files)
    BY <1>0, <2>2, <2>3, TallyTyped DEF Maybe
  <2>5. tally' \in Tallies
    BY <2>1, <2>2, <2>4, TallyUpdated
  <2> QED
    BY <1>0, <1>31, <2>5, WritesTyped, BoundsAssumption
    DEF PowerLoss, Down, NoOp, None, Maybe, Typed, TypeOK, Commits, Changes, Rows, store,
        Disks, Moves
<1>32. CASE NothingToUndo \/ UndoLanded
  <2>1. writes' \in Changes
    BY <1>32, WritesTyped DEF NothingToUndo, UndoLanded, Undo
  <2> QED
    BY <1>0, <1>32, <2>1
    DEF NothingToUndo, UndoLanded, Undo, Typed, TypeOK, Changes, Rows, store, Disks, Moves
<1>33. CASE UndoBack
  <2>1. writes' \in Changes
    BY <1>33, WritesTyped DEF UndoBack, Undo
  <2>2. Held(disk') \in Maybe(Files)
    BY <1>0, Spotted DEF Held, Kept, Disks
  <2>3. \/ tally' = CameBack(tally, Held(disk'))
        \/ tally' = CameBack([tally EXCEPT !.faults = @ + 1], Held(disk'))
    BY <1>33 DEF UndoBack, Do
  <2>4. tally' \in Tallies
    BY <1>0, <2>2, <2>3, NotedTyped
  <2> QED
    BY <1>0, <1>33, <2>1, <2>4
    DEF UndoBack, Undo, Typed, TypeOK, Changes, Rows, store, Disks, Moves
<1>34. CASE UndoLeft
  <2>1. writes' \in Changes
    BY <1>34, WritesTyped DEF UndoLeft, Undo
  <2>2. journal.to \in Asides
    BY <1>34 DEF UndoLeft, ToUndo, Typed, TypeOK, Rows, NoRow, Asides
  <2>3. tally' \in Tallies
    BY <1>0, <1>34, <2>2, Spotted, NotedTyped DEF UndoLeft
  <2> QED
    BY <1>0, <1>34, <2>1, <2>3
    DEF UndoLeft, Undo, Typed, TypeOK, Changes, Rows, store, Disks, Moves
<1>35. CASE UndoFails
  <2>1. tally' \in Tallies
    BY <1>35, FaultTyped DEF UndoFails
  <2>2. open' \in Rows
    BY <1>35 DEF UndoFails, Undo, ToUndo, Typed, TypeOK, Rows, NoRow
  <2> QED
    BY <1>0, <1>35, <2>1, <2>2, WritesTyped
    DEF UndoFails, Undo, Typed, TypeOK, Changes, store, Disks, Moves
<1>36. CASE Up
  <2>1. journal' \in Rows /\ trashRows' \in [Trash -> Maybe(Files)] /\ writes' = NoWrites
    BY <1>36, DurableTyped DEF Up
  <2> QED
    BY <1>0, <1>36, <2>1, WritesTyped DEF Up, Typed, TypeOK, Changes, Disks, Moves
<1>37. ASSUME NEW claimed \in SUBSET Temps, NEW old \in SUBSET Trash, Tidy(claimed, old)
       PROVE  Typed'
  <2>1. PICK stale \in SUBSET Trash,
             rows \in SUBSET {<<t, disk.at[t]>> : t \in {u \in Trash : disk.at[u] # None}} :
               writes' = [writes EXCEPT !.unrow = @ \cup stale \cup old, !.rows = rows]
    BY <1>37 DEF Tidy
  <2>2. rows \subseteq Trash \X Files
    BY <1>0, <2>1, Spotted DEF Maybe, Kept
  <2>3. writes' \in Changes
    BY <2>1, <2>2 DEF Typed, Changes
  <2> QED
    BY <1>0, <1>37, <2>3 DEF Tidy, Typed, TypeOK, Changes, store, Disks, Moves
<1>38. CASE UNCHANGED vars
  BY <1>38 DEF vars, Typed, TypeOK, Moves
<1> QED
  BY <1>1, <1>2, <1>3, <1>4, <1>5, <1>6, <1>7, <1>8, <1>9, <1>10, <1>11, <1>12, <1>13, <1>14,
     <1>15, <1>16, <1>17, <1>18, <1>19, <1>20, <1>21, <1>22, <1>23, <1>24, <1>25, <1>26, <1>27,
     <1>28, <1>29, <1>30, <1>31, <1>32, <1>33, <1>34, <1>35, <1>36, <1>37, <1>38
  DEF Next, User, Asked, Steps, Resolve, Write, Start

-----------------------------------------------------------------------------
(* Who knows of the journal's row.                                            *)

LEMMA InitKnown == Init => RowKnown
  BY DEF Init, RowKnown, Matches, NoRow, NoOp, NoWrites, Moves

\* A commit that displaces a file has the row it made; every way out takes the
\* row away, leaves it open, or never made one.
LEMMA StepKnown ==
  ASSUME Typed, RowKnown, [Next]_vars
  PROVE  RowKnown'
<1> USE DEF At
<1>1. CASE \/ User \/ (\E t \in Temps : Fetch(t)) \/ Observe \/ UNCHANGED vars
  BY <1>1
  DEF User, UserWrites, UserRemoves, UserMovesParent, Fetch, Observe, vars, store, RowKnown,
      Matches, Moves
<1>2. CASE Asked \/ BeginResolve
  BY <1>2 DEF Asked, Begin, BeginResolve, NoOp, store, RowKnown, Matches, Moves
<1>3. CASE NotOpen \/ ResolveBack \/ ResolveLeave \/ ResolveSync
  BY <1>3
  DEF NotOpen, ResolveBack, ResolveLeave, ResolveSync, Resolved, Writes, Next1, store,
      RowKnown, Matches, Moves
<1>4. CASE ResolveFails
  <2>1. op'.to = op.to
    BY <1>4 DEF ResolveFails, Typed, Commits
  <2>2. Matches'
    BY <1>4, BoundsAssumption
    DEF ResolveFails, ToSync, RowKnown, Matches, Typed, TypeOK, Rows, NoRow, store
  <2> QED
    BY <1>4, <2>1, <2>2 DEF ResolveFails, Next1, RowKnown, Moves
<1>5. CASE ResolveRecorded
  BY <1>5
  DEF ResolveRecorded, Durable, Journal, NoWrites, Next1, RowKnown, Matches, NoRow, Moves
<1>6. CASE Guard
  <2>1. op'.to = op.to /\ pc' \in {"guarded", "placing", "reporting"}
    BY <1>6 DEF Guard, Ends, Typed, Commits
  <2> QED
    BY <1>6, <2>1 DEF Guard, store, RowKnown, Matches, Moves
<1>7. CASE Journalled
  <2>1. PICK to \in Places : op' = [op EXCEPT !.to = to] /\ journal' = Row("displaced", to, op.temp)
    BY <1>7 DEF Journalled
  <2>2. to \in Asides
    BY <2>1 DEF Places, Free, Asides
  <2>3. /\ op'.to = to /\ to # "none" /\ op'.temp = op.temp
        /\ journal'.to = to /\ journal'.temp = op.temp /\ journal' # NoRow
    BY <2>1, <2>2, BoundsAssumption DEF Typed, Commits, Row, NoRow, Asides
  <2> QED
    BY <1>7, <2>3 DEF Journalled, RowKnown, Moves
<1>8. CASE NoPlace
  BY <1>8 DEF NoPlace, Ends, Writes, store, RowKnown, Matches, Moves, Typed, Commits
<1>9. CASE Displaced \/ PlaceTaken
  BY <1>9 DEF Displaced, PlaceTaken, store, RowKnown, Matches, Moves
<1>10. CASE NotDisplaced \/ PutBack \/ LeftAside
  BY <1>10
  DEF NotDisplaced, PutBack, LeftAside, Ends, Writes, store, RowKnown, Matches, Moves
<1>11. CASE Placed
  <2>1. op'.to = op.to
    BY <1>11 DEF Placed, Typed, Commits
  <2> QED
    BY <1>11, <2>1 DEF Placed, store, RowKnown, Matches, Moves
<1>12. CASE NotPlaced
  BY <1>12 DEF NotPlaced, Ends, store, RowKnown, Matches, Moves
<1>13. CASE Stranded
  <2>1. Matches'
    BY <1>13, BoundsAssumption
    DEF Stranded, Row, NoRow, store, RowKnown, Matches, Moves, Typed
  <2> QED
    BY <1>13, <2>1 DEF Stranded, Ends, RowKnown, Moves
<1>14. CASE Synced
  <2>1. writes'.gone = (op.kind = "write" /\ op.to # "none")
    BY <1>14 DEF Synced, Ends, Typed, Changes
  <2>2. op.to # "none" => op.kind = "write"
    BY DEF Typed
  <2> QED
    BY <1>14, <2>1, <2>2 DEF Synced, Ends, store, RowKnown, Matches, Moves
<1>15. CASE NotSynced
  <2>1. op.to # "none" => Matches'
    BY <1>15, BoundsAssumption
    DEF NotSynced, Row, NoRow, store, RowKnown, Matches, Moves, Typed
  <2> QED
    BY <1>15, <2>1 DEF NotSynced, Ends, store, RowKnown, Matches, Moves
<1>16. CASE Removed
  <2>1. op'.to = op.to /\ op.to = "none"
    BY <1>16 DEF Removed, Typed, Commits
  <2> QED
    BY <1>16, <2>1 DEF Removed, store, RowKnown, Matches, Moves
<1>17. CASE NotRemoved
  <2>1. op.to = "none"
    BY <1>17 DEF NotRemoved, Typed
  <2> QED
    BY <1>17, <2>1 DEF NotRemoved, Ends, store, RowKnown, Matches, Moves
<1>18. CASE Report
  BY <1>18
  DEF Report, Durable, Journal, NoWrites, NoOp, RowKnown, Matches, NoRow, Moves
<1>19. CASE Crash \/ PowerLoss
  BY <1>19 DEF Crash, PowerLoss, Down, NoOp, RowKnown, Moves
<1>20. CASE NothingToUndo \/ UndoBack \/ UndoLeft \/ UndoLanded
  <2>1. mode = "down" /\ mode' = "undone" /\ open' = NoRow /\ UNCHANGED <<store, pc, op>>
    BY <1>20 DEF NothingToUndo, UndoBack, UndoLeft, UndoLanded, Undo, ToUndo
  <2>2. journal # NoRow => writes'.gone
    <3>1. CASE NothingToUndo
      <4>1. writes' = Writes(journal # NoRow, {journal.to})
        BY <3>1 DEF NothingToUndo, Undo
      <4>2. writes'.gone = (journal # NoRow)
        BY <4>1 DEF Writes
      <4> QED
        BY <4>2
    <3>2. CASE ~NothingToUndo
      <4>1. writes' = Writes(TRUE, {journal.to}) \/ writes' = Writes(TRUE, {})
        BY <1>20, <3>2 DEF UndoBack, UndoLeft, UndoLanded, Undo
      <4> QED
        BY <4>1 DEF Writes
    <3> QED
      BY <3>1, <3>2
  <2> QED
    BY <2>1, <2>2 DEF store, RowKnown, Matches, Moves
<1>21. CASE UndoFails
  <2>1. open' = NoRow <=> journal = NoRow
    BY <1>21 DEF UndoFails, Undo, ToUndo, Typed, TypeOK, Rows, NoRow
  <2>2. open'.to = journal.to /\ open'.temp = journal.temp
    BY <1>21 DEF UndoFails, Undo, Typed, TypeOK, Rows, NoRow
  <2>3. /\ mode' = "undone" /\ pc' = pc /\ op' = op /\ journal' = journal
        /\ mode = "down" /\ writes'.gone = FALSE
    BY <1>21 DEF UndoFails, Undo, ToUndo, NoWrites, store
  <2> QED
    BY <2>1, <2>2, <2>3 DEF RowKnown, Matches, Moves
<1>22. ASSUME NEW claimed \in SUBSET Temps, NEW old \in SUBSET Trash, Tidy(claimed, old)
       PROVE  RowKnown'
  <2>1. writes'.gone = writes.gone
    BY <1>22 DEF Tidy, Typed, Changes
  <2> QED
    BY <1>22, <2>1 DEF Tidy, store, RowKnown, Matches, Moves
<1>23. CASE Up
  BY <1>23 DEF Up, Durable, Journal, NoWrites, RowKnown, Matches, NoRow, Moves
<1> QED
  BY <1>1, <1>2, <1>3, <1>4, <1>5, <1>6, <1>7, <1>8, <1>9, <1>10, <1>11, <1>12, <1>13, <1>14,
     <1>15, <1>16, <1>17, <1>18, <1>19, <1>20, <1>21, <1>22, <1>23
  DEF Next, Steps, Resolve, Write, Start

-----------------------------------------------------------------------------
(* The theorems.                                                              *)

\* What the proof carries from step to step: types, whole disks, known rows.
THEOREM Invariance == Spec => []IInv
<1>1. Init => IInv
  BY InitTyped, InitWhole, InitKnown DEF IInv
<1>2. IInv /\ [Next]_vars => IInv'
  BY StepWhole, StepTyped, StepKnown DEF IInv
<1> QED
  BY <1>1, <1>2, PTL DEF Spec

\* Every variable of a commit and of a start keeps its type, whatever the
\* number of places in the trash, of files and of failures.
THEOREM TypeCorrect == Spec => []TypeOK
<1>1. IInv => TypeOK
  BY DEF IInv, Typed
<1> QED
  BY <1>1, Invariance, PTL

\* No file the user made or a commit placed is lost, whatever fails in a
\* commit or a start, whatever the user does between two system calls, and
\* whatever a power loss takes back.
THEOREM NoFileLost == Spec => []FilesKept
<1>1. IInv => FilesKept
  BY DEF IInv, DisksWhole, Whole, FilesKept
<1> QED
  BY <1>1, Invariance, PTL

\* A row that a commit leaves in the journal is open in memory too, so the path
\* it speaks of is skipped by scans until it is resolved.
THEOREM NoRowForgotten == Spec => []OpenRowsKnown
<1>1. IInv => OpenRowsKnown
  BY DEF IInv, RowKnown, Matches, OpenRowsKnown
<1> QED
  BY <1>1, Invariance, PTL

=============================================================================
