-------------------------------- MODULE Scan --------------------------------
(* How one machine comes to know what a path holds: the scanner's thread      *)
(* (crates/delocal/src/scan.rs), the executor's looks and commits             *)
(* (daemon/executor.rs), the reports both send to the engine's task           *)
(* (daemon/core.rs), and what the engine takes from them (FolderState's       *)
(* scanned and applied, crates/engine/src/folder.rs).                         *)
(*                                                                            *)
(* The three run at once and the user changes the path meanwhile.  The engine *)
(* knows how old a report is from the times the host gives, which it only     *)
(* compares: here a time is its rank among those still in use, so that scans  *)
(* may go on for ever.  One path, with no directories above it; the marks of  *)
(* a revert, released commits, shims and names on disk are left out.          *)
EXTENDS Integers, Sequences, FiniteSets, FiniteSetsExt

CONSTANTS
    Contents,   \* what files may hold
    Links,      \* those of them that are symlinks
    Initially,  \* what the path may hold, and be recorded to, at first
    MaxInputs,  \* bound: reports that wait for the engine's task
    MaxLooks,   \* bound: looks the watcher or the engine asks for
    MaxEdits,   \* bound: things the user does
    MaxCommits, \* bound: commits
    MaxFaults   \* bound: calls that fail, scans that abort

None == "none"

ASSUME ScanAssumption ==
    /\ Links \subseteq Contents /\ None \notin Contents
    /\ Initially \subseteq Contents \cup {None}
    /\ MaxInputs \in Nat \ {0} /\ {MaxLooks, MaxEdits, MaxCommits, MaxFaults} \subseteq Nat

VARIABLES
    disk,      \* the states the path has been in; the last is the one it is in
    engine,    \* the path in the engine
    copy,      \* the record as the executor has it
    released,  \* the records and commits released to the executor, in order
    commit,    \* the commit the executor is at
    scan,      \* the scan
    look,      \* the look each observer is at
    inputs,    \* the reports that wait for the engine's task
    spent      \* how many of each bounded thing there were

vars == <<disk, engine, copy, released, commit, scan, look, inputs, spent>>

Maybe     == Contents \cup {None}
Observers == {"scan", "executor"}

State(holds, by) == [holds |-> holds, by |-> by, calm |-> FALSE]

Last  == Len(disk)
Holds == disk[Last].holds

NoLook   == [pc |-> "none", found |-> "none", saw |-> 0, at |-> 0, compared |-> None]
NoCommit == [pc |-> "none", expected |-> None, leaves |-> None]
NoScan   == [pc |-> "none", copy |-> None, missing |-> 0]

Msg(kind, l) == [kind |-> kind, found |-> l.found, saw |-> l.saw, at |-> l.at,
                 compared |-> l.compared]

-----------------------------------------------------------------------------
(* Times.  0 is before every other.                                           *)

TimesOf(e, ls, q) ==
    {0, e.reported, e.observed, e.written} \cup {ls[o].at : o \in Observers}
        \cup {q[i].at : i \in DOMAIN q}

\* What the clock reads now.
Now == 1 + Max(TimesOf(engine, look, inputs))

\* What the engine noted before every time a report on its way has is forgotten.
Noted(e, ls, q) ==
    LET coming  == ({ls[o].at : o \in Observers} \cup {q[i].at : i \in DOMAIN q}) \ {0}
        kept(t) == IF \E u \in coming : u < t THEN t ELSE 0
    IN [e EXCEPT !.reported = kept(@), !.observed = kept(@), !.written = kept(@)]

\* Every step leaves the times as their ranks.  (Bound, so that TLC works out
\* each of the two sets once.)
Timed(e, ls, q) ==
    \E noted \in {Noted(e, ls, q)} : \E used \in {TimesOf(noted, ls, q)} :
        LET Rank(t) == Cardinality({u \in used : u < t}) IN
        /\ engine' = [noted EXCEPT !.reported = Rank(@), !.observed = Rank(@),
                                   !.written = Rank(@)]
        /\ look'   = [o \in Observers |-> [ls[o] EXCEPT !.at = Rank(@)]]
        /\ inputs' = [i \in DOMAIN q |-> [q[i] EXCEPT !.at = Rank(@)]]

Untimed == UNCHANGED <<engine, look, inputs>>

\* A thread that sends to a full queue waits.
Sends(ls, m) ==
    /\ Len(inputs) < MaxInputs
    /\ Timed(engine, ls, Append(inputs, m))

Spend(what) == spent' = [spent EXCEPT ![what] = @ + 1]
Fault       == spent.faults < MaxFaults /\ Spend("faults")

-----------------------------------------------------------------------------
(* The path on disk.                                                          *)

Becomes(holds, by) == disk' = Append(disk, State(holds, by))

UserDoes ==
    /\ spent.edits < MaxEdits /\ Spend("edits")
    /\ \E c \in Maybe \ {Holds} : Becomes(c, "user")
    /\ UNCHANGED <<copy, released, commit, scan>> /\ Untimed

\* 2 s have passed since the path's file last changed.
Calm ==
    /\ Holds \in Contents \ Links /\ ~disk[Last].calm
    /\ disk' = [disk EXCEPT ![Last].calm = TRUE]
    /\ UNCHANGED <<copy, released, commit, scan, spent>> /\ Untimed

-----------------------------------------------------------------------------
(* A look at the path: the stat, and the hash with its second stat.            *)

Idle == commit.pc = "none" /\ look["executor"].pc = "none"

\* The executor looks when the watcher, the engine or a second look asks, and
\* for a commit that failed; the scanner when its walk comes to the path.
MayLook(o) ==
    /\ look[o].pc = "none"
    /\ IF o = "scan" THEN scan.pc = "walking"
       ELSE commit.pc = "failed" \/ (commit.pc = "none" /\ spent.looks < MaxLooks)

\* What the stat says, against the record compared.  Only a file that has
\* been left alone is hashed.
Stated(compared) ==
    CASE Holds = None                      -> "absent"
      [] Holds # None /\ Holds = compared  -> "unchanged"
      [] Holds \in Links \ {compared}      -> "observed"
      [] OTHER -> IF disk[Last].calm THEN "hash" ELSE "skipped"

Stat(o) ==
    LET compared == IF o = "scan" THEN scan.copy ELSE copy IN
    /\ MayLook(o)
    /\ \E found \in {Stated(compared), "skipped"} :
        LET fails == found # Stated(compared)
            asked == o = "executor" /\ commit.pc = "none"
        IN
        /\ fails => spent.faults < MaxFaults
        /\ spent' = [spent EXCEPT !.faults = @ + (IF fails THEN 1 ELSE 0),
                                  !.looks = @ + (IF asked THEN 1 ELSE 0)]
        /\ look' = [look EXCEPT ![o] = [pc |-> "stated", found |-> found, saw |-> Last, at |-> 0,
                                        compared |-> IF found = "unchanged"
                                                     THEN compared ELSE None]]
    /\ UNCHANGED <<disk, engine, copy, released, commit, scan, inputs>>

\* The clock is read once the stat, or the link's target, is back: a commit,
\* or the other observer, may have come and gone in between.
Dated(o) ==
    /\ look[o].pc = "stated"
    /\ Timed(engine, [look EXCEPT ![o].at = Now,
                                  ![o].pc = IF look[o].found = "hash" THEN "hashing" ELSE "ready"],
             inputs)
    /\ UNCHANGED <<disk, copy, released, commit, scan, spent>>

\* Mutant: the file is not stated again after it is hashed.
HashedOnce(l) == [l EXCEPT !.found = "observed", !.saw = Last]

\* A file that changed while it was hashed is unstable, one that went absent.
Hashed(l) ==
    IF l.saw = Last THEN [l EXCEPT !.found = "observed"]
    ELSE IF Holds = None THEN [l EXCEPT !.found = "absent", !.saw = Last]
    ELSE [l EXCEPT !.found = "skipped"]

Hash(o) ==
    /\ look[o].pc = "hashing"
    /\ look' = [look EXCEPT ![o] = [Hashed(look[o]) EXCEPT !.pc = "ready"]]
    /\ UNCHANGED <<disk, engine, copy, released, commit, scan, inputs, spent>>

\* A scan leaves an absent path out.
Walked ==
    LET l == look["scan"]
        none == [look EXCEPT !["scan"] = NoLook]
    IN
    /\ look["scan"].pc = "ready"
    /\ scan' = [scan EXCEPT !.pc = "walked", !.missing = IF l.found = "absent" THEN l.saw ELSE 0]
    /\ IF l.found = "absent" THEN Timed(engine, none, inputs) ELSE Sends(none, Msg("seen", l))
    /\ UNCHANGED <<disk, copy, released, commit, spent>>

\* What the executor saw, what a failed commit found, or that it landed.
Looked ==
    /\ look["executor"].pc = "ready"
    /\ Sends([look EXCEPT !["executor"] = NoLook],
             Msg(CASE commit.pc = "failed" -> "failed" [] commit.pc = "landed" -> "ok"
                   [] OTHER -> "seen", look["executor"]))
    /\ commit' = NoCommit
    /\ UNCHANGED <<disk, copy, released, scan, spent>>

-----------------------------------------------------------------------------
(* A scan, on a thread of its own.                                            *)

Note(kind, saw) == [kind |-> kind, found |-> "none", saw |-> saw, at |-> 0, compared |-> None]

Waits(kinds) == \E i \in DOMAIN inputs : inputs[i].kind \in kinds
Ends == {"finished", "aborted"}

\* The timer asks for the next once the engine's task knows that the last ended.
ScanStarts ==
    /\ Idle /\ scan.pc = "none" /\ ~Waits(Ends)
    /\ Sends(look, Note("started", 0))
    /\ scan' = [NoScan EXCEPT !.pc = "walking", !.copy = copy]
    /\ UNCHANGED <<disk, copy, released, commit, spent>>

ScanEnds ==
    /\ scan.pc = "walked"
    /\ Sends(look, Note("finished", scan.missing))
    /\ scan' = NoScan
    /\ UNCHANGED <<disk, copy, released, commit, spent>>

\* The root guard: the folder's marker is not there.
ScanAborts ==
    /\ scan.pc \in {"walking", "walked"} /\ look["scan"].pc = "none"
    /\ Fault
    /\ Sends(look, Note("aborted", 0))
    /\ scan' = NoScan
    /\ UNCHANGED <<disk, copy, released, commit>>

-----------------------------------------------------------------------------
(* The executor's jobs.                                                       *)

NextJob == Idle /\ released # <<>> /\ released' = Tail(released)

TakeRecord ==
    /\ NextJob /\ Head(released).job = "record"
    /\ copy' = Head(released).leaves
    /\ UNCHANGED <<disk, commit, scan, spent>> /\ Untimed

\* The guard, and the first of the two renames if there is something to move.
TakeCommit ==
    LET c == Head(released)
        goes == Holds = c.expected
        pc == IF ~goes THEN "failed" ELSE IF c.leaves = None THEN "landed" ELSE "placing"
    IN
    /\ NextJob /\ c.job = "commit"
    /\ commit' = [pc |-> pc, expected |-> c.expected, leaves |-> c.leaves]
    /\ IF goes /\ Holds # None THEN Becomes(None, "host") ELSE UNCHANGED disk
    /\ UNCHANGED <<copy, scan, spent>> /\ Untimed

Place ==
    /\ commit.pc = "placing" /\ Holds = None
    /\ Becomes(commit.leaves, "host")
    /\ commit' = [commit EXCEPT !.pc = "landed"]
    /\ UNCHANGED <<copy, released, scan, spent>> /\ Untimed

\* The rename in fails: what was displaced goes back, if its place is free.
PlaceFails ==
    /\ commit.pc = "placing"
    /\ IF Holds = None THEN Fault ELSE UNCHANGED spent
    /\ IF Holds = None /\ commit.expected # None
       THEN Becomes(commit.expected, "host") ELSE UNCHANGED disk
    /\ commit' = [commit EXCEPT !.pc = "failed"]
    /\ UNCHANGED <<copy, released, scan>> /\ Untimed

\* The clock is read after the rename, and the report sent after that.
Landed ==
    /\ commit.pc = "landed" /\ look["executor"].pc = "none"
    /\ LET made == Max({i \in DOMAIN disk : disk[i].by = "host"} \cup {1}) IN
       Timed(engine, [look EXCEPT !["executor"] = [NoLook EXCEPT !.pc = "ready", !.saw = made,
                                                                !.at = Now]], inputs)
    /\ UNCHANGED <<disk, copy, released, commit, scan, spent>>

-----------------------------------------------------------------------------
(* The engine's task.                                                         *)

\* Mutant: an observation older than the last one taken is taken.
StaleByReports(e, at) == at < e.reported

IsStale(e, at) == at < e.reported \/ at < e.observed

\* Mutant: what an Unchanged was compared with is not looked at.
RelativeToAny(e, m) == m

\* core's relative: an Unchanged against a record the engine has no more says
\* nothing.
Relative(e, m) ==
    IF m.found = "unchanged" /\ m.compared # e.record THEN [m EXCEPT !.found = "skipped"] ELSE m

\* What the engine takes as an observation at all.
Current(e, m) ==
    /\ m.found # "skipped"
    /\ ~IsStale(e, m.at)
    /\ m.found = "unchanged" => m.at >= e.written /\ e.record # None

\* Mutant: a report opens a bracket where there is none.
SeenAlways(e) == [e EXCEPT !.bracket = "seen"]

\* Something was seen of the path since the bracket opened.
InBracket(e) == [e EXCEPT !.bracket = IF @ = "open" THEN "seen" ELSE @]

\* The record becomes content, which the path held in state saw; seen is the
\* last state it is known to have held the record in.
Recorded(e, content, saw) ==
    [e EXCEPT !.record = content,
              !.seen = IF content = e.record THEN Max({@, saw}) ELSE saw,
              !.written = IF content = e.record THEN @ ELSE Now]

Says(e, m) ==
    CASE m.found = "absent"    -> None
      [] m.found = "unchanged" -> e.record
      [] OTHER                 -> disk[m.saw].holds

\* Mutant: what is observed of a path in flight is taken.
ObservedAlways(e, m) ==
    IF ~Current(e, m) THEN InBracket(e)
    ELSE Recorded([InBracket(e) EXCEPT !.observed = Max({@, m.at})], Says(e, m), m.saw)

\* take_one
Observed(e, m) ==
    LET taken == [InBracket(e) EXCEPT !.observed = Max({@, m.at})] IN
    IF ~Current(e, m) THEN InBracket(e)
    ELSE IF e.flight # {} THEN taken
    ELSE Recorded(taken, Says(e, m), m.saw)

\* applied_at
Applied(e, m) ==
    Recorded([InBracket(e) EXCEPT !.reported = m.at, !.flight = {}],
             CHOOSE c \in e.flight : TRUE, m.saw)

\* Mutant: a commit that failed keeps its path.
FailedHolds(e, m) == [InBracket(e) EXCEPT !.reported = m.at]

\* would_have_left: a failed commit that found what it would have left landed.
Lands(e, m) ==
    \/ m.kind = "ok"
    \/ m.kind = "failed" /\ m.found \in {"observed", "absent"} /\ e.flight = {Says(e, m)}

\* observe_found: an observation that says nothing new is no news.
Failed(e, m) ==
    LET over == [InBracket(e) EXCEPT !.reported = m.at, !.flight = {}] IN
    IF Lands(e, m) THEN Applied(e, m)
    ELSE IF m.found \in {"skipped", "unchanged"} \/ Says(e, m) = e.record THEN over
    ELSE Observed(over, m)

Started(e) == [e EXCEPT !.bracket = "open"]

\* Mutant: what was seen since the bracket opened does not count.
FinishedBlind(e, m) ==
    LET closed == [e EXCEPT !.bracket = "closed"] IN
    IF e.bracket # "closed" /\ e.flight = {} /\ e.record # None
    THEN Recorded(closed, None, m.saw) ELSE closed

\* scan_finished
Finished(e, m) ==
    LET closed == [e EXCEPT !.bracket = "closed"] IN
    IF e.bracket = "open" /\ e.flight = {} /\ e.record # None
    THEN Recorded(closed, None, m.saw) ELSE closed

Aborted(e) == [e EXCEPT !.bracket = "closed"]

Handled(e, m) ==
    CASE m.kind = "seen"     -> Observed(e, m)
      [] m.kind = "ok"       -> Applied(e, m)
      [] m.kind = "failed"   -> Failed(e, m)
      [] m.kind = "started"  -> Started(e)
      [] m.kind = "finished" -> Finished(e, m)
      [] m.kind = "aborted"  -> Aborted(e)

Job(job, expected, leaves) == [job |-> job, expected |-> expected, leaves |-> leaves]

\* Core::report: one report, and the record it writes released in its turn.
Report ==
    /\ inputs # <<>>
    /\ LET e == Handled(engine, Relative(engine, Head(inputs))) IN
       /\ Timed(e, look, Tail(inputs))
       /\ released' = IF e.record = engine.record THEN released
                      ELSE Append(released, Job("record", None, e.record))
    /\ UNCHANGED <<disk, copy, commit, scan, spent>>

\* A want is ready and its path is free.
Dispatch(leaves) ==
    /\ engine.flight = {} /\ leaves # engine.record
    /\ spent.commits < MaxCommits /\ Spend("commits")
    /\ engine' = [engine EXCEPT !.flight = {leaves}]
    /\ released' = Append(released, Job("commit", engine.record, leaves))
    /\ UNCHANGED <<disk, copy, commit, scan, look, inputs>>

-----------------------------------------------------------------------------
Init ==
    /\ \E c \in Initially : disk = <<State(c, "user")>> /\ copy = c
        /\ engine = [record |-> c, seen |-> 1, flight |-> {}, bracket |-> "closed",
                     reported |-> 0, observed |-> 0, written |-> 0]
    /\ released = <<>> /\ commit = NoCommit /\ scan = NoScan
    /\ look = [o \in Observers |-> NoLook] /\ inputs = <<>>
    /\ spent = [looks |-> 0, edits |-> 0, commits |-> 0, faults |-> 0]

Scanner  == Stat("scan") \/ Dated("scan") \/ Hash("scan") \/ Walked \/ ScanEnds
Executor == Dated("executor") \/ Hash("executor") \/ Looked \/ TakeRecord \/ TakeCommit \/ Place
                \/ PlaceFails \/ Landed \/ (commit.pc = "failed" /\ Stat("executor"))

Next == UserDoes \/ Calm \/ Scanner \/ Executor \/ ScanStarts \/ ScanAborts
            \/ Stat("executor") \/ Report \/ \E c \in Maybe : Dispatch(c)

Spec == Init /\ [][Next]_vars

\* Threads that have something to do do it, a queue that is full lets the
\* threads that wait in in turn, a file that is left alone is calm after 2 s,
\* and the timer brings the next scan.  Watcher's events may all be lost.
FairSpec ==
    /\ Spec
    /\ SF_vars(Scanner) /\ SF_vars(Executor) /\ SF_vars(ScanStarts)
    /\ WF_vars(Report) /\ WF_vars(Calm)

-----------------------------------------------------------------------------
(* Properties.                                                                *)

TypeOK ==
    /\ disk \in Seq([holds : Maybe, by : {"user", "host"}, calm : BOOLEAN])
    /\ engine.record \in Maybe /\ copy \in Maybe /\ engine.seen \in DOMAIN disk
    /\ engine.flight \subseteq Maybe /\ Cardinality(engine.flight) <= 1
    /\ engine.bracket \in {"closed", "open", "seen"}
    /\ commit.pc \in {"none", "placing", "landed", "failed"}
    /\ scan.pc \in {"none", "walking", "walked"}
    /\ \A o \in Observers : look[o].pc \in {"none", "stated", "hashing", "ready"}
    /\ Len(inputs) <= MaxInputs

\* The engine's bracket is open from a scan's first report to its last.
BracketIsScan ==
    engine.bracket # "closed" <=>
        (scan.pc \in {"walking", "walked"} \/ Waits(Ends)) /\ ~Waits({"started"})

\* What the engine takes the path to hold, it did hold when it was last seen.
RecordTruthful == engine.record = disk[engine.seen].holds

\* A file that is older than what the engine knows of the path is never taken
\* from a scan.
NeverBackwards ==
    [][engine'.seen >= engine.seen \/ engine'.record \in Links \cup {None}
           \/ engine.bracket = "closed"]_vars

\* A look that finds a symlink, or nothing, has read all there is to read
\* before the clock is read: it may be taken for newer than it is.
Late == Head(inputs).kind = "seen" /\ engine'.record \in Links \cup {None}

\* Nothing else takes the engine back to an older state of the path, unless it
\* took the path to be absent: an absence has no date of its own.
DatedNeverBackwards ==
    [][engine'.seen >= engine.seen \/ engine.record = None \/ Late]_vars

LocalChange == engine'.record # engine.record /\ ~Lands(engine, Head(inputs))

\* A local change, which is announced as this machine's, is what the user did,
\* and never what a commit did or was in the middle of, but where such a look,
\* or one taken before, was dated too late.
HostIsNotUser ==
    [][LocalChange => \/ disk[engine'.seen].by = "user"
                      \/ engine.record \in Links \cup {None} \/ Late]_vars

\* A file that is being written is not recorded.
WholeFilesOnly ==
    [][LocalChange /\ engine'.record \in Contents \ Links => disk[engine'.seen].calm]_vars

\* What the path holds when all is quiet is recorded in the end, though the
\* watcher says nothing.
Caught == <>[](engine.record = Holds)

=============================================================================
