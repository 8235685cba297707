--------------------------- MODULE DurabilityProofs ---------------------------
(* Proofs about Durability: the inductive invariant, the safety properties    *)
(* that follow from it, and that the pipeline implements the ledger.          *)
EXTENDS Durability, FiniteSetTheorems, TLAPS

\* Nothing submitted: nothing to lose.
LEMMA InitOK == Init => IInv
<1> SUFFICES ASSUME Init PROVE IInv
  OBVIOUS
<1>1. TypeOK
  <2>1. /\ last \in 0..MaxGroups /\ inputs \in 0..Inputs
        /\ faults \in 0..MaxFaults /\ task \in 0..last /\ row \in 0..last
    BY BoundsAssumption DEF Init
  <2> QED
    BY <2>1 DEF Init, TypeOK
<1>2. WriterHasRest /\ StorePrefix /\ GoodIsDurable /\ ReleasedIsDurable
  BY DEF Init, WriterHasRest, StorePrefix, GoodIsDurable, ReleasedIsDurable,
         Underway
<1>3. InOrder /\ AtWork /\ JournalFirst
  BY DEF Init, InOrder, AtWork, JournalFirst, Underway
<1> QED
  BY <1>1, <1>2, <1>3 DEF IInv

LEMMA ArriveStep ==
  ASSUME IInv, Arrive
  PROVE  IInv'
<1>1. TypeOK'
  BY BoundsAssumption DEF IInv, TypeOK, Arrive, groups, writer, release, host
<1>2. /\ WriterHasRest'
      /\ StorePrefix'
      /\ GoodIsDurable'
      /\ ReleasedIsDurable'
      /\ InOrder'
      /\ AtWork'
      /\ JournalFirst'
  BY DEF IInv, WriterHasRest, StorePrefix, UpTo, GoodIsDurable,
         ReleasedIsDurable, Underway, InOrder, Outstanding, AtWork,
         JournalFirst, Arrive, groups, writer, release, host
<1> QED
  BY <1>1, <1>2 DEF IInv

\* An event's group: the writer's channel gets one more, in the last place.
LEMMA EmitStep ==
  ASSUME IInv, Ready, NEW kind \in Kinds, Emit(kind), inputs' \in 0..Inputs,
         UNCHANGED <<core, release, host, faults>>
  PROVE  IInv'
<1>1. TypeOK'
  BY BoundsAssumption DEF IInv, TypeOK, Emit, Submit, release, host
<1>2. WriterHasRest'
  BY DEF IInv, TypeOK, WriterHasRest, Emit, Submit
<1>3. StorePrefix'
  BY DEF IInv, TypeOK, StorePrefix, UpTo, Emit, Submit
<1>4. GoodIsDurable'
  BY DEF IInv, TypeOK, GoodIsDurable, UpTo, Emit, Submit
<1>5. ReleasedIsDurable'
  BY DEF IInv, TypeOK, ReleasedIsDurable, Underway, UpTo, Emit, Submit,
         release, host
<1>6. InOrder'
  BY DEF IInv, TypeOK, InOrder, Outstanding, Underway, Emit, release, host
<1>7. AtWork'
  BY DEF IInv, AtWork, Underway, Emit, Submit, host
<1>8. JournalFirst'
  BY DEF IInv, TypeOK, JournalFirst, UpTo, Emit, Submit, host
<1> QED
  BY <1>1, <1>2, <1>3, <1>4, <1>5, <1>6, <1>7, <1>8 DEF IInv

LEMMA HandleStep ==
  ASSUME IInv, Handle
  PROVE  IInv'
<1>1. inputs' \in 0..Inputs
  BY BoundsAssumption DEF IInv, TypeOK, Handle
<1>2. CASE \E kind \in Kinds : Emit(kind)
  BY <1>1, <1>2, EmitStep DEF Handle
<1>3. CASE UNCHANGED <<groups, writer, sending>>
  <2>1. TypeOK'
    BY <1>1, <1>3 DEF IInv, TypeOK, Handle, groups, writer, release, host
  <2> QED
    BY <1>3, <2>1
    DEF IInv, WriterHasRest, StorePrefix, GoodIsDurable, ReleasedIsDurable,
        InOrder, AtWork, JournalFirst, Underway, Outstanding, UpTo, Handle,
        groups, writer, release, host
<1> QED
  BY <1>2, <1>3 DEF Handle

LEMMA DueStep ==
  ASSUME IInv, Due
  PROVE  IInv'
<1>1. inputs' \in 0..Inputs
  BY DEF IInv, TypeOK, Due
<1> QED
  BY <1>1, EmitStep DEF Due

LEMMA SendStep ==
  ASSUME IInv, Send
  PROVE  IInv'
<1>1. TypeOK'
  BY DEF IInv, TypeOK, Send, groups, writer, host
<1>2. InOrder'
  BY BoundsAssumption
  DEF IInv, TypeOK, InOrder, AtWork, Outstanding, Underway, Send,
      groups, writer, engine, release, host
<1>3. /\ WriterHasRest'
      /\ StorePrefix'
      /\ GoodIsDurable'
      /\ ReleasedIsDurable'
      /\ AtWork'
      /\ JournalFirst'
  BY DEF IInv, WriterHasRest, StorePrefix, UpTo, GoodIsDurable,
         ReleasedIsDurable, Underway, AtWork, JournalFirst, Send, groups,
         writer, host
<1> QED
  BY <1>1, <1>2, <1>3 DEF IInv

LEMMA CoreEndsStep ==
  ASSUME IInv, CoreEnds
  PROVE  IInv'
<1>1. TypeOK'
  BY BoundsAssumption
  DEF IInv, TypeOK, CoreEnds, groups, writer, release, host
<1>2. InOrder'
  BY BoundsAssumption
  DEF IInv, TypeOK, InOrder, AtWork, Outstanding, Underway, CoreEnds,
      Ready, vars, groups, writer, engine, release, host
<1>3. /\ WriterHasRest'
      /\ StorePrefix'
      /\ GoodIsDurable'
      /\ ReleasedIsDurable'
      /\ AtWork'
      /\ JournalFirst'
  BY DEF IInv, WriterHasRest, StorePrefix, UpTo, GoodIsDurable,
         ReleasedIsDurable, Underway, AtWork, JournalFirst, CoreEnds, groups,
         writer, release, host
<1> QED
  BY <1>1, <1>2, <1>3 DEF IInv

LEMMA TakeBatchStep ==
  ASSUME IInv, TakeBatch
  PROVE  IInv'
<1>1. TypeOK'
  BY DEF IInv, TypeOK, TakeBatch, groups, engine, release, host
<1>2. WriterHasRest'
  BY DEF IInv, WriterHasRest, TakeBatch, groups
<1>3. GoodIsDurable'
  BY DEF IInv, GoodIsDurable, WriterHasRest, UpTo, TakeBatch, groups
<1>4. /\ StorePrefix'
      /\ ReleasedIsDurable'
      /\ InOrder'
      /\ AtWork'
      /\ JournalFirst'
  BY DEF IInv, StorePrefix, UpTo, ReleasedIsDurable, Underway, InOrder,
         Outstanding, AtWork, JournalFirst, TakeBatch, groups, engine,
         release, host
<1> QED
  BY <1>1, <1>2, <1>3, <1>4 DEF IInv

\* While no transaction has failed, what precedes a group of this one is in
\* the store or in the transaction too.
LEMMA BatchBefore ==
  ASSUME IInv, ~failed, NEW t \in batch, NEW s \in log, s <= t
  PROVE  s \in store \cup (batch \cap log)
<1>1. s \in store \/ s \in batch \/ s \in queue
  BY DEF IInv, WriterHasRest
<1>2. s \notin queue
  BY DEF IInv, TypeOK, WriterHasRest
<1> QED
  BY <1>1, <1>2

LEMMA CommitStep ==
  ASSUME IInv, Commit
  PROVE  IInv'
<1>1. TypeOK'
  BY DEF IInv, TypeOK, Commit, groups, engine, release, host
<1>2. WriterHasRest'
  BY DEF IInv, WriterHasRest, Commit, groups
<1>3. StorePrefix'
  <2>1. SUFFICES ASSUME NEW t \in store', NEW s \in UpTo(t)'
                 PROVE  s \in store'
    BY DEF StorePrefix
  <2>2. s \in log /\ s <= t
    BY DEF UpTo, Commit, groups
  <2>3. CASE t \in store
    BY <2>2, <2>3 DEF IInv, StorePrefix, UpTo, Commit
  <2>4. CASE t \in batch
    BY <2>2, <2>4, BatchBefore DEF Commit
  <2> QED
    BY <2>3, <2>4 DEF Commit
<1>4. GoodIsDurable'
  <2>1. \A t \in batch' : UpTo(t)' \subseteq store'
    <3>1. SUFFICES ASSUME NEW t \in batch, NEW s \in UpTo(t)'
                   PROVE  s \in store'
      BY DEF Commit
    <3>2. s \in log /\ s <= t
      BY DEF UpTo, Commit, groups
    <3> QED
      BY <3>2, BatchBefore DEF Commit
  <2>2. \A t \in good' : UpTo(t)' \subseteq store'
    BY DEF IInv, GoodIsDurable, UpTo, Commit, groups
  <2> QED
    BY <2>1, <2>2 DEF GoodIsDurable
<1>5. ReleasedIsDurable'
  BY DEF IInv, ReleasedIsDurable, Underway, UpTo, Commit, groups, release,
         host
<1>6. JournalFirst'
  BY DEF IInv, JournalFirst, UpTo, Commit, groups, host
<1>7. InOrder' /\ AtWork'
  BY DEF IInv, InOrder, Outstanding, Underway, AtWork, Commit, groups, engine,
         release, host
<1> QED
  BY <1>1, <1>2, <1>3, <1>4, <1>5, <1>6, <1>7 DEF IInv

LEMMA CommitFailsStep ==
  ASSUME IInv, CommitFails
  PROVE  IInv'
<1>1. TypeOK'
  BY BoundsAssumption
  DEF IInv, TypeOK, CommitFails, groups, engine, release, host
<1>2. WriterHasRest'
  BY DEF IInv, WriterHasRest, CommitFails
<1>3. GoodIsDurable'
  BY DEF IInv, GoodIsDurable, UpTo, CommitFails, groups
<1>4. /\ StorePrefix'
      /\ ReleasedIsDurable'
      /\ InOrder'
      /\ AtWork'
      /\ JournalFirst'
  BY DEF IInv, StorePrefix, UpTo, ReleasedIsDurable, Underway, InOrder,
         Outstanding, AtWork, JournalFirst, CommitFails, groups, engine,
         release, host
<1> QED
  BY <1>1, <1>2, <1>3, <1>4 DEF IInv

LEMMA RefuseStep ==
  ASSUME IInv, Refuse
  PROVE  IInv'
<1>1. TypeOK'
  BY DEF IInv, TypeOK, Refuse, groups, engine, release, host
<1>2. WriterHasRest'
  BY DEF IInv, WriterHasRest, Refuse
<1>3. GoodIsDurable'
  BY DEF IInv, GoodIsDurable, UpTo, Refuse, groups
<1>4. /\ StorePrefix'
      /\ ReleasedIsDurable'
      /\ InOrder'
      /\ AtWork'
      /\ JournalFirst'
  BY DEF IInv, StorePrefix, UpTo, ReleasedIsDurable, Underway, InOrder,
         Outstanding, AtWork, JournalFirst, Refuse, groups, engine, release,
         host
<1> QED
  BY <1>1, <1>2, <1>3, <1>4 DEF IInv

LEMMA ResolveStep ==
  ASSUME IInv, NEW t \in batch, Resolve(t)
  PROVE  IInv'
<1>1. TypeOK'
  BY DEF IInv, TypeOK, Resolve, groups, engine, release, host
<1>2. WriterHasRest'
  BY DEF IInv, TypeOK, WriterHasRest, GoodIsDurable, UpTo, Resolve, IsFirst,
         groups
<1>3. GoodIsDurable'
  BY DEF IInv, GoodIsDurable, UpTo, Resolve, groups
<1>4. /\ StorePrefix'
      /\ ReleasedIsDurable'
      /\ InOrder'
      /\ AtWork'
      /\ JournalFirst'
  BY DEF IInv, StorePrefix, UpTo, ReleasedIsDurable, Underway, InOrder,
         Outstanding, AtWork, JournalFirst, Resolve, groups, engine, release,
         host
<1> QED
  BY <1>1, <1>2, <1>3, <1>4 DEF IInv

LEMMA TakeReleaseStep ==
  ASSUME IInv, NEW t \in releases, TakeRelease(t)
  PROVE  IInv'
<1>1. TypeOK'
  BY DEF IInv, TypeOK, TakeRelease, groups, writer, engine, host
<1>2. InOrder'
  BY DEF IInv, TypeOK, InOrder, Outstanding, Underway, TakeRelease, IsFirst,
         engine, host
<1>3. /\ WriterHasRest'
      /\ StorePrefix'
      /\ GoodIsDurable'
      /\ ReleasedIsDurable'
      /\ AtWork'
      /\ JournalFirst'
  BY DEF IInv, WriterHasRest, StorePrefix, UpTo, GoodIsDurable,
         ReleasedIsDurable, Underway, AtWork, JournalFirst, TakeRelease,
         groups, writer, host
<1> QED
  BY <1>1, <1>2, <1>3 DEF IInv

LEMMA HandOverStep ==
  ASSUME IInv, HandOver
  PROVE  IInv'
<1>1. TypeOK'
  BY DEF IInv, TypeOK, HandOver, groups, writer, engine, host
<1>2. ReleasedIsDurable'
  BY DEF IInv, ReleasedIsDurable, GoodIsDurable, Underway, UpTo, HandOver,
         groups, writer, host
<1>3. InOrder'
  BY BoundsAssumption
  DEF IInv, TypeOK, InOrder, AtWork, Outstanding, Underway, HandOver,
      vars, groups, writer, engine, release, host
<1>4. /\ WriterHasRest'
      /\ StorePrefix'
      /\ GoodIsDurable'
      /\ AtWork'
      /\ JournalFirst'
  BY DEF IInv, WriterHasRest, StorePrefix, UpTo, GoodIsDurable, AtWork,
         Underway, JournalFirst, HandOver, groups, writer, host
<1> QED
  BY <1>1, <1>2, <1>3, <1>4 DEF IInv

LEMMA ReleaserEndsStep ==
  ASSUME IInv, ReleaserEnds
  PROVE  IInv'
<1>1. TypeOK'
  BY DEF IInv, TypeOK, ReleaserEnds, groups, writer, engine, host
<1>2. InOrder'
  BY BoundsAssumption
  DEF IInv, TypeOK, InOrder, AtWork, Outstanding, Underway, ReleaserEnds,
      vars, groups, writer, engine, release, host
<1>3. /\ WriterHasRest'
      /\ StorePrefix'
      /\ GoodIsDurable'
      /\ ReleasedIsDurable'
      /\ AtWork'
      /\ JournalFirst'
  BY DEF IInv, WriterHasRest, StorePrefix, UpTo, GoodIsDurable,
         ReleasedIsDurable, Underway, AtWork, JournalFirst, ReleaserEnds,
         groups, writer, host
<1> QED
  BY <1>1, <1>2, <1>3 DEF IInv

LEMMA BeginStep ==
  ASSUME IInv, NEW t \in jobs, Begin(t)
  PROVE  IInv'
<1>1. TypeOK'
  BY DEF IInv, TypeOK, Begin, groups, writer, engine
<1>2. ReleasedIsDurable'
  BY DEF IInv, ReleasedIsDurable, Underway, UpTo, Begin, groups, writer
<1>3. InOrder'
  BY DEF IInv, TypeOK, InOrder, Outstanding, Underway, Begin, IsFirst, engine
<1>4. AtWork'
  BY DEF IInv, TypeOK, AtWork, Underway, Begin, groups
<1>5. JournalFirst'
  BY DEF JournalFirst, Begin
<1>6. WriterHasRest' /\ StorePrefix' /\ GoodIsDurable'
  BY DEF IInv, WriterHasRest, StorePrefix, UpTo, GoodIsDurable, Begin, groups,
         writer
<1> QED
  BY <1>1, <1>2, <1>3, <1>4, <1>5, <1>6 DEF IInv

LEMMA PerformStep ==
  ASSUME IInv, Perform
  PROVE  IInv'
<1>1. TypeOK'
  BY DEF IInv, TypeOK, AtWork, Underway, Perform, groups, writer, engine,
         release
<1>2. ReleasedIsDurable'
  BY DEF IInv, ReleasedIsDurable, Underway, UpTo, Perform, groups, writer,
         release
<1>3. InOrder'
  BY DEF IInv, InOrder, Outstanding, Underway, Perform, engine, release
<1>4. AtWork'
  BY DEF IInv, AtWork, Underway, Perform
<1>5. JournalFirst'
  BY DEF IInv, JournalFirst, AtWork, Perform
<1>6. WriterHasRest' /\ StorePrefix' /\ GoodIsDurable'
  BY DEF IInv, WriterHasRest, StorePrefix, UpTo, GoodIsDurable, Perform,
         groups, writer
<1> QED
  BY <1>1, <1>2, <1>3, <1>4, <1>5, <1>6 DEF IInv

LEMMA JournalStep ==
  ASSUME IInv, Journal
  PROVE  IInv'
<1>1. TypeOK'
  BY BoundsAssumption DEF IInv, TypeOK, Journal, Submit, engine, release
<1>2. WriterHasRest'
  BY DEF IInv, TypeOK, WriterHasRest, Journal, Submit
<1>3. StorePrefix'
  BY DEF IInv, TypeOK, StorePrefix, UpTo, Journal, Submit
<1>4. GoodIsDurable'
  BY DEF IInv, TypeOK, GoodIsDurable, UpTo, Journal, Submit
<1>5. ReleasedIsDurable'
  BY DEF IInv, TypeOK, ReleasedIsDurable, Underway, UpTo, Journal, Submit,
         release
<1>6. InOrder'
  BY DEF IInv, InOrder, Outstanding, Underway, Journal, engine, release
<1>7. AtWork'
  BY DEF IInv, AtWork, Underway, Journal, Submit
<1>8. JournalFirst'
  BY DEF JournalFirst, Journal
<1> QED
  BY <1>1, <1>2, <1>3, <1>4, <1>5, <1>6, <1>7, <1>8 DEF IInv

LEMMA MoveStep ==
  ASSUME IInv, Move
  PROVE  IInv'
<1>1. TypeOK'
  BY DEF IInv, TypeOK, AtWork, Underway, Move, groups, writer, engine, release
<1>2. ReleasedIsDurable'
  BY DEF IInv, ReleasedIsDurable, Underway, UpTo, Move, groups, writer,
         release
<1>3. InOrder'
  BY DEF IInv, InOrder, Outstanding, Underway, Move, engine, release
<1>4. AtWork'
  BY DEF IInv, AtWork, Underway, Move, groups
<1>5. JournalFirst'
  BY DEF IInv, TypeOK, JournalFirst, GoodIsDurable, AtWork, UpTo, Move,
         groups, writer
<1>6. WriterHasRest' /\ StorePrefix' /\ GoodIsDurable'
  BY DEF IInv, WriterHasRest, StorePrefix, UpTo, GoodIsDurable, Move, groups,
         writer
<1> QED
  BY <1>1, <1>2, <1>3, <1>4, <1>5, <1>6 DEF IInv

LEMMA GiveStep ==
  ASSUME IInv, Give
  PROVE  IInv'
<1>1. TypeOK'
  BY DEF IInv, TypeOK, Give, groups, writer, engine, release
<1>2. ReleasedIsDurable'
  BY DEF IInv, ReleasedIsDurable, Underway, UpTo, Give, groups, writer,
         release
<1>3. InOrder'
  BY DEF IInv, InOrder, Outstanding, Underway, Give, engine, release
<1>4. AtWork'
  BY DEF AtWork, Underway, Give
<1>5. JournalFirst'
  BY DEF JournalFirst, Give
<1>6. WriterHasRest' /\ StorePrefix' /\ GoodIsDurable'
  BY DEF IInv, WriterHasRest, StorePrefix, UpTo, GoodIsDurable, Give, groups,
         writer
<1> QED
  BY <1>1, <1>2, <1>3, <1>4, <1>5, <1>6 DEF IInv

LEMMA ReportedStep ==
  ASSUME IInv, Reported
  PROVE  IInv'
<1>1. TypeOK'
  BY BoundsAssumption DEF IInv, TypeOK, Reported, groups, writer, release
<1>2. ReleasedIsDurable'
  BY DEF IInv, ReleasedIsDurable, Underway, UpTo, Reported, groups, writer,
         release
<1>3. InOrder'
  BY DEF IInv, InOrder, Outstanding, Underway, Reported, release
<1>4. AtWork'
  BY DEF AtWork, Underway, Reported
<1>5. JournalFirst'
  BY DEF JournalFirst, Reported
<1>6. WriterHasRest' /\ StorePrefix' /\ GoodIsDurable'
  BY DEF IInv, WriterHasRest, StorePrefix, UpTo, GoodIsDurable, Reported,
         groups, writer
<1> QED
  BY <1>1, <1>2, <1>3, <1>4, <1>5, <1>6 DEF IInv

LEMMA ExecutorEndsStep ==
  ASSUME IInv, ExecutorEnds
  PROVE  IInv'
<1>1. TypeOK'
  BY DEF IInv, TypeOK, ExecutorEnds, groups, writer, engine
<1>2. ReleasedIsDurable'
  BY DEF ReleasedIsDurable, Underway, ExecutorEnds
<1>3. InOrder'
  BY DEF IInv, InOrder, Outstanding, Underway, ExecutorEnds, engine
<1>4. AtWork'
  BY DEF AtWork, Underway, ExecutorEnds
<1>5. JournalFirst'
  BY DEF JournalFirst, ExecutorEnds
<1>6. WriterHasRest' /\ StorePrefix' /\ GoodIsDurable'
  BY DEF IInv, WriterHasRest, StorePrefix, UpTo, GoodIsDurable, ExecutorEnds,
         groups, writer
<1> QED
  BY <1>1, <1>2, <1>3, <1>4, <1>5, <1>6 DEF IInv

\* A restart begins with nothing but the store.
LEMMA LoseStep ==
  ASSUME IInv, Lose, faults' \in 0..MaxFaults
  PROVE  IInv'
<1>1. TypeOK'
  <2>1. /\ last' \in 0..MaxGroups /\ store' \subseteq log'
        /\ performed' \subseteq 1..last'
    BY DEF IInv, TypeOK, Lose
  <2>2. log' \subseteq 1..last'
    BY DEF IInv, TypeOK, Lose
  <2>3. /\ inputs' \in 0..Inputs /\ task' \in 0..last' /\ row' \in 0..last'
    BY <2>1, BoundsAssumption DEF Lose
  <2>4. /\ effects' \subseteq 1..last' /\ commits' \subseteq effects'
        /\ queue' \subseteq 1..last' /\ batch' \subseteq 1..last'
        /\ good' \subseteq 1..last' /\ bad' \subseteq 1..last'
        /\ sending' \subseteq 1..last' /\ releases' \subseteq 1..last'
        /\ awaiting' \subseteq 1..last' /\ jobs' \subseteq effects'
    BY DEF Lose
  <2>5. /\ outcome' \in {"none", "ok", "error"} /\ failed' \in BOOLEAN
        /\ core' \in {"running", "ended", "down"}
        /\ releaser' \in {"running", "ended"}
        /\ executor' \in
              {"idle", "taken", "waiting", "moved", "refused", "ended"}
    BY DEF Lose
  <2> QED
    BY <2>1, <2>2, <2>3, <2>4, <2>5 DEF TypeOK
<1>2. WriterHasRest' /\ StorePrefix'
  BY DEF WriterHasRest, StorePrefix, UpTo, Lose
<1>3. GoodIsDurable' /\ ReleasedIsDurable' /\ JournalFirst'
  BY DEF GoodIsDurable, ReleasedIsDurable, JournalFirst, Underway, Lose
<1>4. InOrder' /\ AtWork'
  BY DEF InOrder, AtWork, Outstanding, Underway, Lose
<1> QED
  BY <1>1, <1>2, <1>3, <1>4 DEF IInv

LEMMA ExitStep ==
  ASSUME IInv, Exit
  PROVE  IInv'
<1>1. faults' \in 0..MaxFaults
  BY DEF IInv, TypeOK, Exit
<1> QED
  BY <1>1, LoseStep DEF Exit

LEMMA CrashStep ==
  ASSUME IInv, Crash
  PROVE  IInv'
<1>1. faults' \in 0..MaxFaults
  BY BoundsAssumption DEF IInv, TypeOK, Crash
<1> QED
  BY <1>1, LoseStep DEF Crash

LEMMA StartStep ==
  ASSUME IInv, Start
  PROVE  IInv'
<1>1. TypeOK'
  BY DEF IInv, TypeOK, Start, groups, writer, release, host
<1>2. /\ WriterHasRest'
      /\ StorePrefix'
      /\ GoodIsDurable'
      /\ ReleasedIsDurable'
      /\ InOrder'
      /\ AtWork'
      /\ JournalFirst'
  BY DEF IInv, WriterHasRest, StorePrefix, UpTo, GoodIsDurable,
         ReleasedIsDurable, Underway, InOrder, Outstanding, AtWork,
         JournalFirst, Start, groups, writer, release, host
<1> QED
  BY <1>1, <1>2 DEF IInv

\* Every step keeps the invariant.
LEMMA StepOK == IInv /\ [Next]_vars => IInv'
<1> SUFFICES ASSUME IInv, [Next]_vars PROVE IInv'
  OBVIOUS
<1>1. CASE Arrive \/ Handle \/ Due \/ Send \/ CoreEnds
  BY <1>1, ArriveStep, HandleStep, DueStep, SendStep, CoreEndsStep
<1>2. CASE TakeBatch \/ Commit \/ CommitFails \/ Refuse
  BY <1>2, TakeBatchStep, CommitStep, CommitFailsStep, RefuseStep
<1>3. CASE \E t \in batch : Resolve(t)
  BY <1>3, ResolveStep
<1>4. CASE \E t \in releases : TakeRelease(t)
  BY <1>4, TakeReleaseStep
<1>5. CASE HandOver \/ ReleaserEnds
  BY <1>5, HandOverStep, ReleaserEndsStep
<1>6. CASE \E t \in jobs : Begin(t)
  BY <1>6, BeginStep
<1>7. CASE Perform \/ Journal \/ Move \/ Give \/ Reported \/ ExecutorEnds
  BY <1>7, PerformStep, JournalStep, MoveStep, GiveStep, ReportedStep,
     ExecutorEndsStep
<1>8. CASE Exit \/ Crash \/ Start
  BY <1>8, ExitStep, CrashStep, StartStep
<1>9. CASE UNCHANGED vars
  BY <1>9
  DEF IInv, TypeOK, WriterHasRest, StorePrefix, GoodIsDurable,
      ReleasedIsDurable, InOrder, AtWork, JournalFirst, Underway, Outstanding,
      UpTo, vars, groups, writer, engine, release, host
<1> QED
  BY <1>1, <1>2, <1>3, <1>4, <1>5, <1>6, <1>7, <1>8, <1>9 DEF Next

\* The inductive invariant: the writer holds whatever the store lacks, in
\* order, so what it calls durable is a prefix, and so is what effects rest on.
THEOREM Invariance == Spec => []IInv
  BY InitOK, StepOK, PTL DEF Spec

\* Every variable keeps its type, for every queue length.
THEOREM TypeCorrect == Spec => []TypeOK
<1>1. IInv => TypeOK
  BY DEF IInv
<1> QED
  BY <1>1, Invariance, PTL

\* A commit moves files only once the journal row that would put them back is
\* durable, with everything submitted before it.
THEOREM RowBeforeMove == Spec => []JournalFirst
<1>1. IInv => JournalFirst
  BY DEF IInv
<1> QED
  BY <1>1, Invariance, PTL

-----------------------------------------------------------------------------
(* The pipeline implements the ledger                                         *)

\* The groups whose effects the ledger still expects.
Intents == Outstanding \cap effects

\* A group that enters the writer's channel is a submission of the ledger's.
LEMMA EmitSubmits ==
  ASSUME IInv, Ready, NEW kind \in Kinds, Emit(kind),
         UNCHANGED <<release, host>>
  PROVE  L!Next
<1> DEFINE effect == kind.effect # "none"
<1>1. last + 1 \in Groups /\ kind.writes \in BOOLEAN /\ effect \in BOOLEAN
  BY BoundsAssumption DEF IInv, TypeOK, Emit, Submit, Groups
<1>2. \A s \in log \cup Intents \cup performed : s < last + 1
  BY DEF IInv, TypeOK, Intents
<1>3. Intents' = Intents \cup (IF effect THEN {last + 1} ELSE {})
  <2>1. Underway' = Underway /\ jobs' = jobs
        /\ awaiting' = awaiting /\ releases' = releases
    BY DEF release, host, Underway
  <2>2. sending = {} /\ sending' = {last + 1}
    BY DEF Ready, Emit
  <2>3. effects' = effects \cup (IF effect THEN {last + 1} ELSE {})
    BY DEF Emit
  <2>4. last + 1 \notin effects /\ last + 1 \notin Outstanding
    BY <2>2 DEF IInv, TypeOK, Outstanding, Underway
  <2> QED
    BY <2>1, <2>2, <2>3, <2>4 DEF Intents, Outstanding
<1>4. /\ log' = log \cup (IF kind.writes THEN {last + 1} ELSE {})
      /\ store' = store /\ performed' = performed
  BY DEF Emit, Submit, host
<1>5. L!Submit(last + 1, kind.writes, effect)
  BY <1>2, <1>3, <1>4 DEF L!Submit, Intents
<1> QED
  BY <1>1, <1>5 DEF L!Next

\* So is the journal row of a commit, which has no effect of its own.
LEMMA JournalSubmits ==
  ASSUME IInv, Journal
  PROVE  L!Next
<1>1. last + 1 \in Groups
  BY BoundsAssumption DEF IInv, TypeOK, Journal, Submit, Groups
<1>2. \A s \in log \cup Intents \cup performed : s < last + 1
  BY DEF IInv, TypeOK, Intents
<1>3. Intents' = Intents \cup (IF FALSE THEN {last + 1} ELSE {})
  BY DEF Intents, Outstanding, Underway, Journal, engine, release
<1>4. /\ log' = log \cup (IF TRUE THEN {last + 1} ELSE {})
      /\ store' = store /\ performed' = performed
  BY DEF Journal, Submit
<1>5. L!Submit(last + 1, TRUE, FALSE)
  BY <1>2, <1>3, <1>4 DEF L!Submit, Intents
<1> QED
  BY <1>1, <1>5 DEF L!Next

\* A committed transaction makes a longer prefix durable.
LEMMA CommitPersists ==
  ASSUME IInv, Commit
  PROVE  L!Next
<1> DEFINE more == store \cup (batch \cap log)
<1>1. more \in SUBSET log
  BY DEF IInv, TypeOK
<1>2. \A t \in more : L!UpTo(t) \subseteq more
  BY CommitStep DEF IInv, StorePrefix, UpTo, L!UpTo, Commit, groups
<1>3. UNCHANGED <<log, Intents, performed>>
  BY DEF Commit, Intents, Outstanding, Underway, groups, engine, release, host
<1>4. L!Persist(more)
  BY <1>2, <1>3 DEF L!Persist, Intents, Commit
<1> QED
  BY <1>1, <1>4 DEF L!Next

\* An effect is performed with everything up to its group durable, after all
\* those before it.
LEMMA EffectPerforms ==
  ASSUME IInv, Underway = {task}, performed' = performed \cup {task},
         Underway' = {},
         UNCHANGED <<groups, writer, engine, release>>
  PROVE  L!Next
<1>1. task \in Intents
  BY DEF IInv, AtWork, Intents, Outstanding
<1>2. L!UpTo(task) \subseteq store
  BY DEF IInv, ReleasedIsDurable, UpTo, L!UpTo
<1>3. \A s \in performed : s < task
  BY DEF IInv, InOrder, Outstanding
<1>4. Intents' = Intents \ {task}
  <2>1. task \notin jobs \cup awaiting \cup releases \cup sending
    BY DEF IInv, TypeOK, InOrder
  <2> QED
    BY <2>1 DEF Intents, Outstanding, groups, engine, release
<1>5. L!Perform(task)
  BY <1>2, <1>3, <1>4 DEF L!Perform, Intents, groups, writer
<1> QED
  BY <1>1, <1>5 DEF L!Next, Intents

\* An effect that is given up only leaves the intents.
LEMMA LeavingDrops ==
  ASSUME Intents' \subseteq Intents, UNCHANGED <<log, store, performed>>
  PROVE  L!Next
<1>1. Intents \ Intents' \in SUBSET Intents
  OBVIOUS
<1>2. L!Drop(Intents \ Intents')
  BY DEF L!Drop, Intents
<1> QED
  BY <1>1, <1>2 DEF L!Next, Intents

\* A step of the pipeline is one of the ledger's, or none.
LEMMA StepImplements == IInv /\ [Next]_vars => [L!Next]_(L!vars)
<1> SUFFICES ASSUME IInv, [Next]_vars PROVE L!Next \/ UNCHANGED L!vars
  OBVIOUS
<1>1. CASE Handle
  <2>1. CASE \E kind \in Kinds : Emit(kind)
    BY <1>1, <2>1, EmitSubmits DEF Handle
  <2>2. CASE UNCHANGED <<groups, writer, sending>>
    BY <1>1, <2>2, LeavingDrops
    DEF Handle, Intents, Outstanding, Underway, groups, writer, release, host
  <2> QED
    BY <1>1, <2>1, <2>2 DEF Handle
<1>2. CASE Due
  BY <1>2, EmitSubmits DEF Due
<1>3. CASE Journal
  BY <1>3, JournalSubmits
<1>4. CASE Commit
  BY <1>4, CommitPersists
<1>5. CASE Perform
  BY <1>5, EffectPerforms DEF Perform, Underway
<1>6. CASE Move
  BY <1>6, EffectPerforms DEF Move, Underway
<1>7. CASE Arrive \/ TakeBatch \/ CommitFails \/ Refuse \/ Start
  BY <1>7, LeavingDrops
  DEF Arrive, TakeBatch, CommitFails, Refuse, Start, Intents, Outstanding,
      Underway, groups, writer, engine, release, host
<1>8. CASE Send \/ CoreEnds \/ HandOver \/ ReleaserEnds
  BY <1>8, LeavingDrops
  DEF Send, CoreEnds, HandOver, ReleaserEnds, Intents, Outstanding, Underway,
      groups, writer, engine, release, host
<1>9. CASE \E t \in batch : Resolve(t)
  BY <1>9, LeavingDrops
  DEF Resolve, Intents, Outstanding, Underway, groups, engine, release, host
<1>10. CASE \E t \in releases : TakeRelease(t)
  BY <1>10, LeavingDrops
  DEF TakeRelease, IsFirst, Intents, Outstanding, Underway, groups, writer,
      engine, host
<1>11. CASE \E t \in jobs : Begin(t)
  BY <1>11, LeavingDrops
  DEF Begin, IsFirst, Intents, Outstanding, Underway, groups, writer, engine
<1>12. CASE Give \/ Reported \/ ExecutorEnds
  BY <1>12, LeavingDrops
  DEF Give, Reported, ExecutorEnds, Intents, Outstanding, Underway, groups,
      writer, engine, release
<1>13. CASE Exit \/ Crash
  <2>1. Lose
    BY <1>13 DEF Exit, Crash
  <2>2. Intents' = {}
    BY <2>1 DEF Lose, Intents
  <2>3. L!Crash
    BY <2>1, <2>2 DEF Lose, L!Crash, Intents
  <2> QED
    BY <2>3 DEF L!Next
<1>14. CASE UNCHANGED vars
  BY <1>14
  DEF L!vars, Outstanding, Underway, vars, groups, writer, engine, release,
      host
<1> QED
  BY <1>1, <1>2, <1>3, <1>4, <1>5, <1>6, <1>7, <1>8, <1>9, <1>10, <1>11,
     <1>12, <1>13, <1>14
  DEF Next

\* The engine task, the writer, the releaser and the executor implement the
\* ledger: whatever fails, the store holds a prefix of what was submitted, and
\* no effect is performed before everything up to its group is in the store,
\* nor out of order.
THEOREM ImplementsLedger == Spec => Implements
<1>1. Init => L!Init
  BY DEF Init, L!Init, Outstanding, Underway
<1> QED
  BY <1>1, StepImplements, Invariance, PTL DEF Spec, Implements, L!Spec

-----------------------------------------------------------------------------
(* The backlog.                                                               *)

\* Groups of events that are not resolved.
Unresolved == (queue \cup batch) \ {row}

\* While engine task and releaser run, what is not resolved has a release that
\* waits for it: there are places for so many and no more.  Once one has ended
\* at most one group comes on top, whose release finds nobody.
Backlog ==
    /\ (good \cup bad) \cap (queue \cup batch) = {}
    /\ Cardinality(sending) <= 1 /\ Cardinality(awaiting) <= 1 /\ Cardinality(releases) <= Queue
    /\ core = "running" /\ releaser = "running" => Unresolved \subseteq sending \cup releases \cup awaiting
    /\ core = "running" => Cardinality(Unresolved \ sending) <= Queue + 1
    /\ Cardinality(Unresolved) <= Queue + 2
    /\ executor \in {"moved", "refused"} => row \notin queue \cup batch
    /\ core = "down" => /\ queue \cup batch \cup sending \cup releases \cup awaiting \cup jobs = {}
                        /\ executor = "idle"

\* Sets of groups are finite.
LEMMA GroupsFinite ==
  ASSUME NEW n \in Nat, NEW S \in SUBSET (1..n)
  PROVE  /\ IsFiniteSet(S) /\ Cardinality(S) \in Nat
         /\ \A T \in SUBSET S : Cardinality(T) \in Nat /\ Cardinality(T) <= Cardinality(S)
<1>1. IsFiniteSet(1..n)
  BY FS_Interval
<1>2. IsFiniteSet(S)
  BY <1>1, FS_Subset
<1>3. ASSUME NEW T \in SUBSET S
      PROVE  Cardinality(T) \in Nat /\ Cardinality(T) <= Cardinality(S)
  <2>1. IsFiniteSet(T) /\ Cardinality(T) <= Cardinality(S)
    BY <1>2, FS_Subset
  <2> QED
    BY <2>1, FS_CardinalityType
<1> QED
  BY <1>2, <1>3, FS_CardinalityType

\* The stages of the pipeline are sets of groups.
LEMMA StagesFinite ==
  ASSUME TypeOK
  PROVE  /\ last \in Nat /\ Queue \in Nat
         /\ queue \cup batch \in SUBSET (1..last) /\ sending \in SUBSET (1..last)
         /\ releases \in SUBSET (1..last) /\ awaiting \in SUBSET (1..last)
         /\ Unresolved \in SUBSET (1..last)
         /\ Cardinality(Unresolved) \in Nat /\ Cardinality(Unresolved \ sending) \in Nat
<1>1. /\ last \in Nat /\ Queue \in Nat
      /\ queue \cup batch \in SUBSET (1..last) /\ sending \in SUBSET (1..last)
      /\ releases \in SUBSET (1..last) /\ awaiting \in SUBSET (1..last)
  BY BoundsAssumption DEF TypeOK
<1>2. Unresolved \in SUBSET (1..last) /\ Unresolved \ sending \in SUBSET (1..last)
  BY <1>1 DEF Unresolved
<1>3. Cardinality(Unresolved) \in Nat /\ Cardinality(Unresolved \ sending) \in Nat
  BY <1>1, <1>2, GroupsFinite
<1> QED
  BY <1>1, <1>2, <1>3

\* A step that leaves the releases alone and adds no group but a row.
LEMMA BacklogKept ==
  ASSUME TypeOK, Backlog, UNCHANGED <<core, releaser, sending, releases, awaiting>>,
         Unresolved' \subseteq Unresolved,
         ((good \cup bad) \cap (queue \cup batch) = {})',
         (executor \in {"moved", "refused"} => row \notin queue \cup batch)',
         core # "down"
  PROVE  Backlog'
<1>1. /\ last \in Nat /\ Queue \in Nat /\ Unresolved \in SUBSET (1..last)
      /\ Cardinality(Unresolved) \in Nat /\ Cardinality(Unresolved \ sending) \in Nat
      /\ Unresolved \ sending \in SUBSET (1..last)
  BY StagesFinite
<1>2. Cardinality(Unresolved') \in Nat /\ Cardinality(Unresolved') <= Cardinality(Unresolved)
  BY <1>1, GroupsFinite
<1>3. /\ Cardinality(Unresolved' \ sending) \in Nat
      /\ Cardinality(Unresolved' \ sending) <= Cardinality(Unresolved \ sending)
  BY <1>1, GroupsFinite
<1> QED
  BY <1>1, <1>2, <1>3 DEF Backlog

\* An event's group comes when no release waits to be queued.
LEMMA BacklogEmit ==
  ASSUME IInv, Backlog, Ready, NEW kind \in Kinds, Emit(kind),
         UNCHANGED <<core, release, host>>
  PROVE  Backlog'
<1>1. TypeOK
  BY DEF IInv
<1>2. /\ last \in Nat /\ Queue \in Nat /\ Unresolved \in SUBSET (1..last)
      /\ Cardinality(Unresolved) \in Nat
  BY <1>1, StagesFinite
<1>3. /\ sending = {} /\ core = "running" /\ sending' = {last + 1}
      /\ queue' = queue \cup {last + 1} /\ batch' = batch /\ good' = good /\ bad' = bad
      /\ UNCHANGED <<core, releases, releaser, awaiting, jobs, executor, row>>
  BY DEF Ready, Emit, Submit, release, host
<1>4. /\ last + 1 \notin good \cup bad \cup queue \cup batch /\ row # last + 1
  BY <1>1, <1>2 DEF TypeOK
<1>5. Unresolved' = Unresolved \cup {last + 1} /\ last + 1 \notin Unresolved
  BY <1>3, <1>4 DEF Unresolved
<1>6. Unresolved' \ sending' = Unresolved /\ Cardinality(Unresolved) <= Queue + 1
  <2>1. Unresolved \ sending = Unresolved
    BY <1>3
  <2>2. Cardinality(Unresolved \ sending) <= Queue + 1
    BY <1>3 DEF Backlog
  <2> QED
    BY <1>3, <1>5, <2>1, <2>2
<1>7. IsFiniteSet(Unresolved)
  BY <1>2, GroupsFinite
<1>8. Cardinality(Unresolved') = Cardinality(Unresolved) + 1
  BY <1>5, <1>7, FS_AddElement
<1>9. Cardinality(Unresolved') <= Queue + 2
  BY <1>2, <1>6, <1>8
<1>10. Cardinality(sending') <= 1
  BY <1>3, FS_Singleton
<1>11. core' = "running" /\ releaser' = "running"
           => Unresolved' \subseteq sending' \cup releases' \cup awaiting'
  BY <1>3, <1>5 DEF Backlog
<1>12. (good' \cup bad') \cap (queue' \cup batch') = {}
  BY <1>3, <1>4 DEF Backlog
<1>13. executor' \in {"moved", "refused"} => row' \notin queue' \cup batch'
  BY <1>3, <1>4 DEF Backlog
<1> QED
  BY <1>3, <1>6, <1>9, <1>10, <1>11, <1>12, <1>13 DEF Backlog

\* With the releaser running, a queued release keeps its place.
LEMMA BacklogSend ==
  ASSUME IInv, Backlog, Send \/ \E t \in releases : TakeRelease(t)
  PROVE  Backlog'
<1>1. TypeOK /\ TypeOK'
  BY SendStep, TakeReleaseStep DEF IInv
<1>2. /\ last \in Nat /\ Queue \in Nat /\ releases \in SUBSET (1..last)
      /\ Cardinality(Unresolved) \in Nat
  BY <1>1, StagesFinite
<1>3. IsFiniteSet(releases) /\ Cardinality(releases) \in Nat
  BY <1>2, GroupsFinite
<1>4. /\ UNCHANGED <<queue, batch, row, good, bad, core, releaser, executor, jobs>>
      /\ releaser = "running"
  BY DEF Send, TakeRelease, groups, writer, engine, host
<1>5. Unresolved' = Unresolved
  BY <1>4 DEF Unresolved
<1>6. /\ Cardinality(sending') <= 1 /\ Cardinality(awaiting') <= 1
      /\ Cardinality(releases') <= Queue
      /\ sending' \cup releases' \cup awaiting' = sending \cup releases \cup awaiting
      /\ core = "down" => sending' \cup releases' \cup awaiting' = {}
  <2>1. CASE Send
    <3>1. /\ sending' = {} /\ releases' = releases \cup sending /\ awaiting' = awaiting
          /\ sending # {} /\ Cardinality(releases) < Queue /\ core = "running"
      BY <2>1 DEF Send
    <3>2. sending \in SUBSET (1..last) /\ Cardinality(sending) <= 1
      BY <1>1, StagesFinite DEF Backlog
    <3>3. IsFiniteSet(sending) /\ Cardinality(sending) \in Nat
      BY <1>2, <3>2, GroupsFinite
    <3>4. Cardinality(sending) = 1
      BY <3>1, <3>2, <3>3, FS_EmptySet
    <3>5. PICK t : sending = {t}
      BY <3>3, <3>4, FS_Singleton
    <3>6. Cardinality(releases') <= Cardinality(releases) + 1
      BY <1>3, <3>1, <3>5, FS_AddElement
    <3>7. Cardinality(releases') <= Queue
      <4>1. releases' \in SUBSET (1..last) /\ Cardinality(releases') \in Nat
        BY <1>2, <3>1, <3>2, GroupsFinite
      <4> QED
        BY <1>2, <1>3, <3>1, <3>6, <4>1
    <3>8. Cardinality(sending') <= 1
      BY <3>1, FS_EmptySet
    <3> QED
      BY <3>1, <3>7, <3>8 DEF Backlog
  <2>2. CASE \E t \in releases : TakeRelease(t)
    <3>1. PICK t \in releases : TakeRelease(t)
      BY <2>2
    <3>2. /\ sending' = sending /\ releases' = releases \ {t} /\ awaiting' = {t} /\ awaiting = {}
      BY <3>1 DEF TakeRelease, engine
    <3>3. Cardinality(releases') <= Cardinality(releases) /\ Cardinality(releases') \in Nat
      <4>1. releases' \in SUBSET releases
        BY <3>2
      <4> QED
        BY <1>2, <4>1, GroupsFinite
    <3>4. Cardinality(releases') <= Queue
      BY <1>2, <1>3, <3>3 DEF Backlog
    <3>5. Cardinality(awaiting') <= 1
      BY <3>2, FS_Singleton
    <3> QED
      BY <3>2, <3>4, <3>5 DEF Backlog
  <2> QED
    BY <2>1, <2>2
<1>7. core = "running" => Cardinality(Unresolved' \ sending') <= Queue + 1
  <2>1. SUFFICES ASSUME core = "running" PROVE Cardinality(Unresolved' \ sending') <= Queue + 1
    OBVIOUS
  <2>2. Unresolved' \ sending' \subseteq releases' \cup awaiting'
    BY <1>4, <1>5, <1>6, <2>1 DEF Backlog
  <2>3. /\ releases' \in SUBSET (1..last') /\ awaiting' \in SUBSET (1..last') /\ last' \in Nat
    BY <1>1 DEF TypeOK
  <2>4. /\ IsFiniteSet(releases') /\ IsFiniteSet(awaiting')
        /\ Cardinality(releases') \in Nat /\ Cardinality(awaiting') \in Nat
        /\ releases' \cup awaiting' \in SUBSET (1..last')
    BY <2>3, GroupsFinite
  <2>5. Cardinality(releases' \cup awaiting') <= Cardinality(releases') + Cardinality(awaiting')
    <3>1. Cardinality(releases' \cap awaiting') \in Nat
      BY <2>3, GroupsFinite
    <3> QED
      BY <2>4, <3>1, FS_Union
  <2>6. Cardinality(Unresolved' \ sending') <= Cardinality(releases' \cup awaiting')
        /\ Cardinality(Unresolved' \ sending') \in Nat
        /\ Cardinality(releases' \cup awaiting') \in Nat
    BY <2>2, <2>3, <2>4, GroupsFinite
  <2> QED
    BY <1>2, <1>6, <2>4, <2>5, <2>6
<1> QED
  BY <1>4, <1>5, <1>6, <1>7 DEF Backlog

\* A release that leaves has its group resolved, or nobody comes after it.
LEMMA BacklogReleaser ==
  ASSUME IInv, Backlog, HandOver \/ ReleaserEnds
  PROVE  Backlog'
<1>1. /\ UNCHANGED <<queue, batch, row, good, bad, core, sending, executor>>
      /\ awaiting' = {} /\ releases' \in {releases, {}}
  BY DEF HandOver, ReleaserEnds, groups, writer, engine, host
<1>2. Unresolved' = Unresolved /\ Unresolved \subseteq queue \cup batch
  BY <1>1 DEF Unresolved
<1>3. Cardinality(awaiting') <= 1 /\ Cardinality(releases') <= Queue
  BY <1>1, FS_EmptySet, BoundsAssumption DEF Backlog
<1>4. core' = "running" /\ releaser' = "running"
          => Unresolved' \subseteq sending' \cup releases' \cup awaiting'
  <2>1. CASE HandOver
    <3>1. awaiting \subseteq good /\ releaser = "running" /\ releases' = releases
      BY <2>1 DEF HandOver
    <3>2. awaiting \cap Unresolved = {}
      BY <1>2, <3>1 DEF Backlog
    <3> QED
      BY <1>1, <1>2, <3>1, <3>2 DEF Backlog
  <2>2. CASE ReleaserEnds
    BY <2>2 DEF ReleaserEnds
  <2> QED
    BY <2>1, <2>2
<1>5. core # "down"
  BY DEF Backlog, HandOver, ReleaserEnds, IInv, TypeOK
<1> QED
  BY <1>1, <1>2, <1>3, <1>4, <1>5 DEF Backlog

\* The end of the engine task and of the process, and the next start.
LEMMA BacklogEnds ==
  ASSUME IInv, Backlog, CoreEnds \/ Lose \/ Start
  PROVE  Backlog'
<1>1. Cardinality({}) = 0 /\ Queue \in Nat /\ \A S : {} \ S = {}
  BY FS_EmptySet, BoundsAssumption
<1>2. CASE CoreEnds
  <2>1. /\ UNCHANGED <<queue, batch, row, good, bad, releases, awaiting, executor>>
        /\ sending' = {} /\ core' = "ended"
    BY <1>2 DEF CoreEnds, groups, writer, release, host
  <2>2. Unresolved' = Unresolved
    BY <2>1 DEF Unresolved
  <2> QED
    BY <1>1, <2>1, <2>2 DEF Backlog
<1>3. CASE Lose
  <2>1. Unresolved' = {}
    BY <1>3 DEF Lose, Unresolved
  <2> QED
    BY <1>1, <1>3, <2>1 DEF Lose, Backlog
<1>4. CASE Start
  <2>1. Unresolved' = {} /\ sending' = {} /\ releases' = {} /\ awaiting' = {}
        /\ queue' \cup batch' = {} /\ executor' = "idle" /\ core' = "running"
    BY <1>4 DEF Start, Backlog, Unresolved, groups, writer, release, host
  <2> QED
    BY <1>1, <2>1 DEF Backlog
<1> QED
  BY <1>2, <1>3, <1>4

LEMMA BacklogStep ==
  ASSUME IInv, Backlog, [Next]_vars
  PROVE  Backlog'
<1>1. TypeOK /\ AtWork /\ IInv'
  BY StepOK DEF IInv
<1>2. 0 \notin queue \cup batch \cup queue' \cup batch'
  BY <1>1 DEF IInv, TypeOK
<1>3. CASE Handle \/ Due
  <2>1. CASE \E kind \in Kinds : Emit(kind)
    BY <1>3, <2>1, BacklogEmit DEF Handle, Due
  <2>2. CASE Handle /\ UNCHANGED <<groups, writer, sending>>
    BY <1>1, <2>2, BacklogKept DEF Handle, Ready, Unresolved, Backlog, groups, writer, release, host
  <2> QED
    BY <1>3, <2>1, <2>2 DEF Handle, Due
<1>4. CASE Send \/ \E t \in releases : TakeRelease(t)
  BY <1>4, BacklogSend
<1>5. CASE HandOver \/ ReleaserEnds
  BY <1>5, BacklogReleaser
<1>6. CASE CoreEnds \/ Exit \/ Crash \/ Start
  BY <1>6, BacklogEnds DEF Exit, Crash
<1>7. CASE Arrive \/ TakeBatch \/ Commit \/ CommitFails \/ Refuse
  <2>1. /\ UNCHANGED <<core, releaser, sending, releases, awaiting, executor, row, good, bad>>
        /\ queue' \cup batch' = queue \cup batch
    BY <1>7 DEF Arrive, TakeBatch, Commit, CommitFails, Refuse, groups, writer, engine, release, host
  <2>2. core # "down"
    BY <1>7 DEF Backlog, Arrive, TakeBatch, Commit, CommitFails, Refuse
  <2> QED
    BY <1>1, <2>1, <2>2, BacklogKept DEF Unresolved, Backlog
<1>8. CASE \E t \in batch : Resolve(t)
  <2>1. PICK t \in batch : Resolve(t)
    BY <1>8
  <2>2. /\ UNCHANGED <<core, releaser, sending, releases, awaiting, executor, row>>
        /\ queue' = queue /\ batch' = batch \ {t} /\ good' \cup bad' \subseteq good \cup bad \cup {t}
    BY <2>1 DEF Resolve, groups, engine, release, host
  <2>3. t \notin queue
    BY <2>1 DEF IInv, WriterHasRest, TypeOK
  <2>4. core # "down"
    BY DEF Backlog
  <2> QED
    BY <1>1, <2>2, <2>3, <2>4, BacklogKept DEF Unresolved, Backlog
<1>9. CASE (\E t \in jobs : Begin(t)) \/ Perform \/ Move \/ Give
  <2>1. UNCHANGED <<core, releaser, sending, releases, awaiting, queue, batch, row, good, bad>>
    BY <1>9 DEF Begin, Perform, Move, Give, groups, writer, engine, release
  <2>2. core # "down"
    BY <1>9 DEF Backlog, Begin, Perform, Move, Give
  <2>3. executor' \in {"moved", "refused"} => row' \notin queue' \cup batch'
    BY <1>1, <1>2, <1>9, <2>1 DEF Backlog, AtWork, Begin, Perform, Move, Give
  <2> QED
    BY <1>1, <2>1, <2>2, <2>3, BacklogKept DEF Unresolved, Backlog
<1>10. CASE Journal
  <2>1. /\ UNCHANGED <<core, releaser, sending, releases, awaiting, batch, good, bad>>
        /\ queue' = queue \cup {last + 1} /\ row' = last + 1 /\ executor' = "waiting"
        /\ executor = "taken" /\ row = 0
    BY <1>1, <1>10 DEF Journal, Submit, AtWork, engine, release
  <2>2. last + 1 \notin good \cup bad \cup queue \cup batch
    BY <1>1 DEF TypeOK
  <2>3. core # "down"
    BY <2>1 DEF Backlog
  <2> QED
    BY <1>1, <1>2, <2>1, <2>2, <2>3, BacklogKept DEF Unresolved, Backlog
<1>11. CASE Reported \/ ExecutorEnds
  <2>1. /\ UNCHANGED <<core, releaser, sending, releases, awaiting, queue, batch, good, bad>>
        /\ row' = 0 /\ executor' \in {"idle", "ended"} /\ core # "down"
        /\ executor \in {"moved", "refused"} \/ row = 0
    BY <1>1, <1>11
    DEF Reported, ExecutorEnds, AtWork, groups, writer, engine, release
  <2>2. row \notin queue \cup batch
    BY <1>2, <2>1 DEF Backlog
  <2> QED
    BY <1>1, <1>2, <2>1, <2>2, BacklogKept DEF Unresolved, Backlog
<1>12. CASE UNCHANGED vars
  BY <1>12 DEF Unresolved, Backlog, vars, groups, writer, engine, release, host
<1> QED
  BY <1>3, <1>4, <1>5, <1>6, <1>7, <1>8, <1>9, <1>10, <1>11, <1>12 DEF Next

\* The engine is never further ahead of the store than the queue of releases
\* and the two groups at its ends, whatever fails and whichever task ends.
THEOREM BacklogBounded == Spec => []BoundedBacklog
<1>1. Init => Backlog
  <2>1. Init => Unresolved = {} /\ Unresolved \ sending = {}
    BY DEF Init, Unresolved
  <2> QED
    BY <2>1, FS_EmptySet, BoundsAssumption DEF Init, Backlog
<1>2. Backlog => BoundedBacklog
  BY DEF Backlog, BoundedBacklog, Unresolved
<1> QED
  BY <1>1, <1>2, BacklogStep, Invariance, PTL DEF Spec

=============================================================================
