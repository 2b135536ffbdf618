-------------------------- MODULE ReconcilerProofs --------------------------
(***************************************************************************)
(* Theorems about Reconciler for any number of concurrent calls, any       *)
(* repository, any configurations and any pattern of failures.             *)
(*                                                                         *)
(* The argument: the guard is 1 while a call is running, so there is at    *)
(* most one (LockInv); hence nobody else writes last_processed_commit      *)
(* between the moment a run reads it and the moment it writes it           *)
(* (BaseInv), the commit it found by comparing with what it read is not    *)
(* older than what is stored (TargetInv), and it writes only after the     *)
(* engine has applied that commit (DoneInv).                               *)
(***************************************************************************)
EXTENDS Reconciler, TLAPS

\* A running call holds the guard, and it is the only one.
LockInv ==
    /\ \A t \in Calls : Running(t) => guard = 1
    /\ AtMostOneRun

\* From its first read to its last write a run and the storage agree.
BaseInv ==
    \A t \in Calls : pc[t] \notin {"idle", "getLast", "release"} => base[t] = lastFinished

TargetInv ==
    \A t \in Calls : AtWork(t) =>
        target[t] \in Commits /\ NotOlder(target[t], lastFinished)

DoneInv ==
    \A t \in Calls : pc[t] \in AppliedLabels =>
        target[t] \in applied /\ lastApplied = target[t]

\* The part of the invariant that is about data.
DataInv ==
    /\ BaseInv
    /\ TargetInv
    /\ DoneInv
    /\ FinishedWasApplied
    /\ SuccessWasApplied
    /\ AppliedNotOlder

Inv ==
    /\ TypeOK
    /\ LockInv
    /\ DataInv
-----------------------------------------------------------------------------
\* What the search returns is one of the commits of the log, it passes the
\* checks, and it is not the boundary: the cited facts of FirstHit.
LEMMA FoundIsAcceptable ==
    ASSUME NEW log \in Seq(Commits), NEW last, NEW sigs, NEW keys, NEW n, NEW day,
           NEW i \in 1..Len(log),
           FirstHit(log, last, Acceptable(last, sigs, keys, n, day), i)
    PROVE  log[i] \in Commits /\ NotOlder(log[i], last)
  BY DEF FirstHit, Acceptable

LEMMA InitType == Init => TypeOK
  BY CommitAssumption, BoundAssumption
     DEF Init, TypeOK, Labels, Snaps, NoSnap, StatusKinds

\* The types are preserved by every step of a run.  The engine adds the run's
\* commit to what is applied, so that commit must be one.
LEMMA RunType ==
    ASSUME TypeOK, TargetInv, NEW t \in Calls, Tick(t) \/ Run(t)
    PROVE  TypeOK'
  <1> USE BoundAssumption
          DEF TypeOK, Labels, storage, outside, history, Goto, Works, Fails
  <1>1. CASE Tick(t)
    BY <1>1 DEF Tick
  <1>2. CASE GetLast(t)
    BY <1>2 DEF GetLast
  <1>3. CASE ReadConfig(t)
    BY <1>3, ConfigAssumption DEF ReadConfig
  <1>4. CASE CheckInterval(t)
    BY <1>4 DEF CheckInterval
  <1>5. CASE Stamp(t)
    BY <1>5 DEF Stamp
  <1>6. CASE Clone(t)
    <2>1. [log |-> Log[head], signed |-> signed] \in Snaps
      BY LogAssumption DEF Snaps
    <2>2. snap' \in [Calls -> Snaps]
      BY <1>6, <2>1 DEF Clone
    <2> QED
      BY <1>6, <2>2 DEF Clone
  <1>7. CASE Find(t)
    <2>1. snap[t].log \in Seq(Commits)
      BY DEF Snaps
    <2>2. \A i \in 1..Len(snap[t].log) : snap[t].log[i] \in Commits
      BY <2>1
    <2>3. target' \in [Calls -> Commits \cup {NoCommit}]
      BY <1>7, <2>2 DEF Find
    <2>4. pc' \in [Calls -> Labels]
      BY <1>7 DEF Find
    <2>5. faults' \in 0..MaxFaults
      BY <1>7 DEF Find
    <2>6. UNCHANGED <<guard, base, period, snap, storage, outside, edits, history>>
      BY <1>7 DEF Find
    <2> QED
      BY <2>3, <2>4, <2>5, <2>6
  <1>8. CASE ReportCheckFailed(t)
    BY <1>8 DEF ReportCheckFailed, PutStatus, StatusKinds
  <1>9. CASE ReportNoNew(t)
    BY <1>9 DEF ReportNoNew, PutStatus, StatusKinds
  <1>10. CASE ReportProcessing(t)
    BY <1>10 DEF ReportProcessing, PutStatus, StatusKinds
  <1>11. CASE RunEngine(t)
    <2>1. target[t] \in Commits
      BY <1>11 DEF RunEngine, TargetInv, AtWork, BegunLabels
    <2> QED
      BY <1>11, <2>1 DEF RunEngine
  <1>12. CASE ReportCommitFailed(t)
    BY <1>12 DEF ReportCommitFailed, PutStatus, StatusKinds
  <1>13. CASE ReportSuccess(t)
    BY <1>13 DEF ReportSuccess, PutStatus, StatusKinds
  <1>14. CASE StoreLast(t)
    BY <1>14 DEF StoreLast
  <1>15. CASE Release(t)
    BY <1>15 DEF Release, NoSnap, Snaps
  <1> QED
    BY <1>1, <1>2, <1>3, <1>4, <1>5, <1>6, <1>7, <1>8, <1>9, <1>10, <1>11, <1>12,
       <1>13, <1>14, <1>15 DEF Run

\* The types are preserved by what happens around the runs.
LEMMA EnvironmentType ==
    ASSUME TypeOK, Environment
    PROVE  TypeOK'
  <1> USE BoundAssumption
          DEF TypeOK, memory, storage, outside, history, Edit
  <1>1. CASE Crash
    BY <1>1 DEF Crash, Fails, Labels, NoSnap, Snaps
  <1>2. CASE Push
    BY <1>2 DEF Push
  <1>3. CASE Sign
    BY <1>3 DEF Sign
  <1>4. CASE ChangeKeys
    BY <1>4 DEF ChangeKeys
  <1>5. CASE Configure
    BY <1>5 DEF Configure
  <1>6. CASE TimePasses
    BY <1>6 DEF TimePasses, CapAt
  <1>7. CASE DayPasses
    BY <1>7 DEF DayPasses
  <1> QED
    BY <1>1, <1>2, <1>3, <1>4, <1>5, <1>6, <1>7 DEF Environment

\* Taking the guard is possible only when nobody runs, and only a run's own
\* release, or a crash, gives it back.
LEMMA LockStep ==
    ASSUME TypeOK, LockInv, [Next]_vars
    PROVE  LockInv'
  <1> USE DEF LockInv, AtMostOneRun, Running, TypeOK
  <1>1. ASSUME NEW t \in Calls, Tick(t) PROVE LockInv'
    BY <1>1 DEF Tick, Goto
  <1>2. ASSUME NEW t \in Calls, Release(t) PROVE LockInv'
    BY <1>2 DEF Release, Goto
  <1>3. ASSUME NEW t \in Calls, Run(t), ~Release(t) PROVE LockInv'
    <2>1. guard' = guard /\ Running(t)
      BY <1>3 DEF Run, GetLast, ReadConfig, CheckInterval, Stamp, Clone, Find,
         ReportCheckFailed, ReportNoNew, ReportProcessing, RunEngine,
         ReportCommitFailed, ReportSuccess, StoreLast
    <2>2. \E l \in Labels : pc' = [pc EXCEPT ![t] = l]
      BY <1>3 DEF Run, GetLast, ReadConfig, CheckInterval, Stamp, Clone, Find,
         ReportCheckFailed, ReportNoNew, ReportProcessing, RunEngine,
         ReportCommitFailed, ReportSuccess, StoreLast, Goto, Labels
    <2> QED
      BY <2>1, <2>2
  <1>4. CASE Crash
    BY <1>4 DEF Crash
  <1>5. CASE UNCHANGED <<guard, pc>>
    BY <1>5
  <1>6. ASSUME Environment, ~Crash PROVE UNCHANGED <<guard, pc>>
    BY <1>6 DEF Environment, Push, Sign, ChangeKeys, Configure, TimePasses, DayPasses,
       memory
  <1>7. UNCHANGED vars => UNCHANGED <<guard, pc>>
    BY DEF vars, memory
  <1> QED
    BY <1>1, <1>2, <1>3, <1>4, <1>5, <1>6, <1>7 DEF Next

\* In a step of a run every other call is idle, so the step disturbs only what the
\* invariant says of the run itself.
LEMMA RunData ==
    ASSUME TypeOK, LockInv, DataInv, NEW t \in Calls, Tick(t) \/ Run(t)
    PROVE  DataInv'
  <1> USE CommitAssumption
          DEF TypeOK, DataInv, BaseInv, TargetInv, DoneInv, AtWork, BegunLabels, AppliedLabels,
              FinishedWasApplied, SuccessWasApplied, AppliedNotOlder,
              storage, outside, history, Goto, NotOlder
  <1>0. \A u \in Calls \ {t} : pc[u] = "idle" \/ pc[t] = "idle"
    BY DEF LockInv, AtMostOneRun, Running
  <1>1. CASE Tick(t)
    BY <1>0, <1>1 DEF Tick
  <1>2. CASE GetLast(t)
    BY <1>0, <1>2 DEF GetLast
  <1>3. CASE ReadConfig(t)
    BY <1>0, <1>3 DEF ReadConfig
  <1>4. CASE CheckInterval(t)
    BY <1>0, <1>4 DEF CheckInterval
  <1>5. CASE Stamp(t)
    BY <1>0, <1>5 DEF Stamp
  <1>6. CASE Clone(t)
    BY <1>0, <1>6 DEF Clone
  <1>7. CASE Find(t)
    <2>1. CASE pc'[t] = "processing"
      <3>1. PICK i \in 1..Len(snap[t].log) :
                /\ FirstHit(snap[t].log, base[t],
                       Acceptable(base[t], snap[t].signed, trusted, config.required, today), i)
                /\ target' = [target EXCEPT ![t] = snap[t].log[i]]
        BY <1>7, <2>1 DEF Find
      <3>2. snap[t].log \in Seq(Commits)
        BY DEF Snaps
      <3>3. target'[t] \in Commits /\ NotOlder(target'[t], base[t])
        BY <3>1, <3>2, FoundIsAcceptable
      <3> QED
        BY <1>0, <1>7, <2>1, <3>1, <3>3 DEF Find
    <2>2. CASE pc'[t] # "processing"
      BY <1>0, <1>7, <2>2 DEF Find
    <2> QED
      BY <2>1, <2>2
  <1>8. CASE ReportCheckFailed(t)
    BY <1>0, <1>8 DEF ReportCheckFailed, PutStatus
  <1>9. CASE ReportNoNew(t)
    BY <1>0, <1>9 DEF ReportNoNew, PutStatus
  <1>10. CASE ReportProcessing(t)
    BY <1>0, <1>10 DEF ReportProcessing, PutStatus
  <1>11. CASE RunEngine(t)
    BY <1>0, <1>11 DEF RunEngine
  <1>12. CASE ReportCommitFailed(t)
    BY <1>0, <1>12 DEF ReportCommitFailed, PutStatus
  <1>13. CASE ReportSuccess(t)
    BY <1>0, <1>13 DEF ReportSuccess, PutStatus
  <1>14. CASE StoreLast(t)
    BY <1>0, <1>14 DEF StoreLast
  <1>15. CASE Release(t)
    BY <1>0, <1>15 DEF Release
  <1> QED
    BY <1>1, <1>2, <1>3, <1>4, <1>5, <1>6, <1>7, <1>8, <1>9, <1>10, <1>11, <1>12,
       <1>13, <1>14, <1>15 DEF Run

\* A crash empties the runs and leaves the storage; the rest of the environment
\* touches neither.
LEMMA OtherData ==
    ASSUME TypeOK, DataInv, Environment \/ UNCHANGED vars
    PROVE  DataInv'
  <1> USE DEF DataInv, BaseInv, TargetInv, DoneInv, AtWork, BegunLabels, AppliedLabels,
              FinishedWasApplied, SuccessWasApplied, AppliedNotOlder, NotOlder
  <1>1. CASE Crash
    BY <1>1 DEF Crash, storage, history
  <1>2. ASSUME ~Crash
        PROVE  UNCHANGED <<pc, base, target, lastFinished, status, applied, lastApplied>>
    BY <1>2 DEF Environment, Push, Sign, ChangeKeys, Configure, TimePasses, DayPasses,
       vars, memory, storage, history
  <1> QED
    BY <1>1, <1>2

\* The invariant holds of every reachable state.
THEOREM Invariance == Spec => []Inv
  <1>1. Init => Inv
    <2> SUFFICES ASSUME Init PROVE Inv
      OBVIOUS
    <2>1. LockInv
      BY DEF Init, LockInv, AtMostOneRun, Running
    <2>2. DataInv
      BY DEF Init, DataInv, BaseInv, TargetInv, DoneInv, AtWork, BegunLabels, AppliedLabels,
         FinishedWasApplied, SuccessWasApplied, AppliedNotOlder
    <2> QED
      BY <2>1, <2>2, InitType DEF Inv
  <1>2. Inv /\ [Next]_vars => Inv'
    <2> SUFFICES ASSUME Inv, [Next]_vars PROVE Inv'
      OBVIOUS
    <2>1. TypeOK'
      <3>1. CASE UNCHANGED vars
        BY <3>1 DEF Inv, vars, memory, storage, outside, history, TypeOK
      <3> QED
        BY <3>1, RunType, EnvironmentType DEF Next, Inv, DataInv
    <2>2. LockInv'
      BY LockStep DEF Inv
    <2>3. DataInv'
      BY RunData, OtherData DEF Next, Inv
    <2> QED
      BY <2>1, <2>2, <2>3 DEF Inv
  <1> QED
    BY <1>1, <1>2, PTL DEF Spec

\* Every variable always has its type: in particular, the counters of failures
\* and elapsed time stay within their bounds and a run's commit is a commit.
THEOREM TypeCorrect == Spec => []TypeOK
  BY Invariance, PTL DEF Inv

\* periodic.go:52: the compare-and-swap guard lets at most one run work at a
\* time, also across failures and restarts.
THEOREM MutualExclusion == Spec => []AtMostOneRun
  BY Invariance, PTL DEF Inv, LockInv

\* periodic.go:158: "Save last finished commit only if processCommit succeeded".
THEOREM FinishedIsApplied == Spec => []FinishedWasApplied
  BY Invariance, PTL DEF Inv, DataInv

\* The status endpoint never claims a success for a commit the engine has not
\* applied.
THEOREM SuccessIsApplied == Spec => []SuccessWasApplied
  BY Invariance, PTL DEF Inv, DataInv

\* What the engine applied last is never older than the recorded commit.
THEOREM AppliedIsNotOlder == Spec => []AppliedNotOlder
  BY Invariance, PTL DEF Inv, DataInv

\* What a run read before cloning is still stored when it decides and writes.
THEOREM RunAndStorageAgree == Spec => []RunAgreesWithStorage
  <1>1. Inv => RunAgreesWithStorage
    BY CommitAssumption DEF Inv, DataInv, BaseInv, TargetInv, RunAgreesWithStorage,
       AtWork, BegunLabels, AppliedLabels
  <1> QED
    BY <1>1, Invariance, PTL
-----------------------------------------------------------------------------
\* Only the last write of a run changes the recorded commit.
LEMMA OnlyStoreLastWrites ==
    ASSUME [Next]_vars, lastFinished' # lastFinished
    PROVE  \E t \in Calls : StoreLast(t) /\ lastFinished' = target[t]
  <1>1. ~Environment /\ ~UNCHANGED vars
    BY DEF Environment, Crash, Push, Sign, ChangeKeys, Configure, TimePasses, DayPasses,
       vars, storage
  <1>2. PICK t \in Calls : Tick(t) \/ Run(t)
    BY <1>1 DEF Next
  <1>3. StoreLast(t)
    BY <1>2 DEF Tick, Run, GetLast, ReadConfig, CheckInterval, Stamp, Clone, Find,
       ReportCheckFailed, ReportNoNew, ReportProcessing, RunEngine,
       ReportCommitFailed, ReportSuccess, Release, storage
  <1>4. lastFinished' = target[t]
    BY <1>3 DEF StoreLast
  <1> QED
    BY <1>3, <1>4

\* The recorded commit never moves back in time.
THEOREM FinishedNeverMovesBack == Spec => FinishedMovesForward
  <1>1. Inv /\ [Next]_vars =>
            [lastFinished' # lastFinished => NotOlder(lastFinished', lastFinished)]_vars
    <2> SUFFICES ASSUME Inv, [Next]_vars, lastFinished' # lastFinished
                 PROVE  NotOlder(lastFinished', lastFinished)
      OBVIOUS
    <2>1. PICK t \in Calls : StoreLast(t) /\ lastFinished' = target[t]
      BY OnlyStoreLastWrites
    <2>2. NotOlder(target[t], lastFinished)
      BY <2>1 DEF StoreLast, Inv, DataInv, TargetInv, AtWork, AppliedLabels
    <2> QED
      BY <2>1, <2>2
  <1> QED
    BY <1>1, Invariance, PTL DEF Spec, FinishedMovesForward
-----------------------------------------------------------------------------
(***************************************************************************)
(* Polling.  The stored timestamp is short of the true time by less than a *)
(* second, so its age exceeds the time since the last run by less than one *)
(* second as well; a run that is about to store a new one has found the    *)
(* age above its period, and nobody else can have stored one since.        *)
(***************************************************************************)
PollInv ==
    /\ gap = Cap \/ gap + TicksPerSecond > age
    /\ \A t \in Calls : pc[t] = "stamp" => age > period[t] * TicksPerSecond

LEMMA PollStep ==
    ASSUME Inv, Inv', PollInv, [Next]_vars
    PROVE  PollInv'
  <1> USE BoundAssumption DEF PollInv, Inv, TypeOK
  <1>1. ASSUME NEW t \in Calls, CheckInterval(t) PROVE PollInv'
    BY <1>1 DEF CheckInterval, Goto, storage, history
  <1>2. ASSUME NEW t \in Calls, Stamp(t) PROVE PollInv'
    <2>1. \A u \in Calls : pc'[u] # "stamp"
      BY <1>2 DEF Stamp, Goto, LockInv, AtMostOneRun, Running
    <2>2. (age' = phase /\ gap' = 0) \/ UNCHANGED <<age, gap>>
      BY <1>2 DEF Stamp
    <2>3. CASE age' = phase /\ gap' = 0
      <3>1. gap' + TicksPerSecond > age'
        BY <2>3
      <3> QED
        BY <2>1, <3>1
    <2>4. CASE UNCHANGED <<age, gap>>
      BY <2>1, <2>4
    <2> QED
      BY <2>2, <2>3, <2>4
  <1>3. CASE TimePasses
    <2>1. age' >= age /\ (gap' = Cap \/ gap' + TicksPerSecond > age')
      BY <1>3 DEF TimePasses, CapAt
    <2>2. UNCHANGED <<pc, period>>
      BY <1>3 DEF TimePasses, memory
    <2>3. ASSUME NEW t \in Calls, pc'[t] = "stamp" PROVE age' > period'[t] * TicksPerSecond
      <3>1. period[t] * TicksPerSecond \in Int
        OBVIOUS
      <3> QED
        BY <2>1, <2>2, <2>3, <3>1
    <2> QED
      BY <2>1, <2>3
  <1>4. CASE Crash
    BY <1>4 DEF Crash, storage, history
  <1>5. ASSUME NEW t \in Calls, Tick(t) \/ Run(t), ~CheckInterval(t), ~Stamp(t)
        PROVE  PollInv'
    <2>1. UNCHANGED <<age, gap>>
      BY <1>5 DEF Tick, Run, GetLast, ReadConfig, Clone, Find, ReportCheckFailed,
         ReportNoNew, ReportProcessing, RunEngine, ReportCommitFailed, ReportSuccess,
         StoreLast, Release, storage, history
    <2>2. \A u \in Calls : pc'[u] = "stamp" => pc[u] = "stamp" /\ period'[u] = period[u]
      BY <1>5 DEF Tick, Run, GetLast, ReadConfig, Clone, Find, ReportCheckFailed,
         ReportNoNew, ReportProcessing, RunEngine, ReportCommitFailed, ReportSuccess,
         StoreLast, Release, Goto
    <2> QED
      BY <2>1, <2>2
  <1>6. ASSUME Environment \/ UNCHANGED vars, ~Crash, ~TimePasses PROVE PollInv'
    <2>1. UNCHANGED <<age, gap, pc, period>>
      BY <1>6 DEF Environment, Push, Sign, ChangeKeys, Configure, DayPasses, vars,
         memory, storage, history
    <2> QED
      BY <2>1
  <1> QED
    BY <1>1, <1>2, <1>3, <1>4, <1>5, <1>6 DEF Next

\* Two runs that go on to clone are the poll period, less a second, apart.
THEOREM PollsStaySpaced == Spec => PollsAreSpaced
  <1>1. Init => PollInv
    BY BoundAssumption DEF Init, PollInv
  <1>2. Inv /\ Inv' /\ PollInv /\ [Next]_vars => PollInv'
    BY PollStep
  <1>3. Inv /\ PollInv =>
          [\A t \in Calls : Stamp(t) /\ pc'[t] = "clone" =>
             gap = Cap \/ gap > (period[t] - 1) * TicksPerSecond]_vars
    <2> SUFFICES ASSUME Inv, PollInv, NEW t \in Calls, Stamp(t), gap # Cap
                 PROVE  gap > (period[t] - 1) * TicksPerSecond
      OBVIOUS
    <2>1. period[t] \in Int /\ age \in Int /\ gap \in Int /\ TicksPerSecond \in Int
      BY BoundAssumption DEF Inv, TypeOK
    <2>2. age > period[t] * TicksPerSecond /\ gap + TicksPerSecond > age
      BY DEF PollInv, Stamp
    <2>3. (period[t] - 1) * TicksPerSecond = period[t] * TicksPerSecond - TicksPerSecond
      BY <2>1
    <2>4. period[t] * TicksPerSecond \in Int
      BY <2>1
    <2> QED
      BY <2>1, <2>2, <2>3, <2>4
  <1> QED
    BY <1>1, <1>2, <1>3, Invariance, PTL DEF Spec, PollsAreSpaced
-----------------------------------------------------------------------------
(***************************************************************************)
(* Refinement.  The call at work, if there is one, is the abstract worker. *)
(***************************************************************************)
LEMMA WorkerNow ==
    ASSUME LockInv, NEW t \in Calls, AtWork(t)
    PROVE  /\ WorkingOn = target[t]
           /\ Stage = IF pc[t] \in AppliedLabels THEN "applied" ELSE "begun"
  <1>1. \A u \in Calls : AtWork(u) <=> u = t
    BY DEF LockInv, AtMostOneRun, Running, AtWork, BegunLabels, AppliedLabels
  <1>2. t \in Working /\ Working = {t}
    BY <1>1 DEF Working
  <1>3. Worker = t
    BY <1>1 DEF Worker
  <1> QED
    BY <1>2, <1>3 DEF WorkingOn, Stage

LEMMA WorkerNext ==
    ASSUME LockInv', NEW t \in Calls, AtWork(t)'
    PROVE  /\ WorkingOn' = target'[t]
           /\ Stage' = IF pc'[t] \in AppliedLabels THEN "applied" ELSE "begun"
  <1>1. \A u \in Calls : AtWork(u)' <=> u = t
    BY DEF LockInv, AtMostOneRun, Running, AtWork, BegunLabels, AppliedLabels
  <1>2. t \in Working' /\ Working' = {t}
    BY <1>1 DEF Working
  <1>3. Worker' = t
    BY <1>1 DEF Worker
  <1> QED
    BY <1>2, <1>3 DEF WorkingOn, Stage

LEMMA NobodyNow ==
    ASSUME \A t \in Calls : ~AtWork(t)
    PROVE  WorkingOn = NoCommit /\ Stage = "none"
  BY DEF Working, WorkingOn, Stage

LEMMA NobodyNext ==
    ASSUME \A t \in Calls : ~AtWork(t)'
    PROVE  WorkingOn' = NoCommit /\ Stage' = "none"
  BY DEF Working, WorkingOn, Stage

\* A step in which nobody works before or after is a stutter.
LEMMA IdleStep ==
    ASSUME \A t \in Calls : ~AtWork(t) /\ ~AtWork(t)',
           lastFinished' = lastFinished, applied' = applied
    PROVE  UNCHANGED <<lastFinished, WorkingOn, Stage, applied>>
  BY NobodyNow, NobodyNext

\* A step of a worker that changes neither its commit nor its stage is one too.
LEMMA SameWorkStep ==
    ASSUME LockInv, LockInv', NEW t \in Calls, AtWork(t), AtWork(t)',
           target'[t] = target[t], lastFinished' = lastFinished, applied' = applied,
           pc[t] \in AppliedLabels <=> pc'[t] \in AppliedLabels
    PROVE  UNCHANGED <<lastFinished, WorkingOn, Stage, applied>>
  BY WorkerNow, WorkerNext

\* A worker that stops without a record abandons its commit.
LEMMA AbandonStep ==
    ASSUME LockInv, TargetInv, NEW t \in Calls, AtWork(t), \A u \in Calls : ~AtWork(u)',
           lastFinished' = lastFinished, applied' = applied
    PROVE  Progress!Abandon
  BY WorkerNow, NobodyNext, CommitAssumption DEF Progress!Abandon, TargetInv

\* Every step of a run is an abstract step or a stutter.
LEMMA RunRefines ==
    ASSUME Inv, Inv', NEW t \in Calls, Tick(t) \/ Run(t)
    PROVE  Progress!Next \/ UNCHANGED <<lastFinished, WorkingOn, Stage, applied>>
  <1> USE DEF AtWork, BegunLabels, AppliedLabels, Goto, TypeOK, storage, history
  <1>1. /\ TypeOK /\ LockInv /\ LockInv' /\ TargetInv /\ BaseInv
        /\ TypeOK' /\ TargetInv'
    BY DEF Inv, DataInv
  <1>2. \A u \in Calls \ {t} : pc'[u] = pc[u]
    BY <1>1 DEF Tick, Run, GetLast, ReadConfig, CheckInterval, Stamp, Clone, Find,
       ReportCheckFailed, ReportNoNew, ReportProcessing, RunEngine, ReportCommitFailed,
       ReportSuccess, StoreLast, Release
  <1>3. \A u \in Calls \ {t} : ~AtWork(u) /\ ~AtWork(u)'
    BY <1>1, <1>2 DEF LockInv, AtMostOneRun, Running, Tick, Run, GetLast, ReadConfig,
       CheckInterval, Stamp, Clone, Find, ReportCheckFailed, ReportNoNew, ReportProcessing,
       RunEngine, ReportCommitFailed, ReportSuccess, StoreLast, Release
  <1>4. ASSUME \/ Tick(t) \/ GetLast(t) \/ ReadConfig(t) \/ CheckInterval(t) \/ Stamp(t)
               \/ Clone(t) \/ ReportCheckFailed(t) \/ ReportNoNew(t) \/ Release(t)
        PROVE  UNCHANGED <<lastFinished, WorkingOn, Stage, applied>>
    <2>1. ~AtWork(t) /\ ~AtWork(t)' /\ UNCHANGED <<lastFinished, applied>>
      BY <1>1, <1>4 DEF Tick, GetLast, ReadConfig, CheckInterval, Stamp, Clone,
         ReportCheckFailed, ReportNoNew, Release
    <2> QED
      BY <1>3, <2>1, IdleStep
  <1>5. ASSUME Find(t), pc'[t] # "processing"
        PROVE  UNCHANGED <<lastFinished, WorkingOn, Stage, applied>>
    <2>1. ~AtWork(t) /\ ~AtWork(t)' /\ UNCHANGED <<lastFinished, applied>>
      BY <1>1, <1>5 DEF Find
    <2> QED
      BY <1>3, <2>1, IdleStep
  <1>6. ASSUME Find(t), pc'[t] = "processing" PROVE Progress!Begin(target'[t])
    <2>1. ~AtWork(t) /\ UNCHANGED <<lastFinished, applied>>
      BY <1>1, <1>6 DEF Find
    <2>2. AtWork(t)' /\ pc'[t] \notin AppliedLabels
      BY <1>6
    <2>3. WorkingOn = NoCommit
      BY <1>3, <2>1, NobodyNow
    <2>4. WorkingOn' = target'[t] /\ Stage' = "begun"
      BY <1>1, <2>2, WorkerNext
    <2>5. NotOlder(target'[t], lastFinished)
      BY <1>1, <2>1, <2>2 DEF TargetInv, NotOlder
    <2> QED
      BY <2>1, <2>3, <2>4, <2>5 DEF Progress!Begin, Progress!NotOlder, NotOlder
  <1>7. ASSUME ReportProcessing(t) PROVE UNCHANGED <<lastFinished, WorkingOn, Stage, applied>>
    BY <1>1, <1>7, SameWorkStep DEF ReportProcessing
  <1>8. ASSUME RunEngine(t) PROVE Progress!Next \/ UNCHANGED <<lastFinished, WorkingOn, Stage, applied>>
    <2>1. CASE pc'[t] = "success"
      <3>1. Stage = "begun" /\ WorkingOn = target[t]
        BY <1>8, <1>1, WorkerNow DEF RunEngine
      <3>2. Stage' = "applied" /\ WorkingOn' = target[t]
        BY <1>8, <1>1, <2>1, WorkerNext DEF RunEngine
      <3>3. applied' = applied \cup {target[t]} /\ lastFinished' = lastFinished
        BY <1>1, <1>8, <2>1 DEF RunEngine
      <3> QED
        BY <3>1, <3>2, <3>3 DEF Progress!Complete, Progress!Next
    <2>2. CASE pc'[t] # "success"
      BY <1>1, <1>8, <2>2, SameWorkStep DEF RunEngine
    <2> QED
      BY <2>1, <2>2
  <1>9. ASSUME ReportCommitFailed(t) PROVE Progress!Abandon
    BY <1>1, <1>3, <1>9, AbandonStep DEF ReportCommitFailed
  <1>10. ASSUME ReportSuccess(t)
         PROVE  Progress!Abandon \/ UNCHANGED <<lastFinished, WorkingOn, Stage, applied>>
    <2>1. CASE pc'[t] = "putLast"
      BY <1>1, <1>10, <2>1, SameWorkStep DEF ReportSuccess
    <2>2. CASE pc'[t] # "putLast"
      BY <1>1, <1>3, <1>10, <2>2, AbandonStep DEF ReportSuccess
    <2> QED
      BY <2>1, <2>2
  <1>11. ASSUME StoreLast(t) PROVE Progress!Record \/ Progress!Abandon
    <2>1. Stage = "applied" /\ WorkingOn = target[t]
      BY <1>11, <1>1, WorkerNow DEF StoreLast
    <2>2. \A u \in Calls : ~AtWork(u)'
      BY <1>1, <1>3, <1>11 DEF StoreLast
    <2>3. Stage' = "none" /\ WorkingOn' = NoCommit
      BY <2>2, NobodyNext
    <2>4. lastFinished' = target[t] \/ lastFinished' = lastFinished
      BY <1>11 DEF StoreLast
    <2>5. CASE lastFinished' = target[t]
      BY <1>11, <2>1, <2>3, <2>5 DEF Progress!Record, StoreLast
    <2>6. CASE lastFinished' = lastFinished
      BY <1>1, <1>11, <2>2, <2>6, AbandonStep DEF StoreLast
    <2> QED
      BY <2>4, <2>5, <2>6
  <1>12. target'[t] \in Commits \/ pc'[t] # "processing"
    BY <1>1 DEF TargetInv
  <1> QED
    BY <1>4, <1>5, <1>6, <1>7, <1>8, <1>9, <1>10, <1>11, <1>12 DEF Run, Progress!Next

\* A crash abandons the work there is; nothing else outside touches it.
LEMMA EnvironmentRefines ==
    ASSUME Inv, Inv', Environment \/ UNCHANGED vars
    PROVE  Progress!Next \/ UNCHANGED <<lastFinished, WorkingOn, Stage, applied>>
  <1>1. CASE Crash
    <2>1. \A t \in Calls : ~AtWork(t)'
      BY <1>1 DEF Crash, AtWork, BegunLabels, AppliedLabels
    <2>2. UNCHANGED <<lastFinished, applied>>
      BY <1>1 DEF Crash, storage, history
    <2>3. CASE \E t \in Calls : AtWork(t)
      BY <2>1, <2>2, <2>3, AbandonStep DEF Inv, DataInv, Progress!Next
    <2>4. CASE \A t \in Calls : ~AtWork(t)
      BY <2>1, <2>2, <2>4, IdleStep
    <2> QED
      BY <2>3, <2>4
  <1>2. ASSUME ~Crash PROVE UNCHANGED <<lastFinished, WorkingOn, Stage, applied>>
    <2>1. UNCHANGED <<lastFinished, pc, target, applied>>
      BY <1>2 DEF Environment, Push, Sign, ChangeKeys, Configure, TimePasses, DayPasses,
         vars, memory, storage, history
    <2> QED
      BY <2>1 DEF WorkingOn, Stage, Working, Worker, AtWork
  <1> QED
    BY <1>1, <1>2

\* The periodic task, with every failure, crash and change around it, implements
\* the abstract progress of one commit at a time.
THEOREM Refinement == Spec => ImplementsProgress
  <1>1. Init => Progress!Init
    <2> SUFFICES ASSUME Init PROVE Progress!Init
      OBVIOUS
    <2>1. \A t \in Calls : ~AtWork(t)
      BY DEF Init, AtWork, BegunLabels, AppliedLabels
    <2> QED
      BY <2>1, NobodyNow DEF Init, Progress!Init
  <1>2. Inv /\ Inv' /\ [Next]_vars => [Progress!Next]_<<lastFinished, WorkingOn, Stage, applied>>
    <2> SUFFICES ASSUME Inv, Inv', [Next]_vars
                 PROVE  Progress!Next \/ UNCHANGED <<lastFinished, WorkingOn, Stage, applied>>
      OBVIOUS
    <2> QED
      BY RunRefines, EnvironmentRefines DEF Next
  <1> QED
    BY <1>1, <1>2, Invariance, PTL
       DEF Spec, ImplementsProgress, Progress!Spec, Progress!progressVars
=============================================================================
