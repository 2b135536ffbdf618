----------------------------- MODULE Reconciler -----------------------------
(***************************************************************************)
(* The periodic task of the plugin (periodic.go, process.go): a tick of    *)
(* Vault takes the compare-and-swap guard and starts one run, which checks *)
(* the poll period, clones the repository, searches it for a signed        *)
(* commit, hands that commit to the engine and records it as finished.     *)
(*                                                                         *)
(* A call of PeriodicTask and the goroutine it starts are one process,     *)
(* whose program counter names the storage, git or engine operation it is  *)
(* about to do.  Every such operation is one action and may fail.  The     *)
(* remote repository, the configuration, the trusted keys and the clock    *)
(* change between any two of them, and the plugin process may stop and     *)
(* start again: memory is lost then, storage is not.                       *)
(***************************************************************************)
EXTENDS CommitRules

CONSTANTS
    Calls,          \* calls of PeriodicTask that may be under way together
    Keys,           \* PGP keys
    Log,            \* Log[c]: the commits in the order a log from c lists them
    Configs,        \* repository configurations [period, required]
    NoConfig,       \* nothing is configured
    TicksPerSecond, \* the stored timestamp drops what is below a second
    Cap,            \* elapsed times are counted up to this many ticks
    MaxDay,         \* bound on the calendar the commit dates are compared with
    MaxEdits,       \* bound on changes from outside: pushes, keys, settings
    MaxFaults,      \* bound on failed operations and crashes
    FailingOps      \* operations that may fail

Ops == {"getLast", "getConfig", "getLastRun", "putLastRun", "clone", "find",
        "putStatus", "engine", "putLast", "crash"}

ASSUME LogAssumption ==
    /\ Log \in [Commits -> Seq(Commits)]
    /\ \A c \in Commits : Len(Log[c]) > 0

ASSUME ConfigAssumption ==
    /\ Configs \subseteq [period : Int, required : Int]
    /\ NoConfig \notin Configs

ASSUME BoundAssumption ==
    /\ TicksPerSecond \in Nat \ {0}
    /\ Cap \in Nat /\ Cap >= TicksPerSecond
    /\ MaxDay \in Nat /\ MaxEdits \in Nat /\ MaxFaults \in Nat
    /\ FailingOps \subseteq Ops

\* A period that is never exceeded below the cap would stop the model, not the code.
ASSUME CapAssumption == \A c \in Configs : c.period * TicksPerSecond < Cap

VARIABLES
    \* plugin memory
    guard,          \* processGitCASGuard: 0 or 1
    pc,             \* where each call is; "idle" when it is not running
    base,           \* lastFinishedCommit as the run read it
    period,         \* config.GitPollPeriod as the run read it
    snap,           \* the clone: the log from its HEAD, the signatures in it
    target,         \* commitInfo: the commit the run has found
    \* Vault storage
    lastFinished,   \* last_processed_commit
    status,         \* process_status
    age,            \* ticks since last_periodic_run_timestamp, up to Cap
    config,         \* the repository configuration
    trusted,        \* the trusted PGP keys
    \* outside
    head,           \* HEAD of the configured branch in the remote repository
    signed,         \* who has signed each commit, in the commit or in notes
    phase,          \* ticks since the last full second
    today,          \* the day it is
    \* bounds and history
    edits, faults,
    applied,        \* commits the engine has applied without an error
    lastApplied,    \* the latest of them
    gap             \* ticks since a run last stored its timestamp, up to Cap

memory  == <<guard, pc, base, period, snap, target>>
storage == <<lastFinished, status, age, config, trusted>>
outside == <<head, signed, phase, today>>
history == <<applied, lastApplied, gap>>
vars    == <<memory, storage, outside, edits, faults, history>>

Labels == {"idle", "getLast", "config", "interval", "stamp", "clone", "find",
           "failedCheck", "noNew", "processing", "engine", "failedCommit",
           "success", "putLast", "release"}

StatusKinds == {"none", "failedCheck", "noNew", "processing", "failedCommit",
                "success"}

NoSnap == [log |-> <<>>, signed |-> [c \in Commits |-> {}]]
Snaps  == [log : Seq(Commits), signed : [Commits -> SUBSET Keys]]

Running(t) == pc[t] # "idle"

\* A run has nothing in its local variables before it starts.
Init ==
    /\ guard = 0
    /\ pc = [t \in Calls |-> "idle"]
    /\ base = [t \in Calls |-> NoCommit]
    /\ period = [t \in Calls |-> 0]
    /\ snap = [t \in Calls |-> NoSnap]
    /\ target = [t \in Calls |-> NoCommit]
    /\ lastFinished = NoCommit
    /\ status = [kind |-> "none", commit |-> NoCommit]
    /\ age = Cap
    /\ config \in Configs \cup {NoConfig}
    /\ trusted \in SUBSET Keys
    /\ head \in Commits
    /\ signed \in [Commits -> SUBSET Keys]
    /\ phase = 0 /\ today = 0 /\ edits = 0 /\ faults = 0
    /\ applied = {} /\ lastApplied = NoCommit /\ gap = Cap
-----------------------------------------------------------------------------
Goto(t, label) == pc' = [pc EXCEPT ![t] = label]

Works == UNCHANGED faults
Fails(op) == op \in FailingOps /\ faults < MaxFaults /\ faults' = faults + 1

\* Faulty: an atomic add instead of the compare-and-swap.
TickAdds(t) ==
    /\ pc[t] = "idle"
    /\ guard' = guard + 1
    /\ Goto(t, "getLast")
    /\ UNCHANGED <<base, period, snap, target, storage, outside, edits, faults, history>>

\* Faulty: the guard is set, and nobody looks whether it was.
TickUnguarded(t) ==
    /\ pc[t] = "idle"
    /\ guard' = 1
    /\ Goto(t, "getLast")
    /\ UNCHANGED <<base, period, snap, target, storage, outside, edits, faults, history>>

\* Vault calls PeriodicTask.  A tick that finds the guard taken returns nil.
Tick(t) ==
    /\ pc[t] = "idle"
    /\ guard = 0
    /\ guard' = 1
    /\ Goto(t, "getLast")
    /\ UNCHANGED <<base, period, snap, target, storage, outside, edits, faults, history>>

\* Faulty: the run starts without the recorded commit.
GetLastLost(t) ==
    /\ pc[t] = "getLast"
    /\ Works
    /\ Goto(t, "config")
    /\ UNCHANGED <<guard, base, period, snap, target, storage, outside, edits, history>>

\* The read is done by the call itself; its failure returns from PeriodicTask,
\* and the goroutine that would reset the guard is never started.
GetLast(t) ==
    /\ pc[t] = "getLast"
    /\ \/ /\ Works
          /\ base' = [base EXCEPT ![t] = lastFinished]
          /\ Goto(t, "config")
       \/ /\ Fails("getLast")
          /\ Goto(t, "idle")
          /\ UNCHANGED base
    /\ UNCHANGED <<guard, period, snap, target, storage, outside, edits, history>>

\* Faulty: an early return of the run that does not reset the guard.
ReadConfigKeepsGuard(t) ==
    /\ pc[t] = "config"
    /\ \/ /\ Works
          /\ config # NoConfig
          /\ period' = [period EXCEPT ![t] = config.period]
          /\ Goto(t, "interval")
       \/ /\ (Works /\ config = NoConfig) \/ Fails("getConfig")
          /\ Goto(t, "idle")
          /\ UNCHANGED period
    /\ UNCHANGED <<guard, base, snap, target, storage, outside, edits, history>>

\* An unset configuration is an error, like a failed read.
ReadConfig(t) ==
    /\ pc[t] = "config"
    /\ \/ /\ Works
          /\ config # NoConfig
          /\ period' = [period EXCEPT ![t] = config.period]
          /\ Goto(t, "interval")
       \/ /\ (Works /\ config = NoConfig) \/ Fails("getConfig")
          /\ Goto(t, "release")
          /\ UNCHANGED period
    /\ UNCHANGED <<guard, base, snap, target, storage, outside, edits, history>>

\* Since(time.Unix(last, 0)) > interval
CheckInterval(t) ==
    /\ pc[t] = "interval"
    /\ \/ /\ Works
          /\ Goto(t, IF age > period[t] * TicksPerSecond THEN "stamp" ELSE "release")
       \/ Fails("getLastRun") /\ Goto(t, "release")
    /\ UNCHANGED <<guard, base, period, snap, target, storage, outside, edits, history>>

\* Faulty: the run goes on although its timestamp was not stored.
StampIgnoresError(t) ==
    /\ pc[t] = "stamp"
    /\ gap' = 0 /\ Goto(t, "clone")
    /\ (Works /\ age' = phase) \/ (Fails("putLastRun") /\ UNCHANGED age)
    /\ UNCHANGED <<guard, base, period, snap, target, lastFinished, status, config,
                   trusted, outside, edits, applied, lastApplied>>

\* The timestamp is stored in whole seconds, so its age begins at the phase.
Stamp(t) ==
    /\ pc[t] = "stamp"
    /\ \/ Works /\ age' = phase /\ gap' = 0 /\ Goto(t, "clone")
       \/ /\ Fails("putLastRun")
          /\ Goto(t, "release")
          /\ \/ UNCHANGED <<age, gap>>
             \/ age' = phase /\ gap' = 0
    /\ UNCHANGED <<guard, base, period, snap, target, lastFinished, status, config,
                   trusted, outside, edits, applied, lastApplied>>

\* Clone reads the configuration again: it may have gone in the meantime.
Clone(t) ==
    /\ pc[t] = "clone"
    /\ \/ /\ Works
          /\ config # NoConfig
          /\ snap' = [snap EXCEPT ![t] = [log |-> Log[head], signed |-> signed]]
          /\ Goto(t, "find")
       \/ /\ (Works /\ config = NoConfig) \/ Fails("clone")
          /\ Goto(t, "failedCheck")
          /\ UNCHANGED snap
    /\ UNCHANGED <<guard, base, period, target, storage, outside, edits, history>>

\* The search reads the configuration a third time and the trusted keys now.
Find(t) ==
    /\ pc[t] = "find"
    /\ \/ /\ Works
          /\ config # NoConfig
          /\ LET log  == snap[t].log
                 good == Acceptable(base[t], snap[t].signed, trusted, config.required, today)
             IN  \/ \E i \in 1..Len(log) :
                       /\ FirstHit(log, base[t], good, i)
                       /\ target' = [target EXCEPT ![t] = log[i]]
                       /\ Goto(t, "processing")
                 \/ /\ NoHit(log, base[t], good)
                    /\ Goto(t, "noNew")
                    /\ UNCHANGED target
       \/ /\ (Works /\ config = NoConfig) \/ Fails("find")
          /\ Goto(t, "failedCheck")
          /\ UNCHANGED target
    /\ UNCHANGED <<guard, base, period, snap, storage, outside, edits, history>>

\* A put that reports an error may have reached the storage all the same.
PutStatus(kind, commit) ==
    \/ Works /\ status' = [kind |-> kind, commit |-> commit]
    \/ /\ Fails("putStatus")
       /\ status' \in {status, [kind |-> kind, commit |-> commit]}

\* The three status updates whose error the code drops, and the "no new signed
\* commit" one, whose error changes nothing but the log.
ReportCheckFailed(t) ==
    /\ pc[t] = "failedCheck"
    /\ PutStatus("failedCheck", NoCommit)
    /\ Goto(t, "release")
    /\ UNCHANGED <<guard, base, period, snap, target, lastFinished, age, config,
                   trusted, outside, edits, history>>

ReportNoNew(t) ==
    /\ pc[t] = "noNew"
    /\ PutStatus("noNew", NoCommit)
    /\ Goto(t, "release")
    /\ UNCHANGED <<guard, base, period, snap, target, lastFinished, age, config,
                   trusted, outside, edits, history>>

\* Faulty: the success is reported before the engine has run.
ReportProcessingEarly(t) ==
    /\ pc[t] = "processing"
    /\ PutStatus("success", target[t])
    /\ Goto(t, "engine")
    /\ UNCHANGED <<guard, base, period, snap, target, lastFinished, age, config,
                   trusted, outside, edits, history>>

ReportProcessing(t) ==
    /\ pc[t] = "processing"
    /\ PutStatus("processing", target[t])
    /\ Goto(t, "engine")
    /\ UNCHANGED <<guard, base, period, snap, target, lastFinished, age, config,
                   trusted, outside, edits, history>>

\* Faulty: the error of the engine is dropped.
RunEngineDropsError(t) ==
    /\ pc[t] = "engine"
    /\ Goto(t, "success")
    /\ \/ Works /\ applied' = applied \cup {target[t]} /\ lastApplied' = target[t]
       \/ Fails("engine") /\ UNCHANGED <<applied, lastApplied>>
    /\ UNCHANGED <<guard, base, period, snap, target, storage, outside, edits, gap>>

\* Checkout and ProcessCommit of the active engine.
RunEngine(t) ==
    /\ pc[t] = "engine"
    /\ \/ /\ Works
          /\ applied' = applied \cup {target[t]}
          /\ lastApplied' = target[t]
          /\ Goto(t, "success")
       \/ /\ Fails("engine")
          /\ Goto(t, "failedCommit")
          /\ UNCHANGED <<applied, lastApplied>>
    /\ UNCHANGED <<guard, base, period, snap, target, storage, outside, edits, gap>>

\* Faulty: a commit that failed is recorded like one that did not.
ReportCommitFailedRecords(t) ==
    /\ pc[t] = "failedCommit"
    /\ PutStatus("failedCommit", target[t])
    /\ Goto(t, "putLast")
    /\ UNCHANGED <<guard, base, period, snap, target, lastFinished, age, config,
                   trusted, outside, edits, history>>

ReportCommitFailed(t) ==
    /\ pc[t] = "failedCommit"
    /\ PutStatus("failedCommit", target[t])
    /\ Goto(t, "release")
    /\ UNCHANGED <<guard, base, period, snap, target, lastFinished, age, config,
                   trusted, outside, edits, history>>

\* Faulty: the guard is given back before the commit is recorded.
ReportSuccessReleases(t) ==
    /\ pc[t] = "success"
    /\ guard' = 0
    /\ PutStatus("success", target[t])
    /\ Goto(t, IF faults' = faults THEN "putLast" ELSE "release")
    /\ UNCHANGED <<base, period, snap, target, lastFinished, age, config, trusted,
                   outside, edits, history>>

\* Faulty: the commit is never recorded.
ReportSuccessForgets(t) ==
    /\ pc[t] = "success"
    /\ PutStatus("success", target[t])
    /\ Goto(t, "release")
    /\ UNCHANGED <<guard, base, period, snap, target, lastFinished, age, config,
                   trusted, outside, edits, history>>

\* Here an error ends the run before the commit is recorded as finished.
ReportSuccess(t) ==
    /\ pc[t] = "success"
    /\ PutStatus("success", target[t])
    /\ Goto(t, IF faults' = faults THEN "putLast" ELSE "release")
    /\ UNCHANGED <<guard, base, period, snap, target, lastFinished, age, config,
                   trusted, outside, edits, history>>

StoreLast(t) ==
    /\ pc[t] = "putLast"
    /\ Goto(t, "release")
    /\ \/ Works /\ lastFinished' = target[t]
       \/ Fails("putLast") /\ lastFinished' \in {lastFinished, target[t]}
    /\ UNCHANGED <<guard, base, period, snap, target, status, age, config, trusted,
                   outside, edits, history>>

\* The deferred store of processGitInternal.
Release(t) ==
    /\ pc[t] = "release"
    /\ guard' = 0
    /\ Goto(t, "idle")
    /\ base' = [base EXCEPT ![t] = NoCommit]
    /\ period' = [period EXCEPT ![t] = 0]
    /\ snap' = [snap EXCEPT ![t] = NoSnap]
    /\ target' = [target EXCEPT ![t] = NoCommit]
    /\ UNCHANGED <<storage, outside, edits, faults, history>>

\* What a run does by itself once it has the guard.
Run(t) ==
    \/ GetLast(t) \/ ReadConfig(t) \/ CheckInterval(t) \/ Stamp(t) \/ Clone(t)
    \/ Find(t) \/ ReportCheckFailed(t) \/ ReportNoNew(t) \/ ReportProcessing(t)
    \/ RunEngine(t) \/ ReportCommitFailed(t) \/ ReportSuccess(t) \/ StoreLast(t)
    \/ Release(t)
-----------------------------------------------------------------------------
\* The plugin process stops (a panic, a reload, Vault sealed) and starts again.
Crash ==
    /\ Fails("crash")
    /\ guard' = 0
    /\ pc' = [t \in Calls |-> "idle"]
    /\ base' = [t \in Calls |-> NoCommit]
    /\ period' = [t \in Calls |-> 0]
    /\ snap' = [t \in Calls |-> NoSnap]
    /\ target' = [t \in Calls |-> NoCommit]
    /\ UNCHANGED <<storage, outside, edits, history>>

Edit == edits < MaxEdits /\ edits' = edits + 1

\* The branch moves to any commit: a push, a forced push, another branch.
Push ==
    /\ Edit
    /\ \E c \in Commits \ {head} : head' = c
    /\ UNCHANGED <<memory, storage, signed, phase, today, faults, history>>

\* A signature is added to the notes of a commit that is already there.
Sign ==
    /\ Edit
    /\ \E c \in Commits : \E k \in Keys \ signed[c] :
          signed' = [signed EXCEPT ![c] = @ \cup {k}]
    /\ UNCHANGED <<memory, storage, head, phase, today, faults, history>>

\* An operator adds or deletes a trusted key.
ChangeKeys ==
    /\ Edit
    /\ \E k \in Keys : trusted' = IF k \in trusted THEN trusted \ {k} ELSE trusted \cup {k}
    /\ UNCHANGED <<memory, lastFinished, status, age, config, outside, faults, history>>

\* An operator writes or deletes the repository configuration.
Configure ==
    /\ Edit
    /\ \E c \in (Configs \cup {NoConfig}) \ {config} : config' = c
    /\ UNCHANGED <<memory, lastFinished, status, age, trusted, outside, faults, history>>

CapAt(n) == IF n > Cap THEN Cap ELSE n

TimePasses ==
    /\ phase' = (phase + 1) % TicksPerSecond
    /\ age' = CapAt(age + 1)
    /\ gap' = CapAt(gap + 1)
    /\ UNCHANGED <<memory, lastFinished, status, config, trusted, head, signed, today,
                   edits, faults, applied, lastApplied>>

DayPasses ==
    /\ today < MaxDay
    /\ today' = today + 1
    /\ UNCHANGED <<memory, storage, head, signed, phase, edits, faults, history>>

Environment ==
    Crash \/ Push \/ Sign \/ ChangeKeys \/ Configure \/ TimePasses \/ DayPasses

Next == (\E t \in Calls : Tick(t) \/ Run(t)) \/ Environment

Spec == Init /\ [][Next]_vars

\* Vault keeps calling, a run keeps going (its operations end within the 30
\* minutes of its context), time passes.
Fairness ==
    /\ WF_vars(\E t \in Calls : Tick(t))
    /\ \A t \in Calls : WF_vars(Run(t))
    /\ WF_vars(TimePasses)
    /\ WF_vars(DayPasses)

FairSpec == Spec /\ Fairness
-----------------------------------------------------------------------------
TypeOK ==
    /\ guard \in {0, 1}
    /\ pc \in [Calls -> Labels]
    /\ base \in [Calls -> Commits \cup {NoCommit}]
    /\ period \in [Calls -> Int]
    /\ snap \in [Calls -> Snaps]
    /\ target \in [Calls -> Commits \cup {NoCommit}]
    /\ lastFinished \in Commits \cup {NoCommit}
    /\ status \in [kind : StatusKinds, commit : Commits \cup {NoCommit}]
    /\ age \in 0..Cap /\ gap \in 0..Cap
    /\ config \in Configs \cup {NoConfig}
    /\ trusted \subseteq Keys
    /\ head \in Commits
    /\ signed \in [Commits -> SUBSET Keys]
    /\ phase \in 0..(TicksPerSecond - 1) /\ today \in 0..MaxDay
    /\ edits \in 0..MaxEdits /\ faults \in 0..MaxFaults
    /\ applied \subseteq Commits
    /\ lastApplied \in Commits \cup {NoCommit}

\* The labels between the commit being found and the run letting go of it.
BegunLabels   == {"processing", "engine", "failedCommit"}
AppliedLabels == {"success", "putLast"}
AtWork(t)     == pc[t] \in BegunLabels \cup AppliedLabels

Working == {t \in Calls : AtWork(t)}
Worker  == CHOOSE t \in Calls : AtWork(t)

\* The compare-and-swap guard keeps two runs from working at the same time.
AtMostOneRun == \A t, u \in Calls : Running(t) /\ Running(u) => t = u

\* "Save last finished commit only if processCommit succeeded": through
\* failures, crashes and restarts, the recorded commit is one that the engine
\* has applied completely.
FinishedWasApplied == lastFinished # NoCommit => lastFinished \in applied

\* The status endpoint reports a success only for a commit that was applied.
SuccessWasApplied == status.kind = "success" => status.commit \in applied

\* The commit that was applied last is not older than the recorded one: a
\* forced push to older commits cannot take Vault back behind what is recorded.
AppliedNotOlder == lastApplied # NoCommit => NotOlder(lastApplied, lastFinished)

\* What a run read of last_processed_commit before it cloned and searched is still
\* what the storage holds when it decides and writes: no other run, no failed
\* write and no restart slips in between.
RunAgreesWithStorage ==
    \A t \in Calls : AtWork(t) =>
        /\ base[t] = lastFinished
        /\ target[t] # NoCommit /\ NotOlder(target[t], lastFinished)

\* The recorded commit is replaced only by one of the same or a later date,
\* even when it was read long before it is replaced.
FinishedMovesForward ==
    [][lastFinished' # lastFinished => NotOlder(lastFinished', lastFinished)]_vars

\* Two runs that go on to clone lie more than the poll period, less the second
\* that the stored timestamp is short of, apart.
PollsAreSpaced ==
    [][\A t \in Calls : Stamp(t) /\ pc'[t] = "clone" =>
          gap = Cap \/ gap > (period[t] - 1) * TicksPerSecond]_vars

\* A taken guard is given back, whatever the run meets on its way.
GuardIsReleased == (guard = 1) ~> (guard = 0)

\* What a run would process if it started now.
Pending ==
    IF config = NoConfig THEN {}
    ELSE LET log  == Log[head]
             good == Acceptable(lastFinished, signed, trusted, config.required, today)
         IN  {log[i] : i \in {n \in 1..Len(log) : FirstHit(log, lastFinished, good, n)}}

\* Once the repository, the keys and the settings are left alone and operations
\* stop failing, every commit that waits to be processed is: also the one
\* whose earlier run failed, crashed, or was applied and not recorded.
NothingStaysPending == <>[](Pending = {})

\* The code's own account of the guard (periodic.go:52 and 71): it is taken when
\* a task is "already running", and it is reset when that task completes.
GuardMeansRunning == guard = 1 => \E t \in Calls : Running(t)
-----------------------------------------------------------------------------
\* The task as the abstract specification sees it.
WorkingOn == IF Working = {} THEN NoCommit ELSE target[Worker]
Stage     == IF Working = {} THEN "none"
             ELSE IF pc[Worker] \in AppliedLabels THEN "applied" ELSE "begun"

Progress == INSTANCE CommitProgress WITH
    finished <- lastFinished, working <- WorkingOn, stage <- Stage, done <- applied

\* The periodic task implements the abstract specification: one commit at a
\* time, recorded only once applied, never older than the recorded one.
ImplementsProgress == Progress!Spec
=============================================================================
