------------------------- MODULE TerraformRunProofs -------------------------
(***************************************************************************)
(* Theorems about TerraformRun for any commits, resources and values and   *)
(* any pattern of failures, timeouts and crashes.                          *)
(*                                                                         *)
(* The argument: a run is about a commit that has not been recorded        *)
(* (Progress); what the plan has left out or the apply has done is on the  *)
(* target as declared, until the commit is recorded (Deploying).  Where    *)
(* no state file is cut off or checked in, one state at a time knows all   *)
(* that is on the target: the stored one before the load and between runs, *)
(* the file while terraform works on it (Covering); therefore what the     *)
(* plan leaves out is on the target neither more nor less than declared    *)
(* (Removing).                                                             *)
(***************************************************************************)
EXTENDS TerraformRun, TLAPS

\* A run works on a commit of the branch that is not recorded; terraform plans
\* from a configuration and from a state that it can read.
Progress ==
    /\ pc # "idle" => commit \in 1..N /\ recorded < commit
    /\ pc # "apply" => todo = {}
    /\ pc = "apply" => Here.files = "config" /\ file # Broken
    /\ pc = "record" => result = "ok" /\ file = NoFile

\* What is not left to do is done.
DoneAsDeclared(r) == Here.declared[r] \in {Absent, live[r]}
Deploying ==
    /\ pc = "apply" /\ result # "failed" => \A r \in Resources \ todo : DoneAsDeclared(r)
    /\ pc \in {"save", "record"} /\ result = "ok" /\ Here.files = "config" =>
          \A r \in Resources : DoneAsDeclared(r)
    /\ RecordedIsDeployed

RunInv == TypeOK /\ Progress /\ Deploying

\* A state that knows everything on the target.
Covers(s) == \A r \in Resources : live[r] # Absent => Knows(s, r)

\* The state that does, as long as none has been lost.
Covering ==
    /\ content \in Histories
    /\ pc \in {"extract", "load"} => file = NoFile
    /\ ~lost =>
          /\ pc \in {"idle", "extract", "load", "record"} => Covers(stored)
          /\ pc \in {"init", "plan"} => file = stored /\ Covers(file)
          /\ pc = "apply" => Covers(file)
          /\ pc = "save" => Covers(file) \/ (file = NoFile /\ Covers(stored))

\* What is not left to do is exactly as declared.
Removing ==
    /\ ~lost /\ pc = "apply" /\ result # "failed" =>
          \A r \in Resources \ todo : live[r] = Here.declared[r]
    /\ ~lost /\ pc \in {"save", "record"} /\ result = "ok" /\ Here.files = "config" =>
          live = Here.declared
    /\ RemovedIsDestroyed

StateInv == RunInv /\ Covering /\ Removing

\* No state file is cut off as it is written, and none is checked in.
WholeStates ==
    /\ "write" \notin FailingOps
    /\ \A h \in Histories : \A n \in 1..N : h[n].state = NoFile
-----------------------------------------------------------------------------
LEMMA InitRun == Init => RunInv
  <1> SUFFICES ASSUME Init PROVE RunInv
    OBVIOUS
  <1>1. Nothing \in States
    BY DEF Nothing, States
  <1>2. content \in [1..N -> Contents]
    BY TerraformAssumption DEF Init
  <1>3. expired \in BOOLEAN /\ lost \in BOOLEAN
    BY Zenon DEF Init
  <1>4. TypeOK
    BY <1>1, <1>2, <1>3, TerraformAssumption DEF Init, TypeOK
  <1> QED
    BY <1>4 DEF Init, RunInv, Progress, Deploying, RecordedIsDeployed, Deployed

LEMMA HereType ==
    ASSUME TypeOK, commit \in 1..N
    PROVE  Here \in Contents /\ Here.declared \in States
                /\ Here.state \in States \cup {NoFile}
  BY DEF TypeOK, Here, Contents

\* The states that terraform writes and the targets it leaves behind.
LEMMA StateTypes ==
    ASSUME TypeOK, commit \in 1..N
    PROVE  /\ Known \in States
           /\ \A rs \in SUBSET Resources : Applied(rs) \in States
  <1>1. Here.declared \in States
    BY HereType
  <1>2. Known \in States
    BY DEF TypeOK, Known, States
  <1> QED
    BY <1>1, <1>2 DEF TypeOK, Applied, States

\* Every step keeps the types and the place of the run.
LEMMA StepProgress ==
    ASSUME TypeOK, Progress, [Next]_vars
    PROVE  TypeOK' /\ Progress'
  <1> USE TerraformAssumption DEF TypeOK, Progress
  <1>1. CASE Push
    BY <1>1 DEF Push, run, Here
  <1>2. CASE Begin
    <2>1. commit' \in 1..N /\ recorded' < commit'
      BY <1>2 DEF Begin
    <2>2. expired' \in BOOLEAN
      BY <1>2, Zenon DEF Begin
    <2> QED
      BY <1>2, <2>1, <2>2 DEF Begin, Fault
  <1>3. CASE Extract
    <2>1. Here.state \in States \cup {NoFile}
      BY <1>3, HereType DEF Extract
    <2> QED
      BY <1>3, <2>1 DEF Extract, Fault, Return
  <1>4. CASE Load
    BY <1>4 DEF Load, Works, Fails, Fault, Return
  <1>5. CASE RunInit
    BY <1>5 DEF RunInit, Works, Fails, Fault, Return
  <1>6. CASE RunPlan
    BY <1>6 DEF RunPlan, Works, Fails, Fault, Return, Plannable, Here
  <1>7. CASE \E r \in Resources : ApplyResource(r)
    <2> PICK r \in Resources : ApplyResource(r)
      BY <1>7
    <2>1. commit \in 1..N
      BY DEF ApplyResource
    <2>2. live' \in States /\ file' \in States /\ file' # Broken
      BY <2>1, StateTypes, HereType DEF ApplyResource, States
    <2> QED
      BY <2>2 DEF ApplyResource, Works, Here
  <1>8. CASE \E r \in Resources : RequestFails(r)
    <2> PICK r \in Resources : RequestFails(r)
      BY <1>8
    <2>1. commit \in 1..N
      BY DEF RequestFails
    <2>2. live' \in States /\ file' \in States /\ file' # Broken
      BY <2>1, StateTypes DEF RequestFails
    <2> QED
      BY <2>2 DEF RequestFails, Fault, Here
  <1>9. CASE ApplyEnds
    <2>1. file' \in States
      BY <1>9, StateTypes DEF ApplyEnds
    <2> QED
      BY <1>9, <2>1 DEF ApplyEnds, Works, Return
  <1>10. CASE ApplyKilled
    <2>1. live' \in States
      BY <1>10, StateTypes DEF ApplyKilled
    <2> QED
      BY <1>10, <2>1 DEF ApplyKilled, Fails, Fault, Return
  <1>11. CASE Save
    BY <1>11 DEF Save, Works, Fails, Fault
  <1>12. CASE Record
    BY <1>12 DEF Record, Works, Fails, Fault
  <1>13. CASE Expire
    BY <1>13 DEF Expire, Fault, Here
  <1>14. CASE Crash
    <2>1. live' \in States
      BY <1>14, StateTypes DEF Crash
    <2> QED
      BY <1>14, <2>1 DEF Crash, Fault
  <1>15. CASE Done \/ UNCHANGED vars
    BY <1>15 DEF Done, vars, run, Here
  <1> QED
    BY <1>1, <1>2, <1>3, <1>4, <1>5, <1>6, <1>7, <1>8, <1>9, <1>10, <1>11, <1>12,
       <1>13, <1>14, <1>15 DEF Next, Step, Apply

\* While a run goes on nothing that it is about has been recorded.
LEMMA NotDeployed ==
    ASSUME TypeOK, Progress, pc # "idle"
    PROVE  ~Deployed
  BY DEF Progress, Deployed, TypeOK

\* What the plan leaves out is on the target as declared.
LEMMA PlanDeploys ==
    ASSUME TypeOK, Progress, RunPlan, pc' = "apply", NEW r \in Resources, r \notin todo'
    PROVE  DoneAsDeclared(r)'
  <1>1. Known[r] = Here.declared[r]
    BY DEF RunPlan, Return
  <1>2. Known[r] \in {Absent, live[r]}
    BY DEF Known
  <1> QED
    BY <1>1, <1>2 DEF RunPlan, DoneAsDeclared, Here

\* What terraform changes is on the target as declared from then on.
LEMMA ApplyDeploys ==
    ASSUME TypeOK, Progress, Deploying, NEW r \in Resources, ApplyResource(r),
           result # "failed", NEW s \in Resources, s \notin todo'
    PROVE  DoneAsDeclared(s)'
  <1>1. live'[s] = IF s = r THEN Here.declared[s] ELSE live[s]
    BY DEF ApplyResource, Applied
  <1>2. s # r => DoneAsDeclared(s)
    BY DEF ApplyResource, Deploying
  <1> QED
    BY <1>1, <1>2 DEF ApplyResource, DoneAsDeclared, Here

\* The three conjuncts of Deploying in the next state.
LEMMA StepDeploying ==
    ASSUME RunInv, [Next]_vars, TypeOK', Progress'
    PROVE  Deploying'
  <1> USE DEF RunInv
  <1>1. CASE Push
    BY <1>1 DEF Push, run, Here, Deploying, DoneAsDeclared, RecordedIsDeployed, Deployed
  <1>2. CASE Begin
    <2>1. ~Deployed'
      BY <1>2 DEF Begin, Deployed, TypeOK
    <2> QED
      BY <1>2, <2>1 DEF Begin, Deploying, RecordedIsDeployed
  <1>3. CASE Extract
    <2>1. ~Deployed'
      BY <1>3, NotDeployed DEF Extract, Deployed
    <2>2. pc' = "save" /\ result' = "ok" => Here'.files # "config"
      BY <1>3 DEF Extract, Return, Here
    <2> QED
      BY <1>3, <2>1, <2>2 DEF Extract, Return, Deploying, RecordedIsDeployed
  <1>4. CASE Load
    <2>1. ~Deployed'
      BY <1>4, NotDeployed DEF Load, Deployed
    <2> QED
      BY <1>4, <2>1 DEF Load, Return, Deploying, RecordedIsDeployed
  <1>5. CASE RunInit
    <2>1. ~Deployed'
      BY <1>5, NotDeployed DEF RunInit, Deployed
    <2> QED
      BY <1>5, <2>1 DEF RunInit, Return, Deploying, RecordedIsDeployed
  <1>6. CASE RunPlan
    <2>1. ~Deployed'
      BY <1>6, NotDeployed DEF RunPlan, Deployed
    <2>2. pc' = "apply" \/ (pc' = "save" /\ result' = "failed")
      BY <1>6 DEF RunPlan, Return
    <2> QED
      BY <1>6, <2>1, <2>2, PlanDeploys DEF Deploying, RecordedIsDeployed
  <1>7. CASE \E r \in Resources : ApplyResource(r)
    <2> PICK r \in Resources : ApplyResource(r)
      BY <1>7
    <2>1. ~Deployed'
      BY NotDeployed DEF ApplyResource, Deployed
    <2>2. pc' = "apply" /\ result' = result
      BY DEF ApplyResource
    <2> QED
      BY <2>1, <2>2, ApplyDeploys DEF Deploying, RecordedIsDeployed
  <1>8. CASE \E r \in Resources : RequestFails(r)
    <2> PICK r \in Resources : RequestFails(r)
      BY <1>8
    <2>1. ~Deployed'
      BY NotDeployed DEF RequestFails, Deployed
    <2> QED
      BY <2>1 DEF RequestFails, Deploying, RecordedIsDeployed
  <1>9. CASE ApplyEnds
    <2>1. ~Deployed'
      BY <1>9, NotDeployed DEF ApplyEnds, Deployed
    <2>2. result' = "ok" => \A r \in Resources : DoneAsDeclared(r)
      BY <1>9 DEF ApplyEnds, Return, Deploying
    <2> QED
      BY <1>9, <2>1, <2>2
         DEF ApplyEnds, Return, Deploying, RecordedIsDeployed, DoneAsDeclared, Here
  <1>10. CASE ApplyKilled
    <2>1. ~Deployed'
      BY <1>10, NotDeployed DEF ApplyKilled, Deployed
    <2> QED
      BY <1>10, <2>1 DEF ApplyKilled, Return, Deploying, RecordedIsDeployed
  <1>11. CASE Save
    <2>1. ~Deployed'
      BY <1>11, NotDeployed DEF Save, Deployed
    <2> QED
      BY <1>11, <2>1 DEF Save, Deploying, RecordedIsDeployed, DoneAsDeclared, Here
  <1>12. CASE Record
    <2>1. Deployed' => Here.files = "config" /\ recorded' = commit
      BY <1>12, NotDeployed DEF Record, Deployed, Here
    <2>2. Here.files = "config" => \A r \in Resources : DoneAsDeclared(r)
      BY <1>12 DEF Record, Deploying, Progress
    <2>3. RecordedIsDeployed'
      BY <1>12, <2>1, <2>2 DEF Record, RecordedIsDeployed, DoneAsDeclared, Here
    <2> QED
      BY <1>12, <2>3 DEF Record, Deploying
  <1>13. CASE Expire
    BY <1>13 DEF Expire, Here, Deploying, DoneAsDeclared, RecordedIsDeployed, Deployed
  <1>14. CASE Crash
    <2>1. ~Deployed'
      BY <1>14, NotDeployed DEF Crash, Deployed
    <2> QED
      BY <1>14, <2>1 DEF Crash, Deploying, RecordedIsDeployed
  <1>15. CASE Done \/ UNCHANGED vars
    BY <1>15
       DEF Done, vars, run, Here, Deploying, DoneAsDeclared, RecordedIsDeployed, Deployed
  <1> QED
    BY <1>1, <1>2, <1>3, <1>4, <1>5, <1>6, <1>7, <1>8, <1>9, <1>10, <1>11, <1>12,
       <1>13, <1>14, <1>15 DEF Next, Step, Apply

\* A run is about a commit that is not recorded, and what it has planned and
\* applied is on the target: the invariant that the others rest on.
THEOREM RunInvariance == Spec => []RunInv
  <1>1. RunInv /\ [Next]_vars => RunInv'
    BY StepProgress, StepDeploying DEF RunInv
  <1> QED
    BY InitRun, <1>1, PTL DEF Spec

\* RecordedIsDeployed for every history, with state files that are cut off or
\* checked in: a recorded commit has been deployed.
THEOREM RecordedCommitIsDeployed == Spec => []RecordedIsDeployed
  <1>1. RunInv => RecordedIsDeployed
    BY DEF RunInv, Deploying
  <1> QED
    BY RunInvariance, <1>1, PTL
-----------------------------------------------------------------------------
LEMMA InitState == Init => StateInv
  <1> SUFFICES ASSUME Init PROVE StateInv
    OBVIOUS
  <1>1. Covering
    BY DEF Init, Covering, Covers, Nothing
  <1>2. Removing
    BY TerraformAssumption DEF Init, Removing, RemovedIsDestroyed, Deployed
  <1> QED
    BY InitRun, <1>1, <1>2 DEF StateInv

\* A state that knows all there is shows terraform the target as it is.
LEMMA KnownIsLive ==
    ASSUME TypeOK, Covers(file), file # Broken
    PROVE  \A r \in Resources : Known[r] = live[r]
  <1> SUFFICES ASSUME NEW r \in Resources PROVE Known[r] = live[r]
    OBVIOUS
  <1>1. CASE file = NoFile
    <2>1. ~Knows(file, r)
      BY <1>1, TerraformAssumption DEF Knows
    <2> QED
      BY <1>1, <2>1 DEF Covers, Known
  <1>2. CASE file # NoFile
    BY <1>2 DEF TypeOK, Covers, Knows, Known
  <1> QED
    BY <1>1, <1>2

\* After requests for resources that the file knows, it knows the target still.
LEMMA CoversApplied ==
    ASSUME TypeOK, Covers(file), file # Broken, NEW rs \in SUBSET Resources,
           live' = Applied(rs), \A r \in rs : Known[r] # Absent
    PROVE  \A r \in Resources : live'[r] # Absent => Knows(file, r)
  <1> SUFFICES ASSUME NEW r \in Resources, live'[r] # Absent PROVE Knows(file, r)
    OBVIOUS
  <1>1. r \in rs => Known[r] # Absent
    OBVIOUS
  <1>2. Known[r] # Absent => file \in States /\ file[r] # Absent
    BY DEF TypeOK, Known
  <1>3. r \notin rs => live'[r] = live[r]
    BY DEF Applied
  <1> QED
    BY <1>1, <1>2, <1>3 DEF Covers, Knows

\* One state at a time knows what is on the target.
LEMMA StepCovering ==
    ASSUME WholeStates, StateInv, [Next]_vars, TypeOK', Progress'
    PROVE  Covering'
  <1> USE DEF StateInv, RunInv
  <1>1. CASE Push
    BY <1>1 DEF Push, run, Covering, Covers
  <1>2. CASE Begin
    BY <1>2 DEF Begin, Covering, Covers, TypeOK
  <1>3. CASE Extract
    <2>1. Here.state = NoFile
      BY <1>3 DEF Extract, WholeStates, Covering, Progress, Here
    <2>2. file' = NoFile
      BY <1>3, <2>1 DEF Extract, Covering
    <2> QED
      BY <1>3, <2>2 DEF Extract, Return, Covering, Covers
  <1>4. CASE Load
    <2>1. ~Fault("write")
      BY DEF WholeStates, Fault
    <2>2. pc' = "init" => file' = stored
      BY <1>4, <2>1 DEF Load, Return, Covering
    <2>3. pc' = "save" => file' = NoFile
      BY <1>4, <2>1 DEF Load, Return, Covering
    <2> QED
      BY <1>4, <2>1, <2>2, <2>3 DEF Load, Return, Covering, Covers
  <1>5. CASE RunInit
    BY <1>5 DEF RunInit, Return, Covering, Covers
  <1>6. CASE RunPlan
    BY <1>6 DEF RunPlan, Return, Covering, Covers
  <1>7. CASE \E r \in Resources : ApplyResource(r)
    <2> PICK r \in Resources : ApplyResource(r)
      BY <1>7
    <2>1. file' \in States
      BY <1>7, StateTypes, HereType DEF ApplyResource, States, Progress
    <2>2. ASSUME ~lost, NEW s \in Resources, live'[s] # Absent
          PROVE  file'[s] # Absent
      <3>1. s # r => Known[s] = live[s] /\ live'[s] = live[s] /\ file'[s] = Known[s]
        BY <2>2, KnownIsLive DEF ApplyResource, Applied, Covering, Progress, Known
      <3>2. s = r => live'[s] = Here.declared[s] /\ file'[s] = Here.declared[s]
        BY DEF ApplyResource, Applied, Known
      <3> QED
        BY <2>2, <3>1, <3>2
    <2>3. ~lost => Covers(file)'
      BY <2>1, <2>2 DEF Covers, Knows
    <2> QED
      BY <2>3 DEF ApplyResource, Covering
  <1>8. CASE \E r \in Resources : RequestFails(r)
    <2> PICK r \in Resources : RequestFails(r)
      BY <1>8
    <2>1. file' = Known /\ file' \in States
      BY StateTypes DEF RequestFails, Progress
    <2>2. ASSUME ~lost', NEW s \in Resources, live'[s] # Absent
          PROVE  file'[s] # Absent
      <3>1. ~lost /\ (Known[r] # Absent \/ live' = live)
        BY <2>2 DEF RequestFails
      <3>2. Known[s] = live[s]
        BY <3>1, KnownIsLive DEF RequestFails, Covering, Progress
      <3>3. s # r => live'[s] = live[s]
        BY DEF RequestFails, Applied
      <3> QED
        BY <2>1, <2>2, <3>1, <3>2, <3>3
    <2>3. ~lost' => Covers(file)'
      BY <2>1, <2>2 DEF Covers, Knows
    <2> QED
      BY <2>3 DEF RequestFails, Covering
  <1>9. CASE ApplyEnds
    <2>1. file' = Known /\ file' \in States
      BY <1>9, StateTypes DEF ApplyEnds, Progress
    <2>2. ~lost => \A s \in Resources : file'[s] = live'[s]
      BY <1>9, <2>1, KnownIsLive DEF ApplyEnds, Covering, Progress
    <2>3. ~lost => Covers(file)'
      BY <1>9, <2>1, <2>2 DEF Covers, Knows
    <2> QED
      BY <1>9, <2>3 DEF ApplyEnds, Return, Covering
  <1>10. CASE ApplyKilled
    <2>1. PICK rs \in SUBSET todo :
            live' = Applied(rs) /\ lost' = (lost \/ \E r \in rs : Known[r] = Absent)
      BY <1>10 DEF ApplyKilled
    <2>2. ~lost' => Covers(file)'
      BY <1>10, <2>1, CoversApplied DEF ApplyKilled, Covering, Covers, Progress, TypeOK
    <2> QED
      BY <1>10, <2>1, <2>2 DEF ApplyKilled, Return, Covering
  <1>11. CASE Save
    <2>1. ~lost' => ~lost /\ (stored' = file \/ (file = NoFile /\ stored' = stored))
      BY <1>11 DEF Save
    <2>2. file = NoFile /\ Covers(file) => Covers(stored)
      BY TerraformAssumption DEF Covers, Knows
    <2>3. ~lost' => Covers(stored)'
      BY <1>11, <2>1, <2>2 DEF Save, Covering, Covers
    <2> QED
      BY <1>11, <2>3 DEF Save, Covering
  <1>12. CASE Record
    BY <1>12 DEF Record, Covering, Covers
  <1>13. CASE Expire
    BY <1>13 DEF Expire, Covering, Covers
  <1>14. CASE Crash
    <2>1. PICK rs \in SUBSET todo :
            /\ live' = Applied(rs)
            /\ lost' = \/ lost \/ file \notin {NoFile, stored}
                       \/ \E r \in rs : Known[r] = Absent
      BY <1>14 DEF Crash
    <2>2. ASSUME ~lost', pc = "apply"
          PROVE  Covers(stored)'
      <3>1. \A r \in Resources : live'[r] # Absent => Knows(file, r)
        BY <2>1, <2>2, CoversApplied DEF Covering, Progress, TypeOK
      <3>2. file \in {NoFile, stored}
        BY <2>1, <2>2
      <3> QED
        BY <1>14, <3>1, <3>2, TerraformAssumption DEF Crash, Covers, Knows
    <2>3. ASSUME ~lost', pc # "apply"
          PROVE  Covers(stored)'
      <3>1. \A r \in Resources : live'[r] = live[r]
        BY <2>1, <2>3 DEF Applied, Progress
      <3>2. file \in {NoFile, stored} /\ ~lost
        BY <2>1, <2>3
      <3>3. Covers(file) \/ Covers(stored)
        BY <1>14, <2>3, <3>2 DEF Crash, Covering, TypeOK
      <3> QED
        BY <1>14, <3>1, <3>2, <3>3, TerraformAssumption DEF Crash, Covers, Knows
    <2> QED
      BY <1>14, <2>2, <2>3 DEF Crash, Covering
  <1>15. CASE Done \/ UNCHANGED vars
    BY <1>15 DEF Done, vars, run, Covering, Covers
  <1> QED
    BY <1>1, <1>2, <1>3, <1>4, <1>5, <1>6, <1>7, <1>8, <1>9, <1>10, <1>11, <1>12,
       <1>13, <1>14, <1>15 DEF Next, Step, Apply

\* Nothing that is on the target escapes the plan, so nothing is left out by it
\* that is not as declared.
LEMMA PlanRemoves ==
    ASSUME StateInv, RunPlan, pc' = "apply", ~lost, NEW r \in Resources, r \notin todo'
    PROVE  live[r] = Here.declared[r]
  <1>1. Known[r] = Here.declared[r]
    BY DEF RunPlan, Return
  <1>2. Covers(file) /\ file # Broken
    BY DEF RunPlan, Return, Plannable, StateInv, Covering
  <1> QED
    BY <1>1, <1>2, KnownIsLive DEF StateInv, RunInv

\* The three conjuncts of Removing in the next state.
LEMMA StepRemoving ==
    ASSUME StateInv, [Next]_vars, TypeOK', Progress'
    PROVE  Removing'
  <1> USE DEF StateInv, RunInv
  <1>1. CASE Push
    BY <1>1 DEF Push, run, Here, Removing, RemovedIsDestroyed, Deployed
  <1>2. CASE Begin
    <2>1. ~Deployed'
      BY <1>2 DEF Begin, Deployed, TypeOK
    <2> QED
      BY <1>2, <2>1 DEF Begin, Removing, RemovedIsDestroyed
  <1>3. CASE Extract
    <2>1. ~Deployed'
      BY <1>3, NotDeployed DEF Extract, Deployed
    <2>2. pc' = "save" /\ result' = "ok" => Here'.files # "config"
      BY <1>3 DEF Extract, Return, Here
    <2> QED
      BY <1>3, <2>1, <2>2 DEF Extract, Return, Removing, RemovedIsDestroyed
  <1>4. CASE Load
    <2>1. ~Deployed'
      BY <1>4, NotDeployed DEF Load, Deployed
    <2> QED
      BY <1>4, <2>1 DEF Load, Return, Removing, RemovedIsDestroyed
  <1>5. CASE RunInit
    <2>1. ~Deployed'
      BY <1>5, NotDeployed DEF RunInit, Deployed
    <2> QED
      BY <1>5, <2>1 DEF RunInit, Return, Removing, RemovedIsDestroyed
  <1>6. CASE RunPlan
    <2>1. ~Deployed'
      BY <1>6, NotDeployed DEF RunPlan, Deployed
    <2>2. pc' = "apply" \/ (pc' = "save" /\ result' = "failed")
      BY <1>6 DEF RunPlan, Return
    <2>3. pc' = "apply" /\ ~lost => \A r \in Resources \ todo' : live[r] = Here.declared[r]
      BY <1>6, PlanRemoves
    <2>4. live' = live /\ lost' = lost /\ Here' = Here
      BY <1>6 DEF RunPlan, Here
    <2> QED
      BY <2>1, <2>2, <2>3, <2>4 DEF Removing, RemovedIsDestroyed
  <1>7. CASE \E r \in Resources : ApplyResource(r)
    <2> PICK r \in Resources : ApplyResource(r)
      BY <1>7
    <2>1. ~Deployed'
      BY NotDeployed DEF ApplyResource, Deployed
    <2>2. \A s \in Resources : live'[s] = IF s = r THEN Here.declared[s] ELSE live[s]
      BY DEF ApplyResource, Applied
    <2>3. Here' = Here /\ lost' = lost /\ pc' = "apply" /\ result' = result
      BY DEF ApplyResource, Here
    <2>4. ~lost' /\ result' # "failed" =>
            \A s \in Resources \ todo' : live'[s] = Here'.declared[s]
      BY <2>2, <2>3 DEF ApplyResource, Removing
    <2> QED
      BY <2>1, <2>3, <2>4 DEF Removing, RemovedIsDestroyed
  <1>8. CASE \E r \in Resources : RequestFails(r)
    <2> PICK r \in Resources : RequestFails(r)
      BY <1>8
    <2>1. ~Deployed'
      BY NotDeployed DEF RequestFails, Deployed
    <2> QED
      BY <2>1 DEF RequestFails, Removing, RemovedIsDestroyed
  <1>9. CASE ApplyEnds
    <2>1. ~Deployed'
      BY <1>9, NotDeployed DEF ApplyEnds, Deployed
    <2>2. ~lost /\ result' = "ok" => \A r \in Resources : live[r] = Here.declared[r]
      BY <1>9 DEF ApplyEnds, Return, Removing
    <2>3. Here.declared \in States /\ live \in States
      BY <1>9, HereType DEF ApplyEnds, Progress, TypeOK
    <2>4. ~lost /\ result' = "ok" => live = Here.declared
      BY <2>2, <2>3 DEF States
    <2>5. live' = live /\ lost' = lost /\ Here' = Here /\ pc' = "save"
      BY <1>9 DEF ApplyEnds, Return, Here
    <2> QED
      BY <2>1, <2>4, <2>5 DEF Removing, RemovedIsDestroyed
  <1>10. CASE ApplyKilled
    <2>1. ~Deployed'
      BY <1>10, NotDeployed DEF ApplyKilled, Deployed
    <2> QED
      BY <1>10, <2>1 DEF ApplyKilled, Return, Removing, RemovedIsDestroyed
  <1>11. CASE Save
    <2>1. ~Deployed'
      BY <1>11, NotDeployed DEF Save, Deployed
    <2>2. ~lost' => ~lost
      BY <1>11 DEF Save
    <2> QED
      BY <1>11, <2>1, <2>2 DEF Save, Removing, RemovedIsDestroyed, Here
  <1>12. CASE Record
    <2>1. Deployed' => Here.files = "config" /\ recorded' = commit
      BY <1>12, NotDeployed DEF Record, Deployed, Here
    <2>2. ~lost /\ Here.files = "config" => live = Here.declared
      BY <1>12 DEF Record, Removing, Progress
    <2>3. RemovedIsDestroyed'
      BY <1>12, <2>1, <2>2 DEF Record, RemovedIsDestroyed, Here
    <2> QED
      BY <1>12, <2>3 DEF Record, Removing
  <1>13. CASE Expire
    BY <1>13 DEF Expire, Here, Removing, RemovedIsDestroyed, Deployed
  <1>14. CASE Crash
    <2>1. ~Deployed'
      BY <1>14, NotDeployed DEF Crash, Deployed
    <2> QED
      BY <1>14, <2>1 DEF Crash, Removing, RemovedIsDestroyed
  <1>15. CASE Done \/ UNCHANGED vars
    BY <1>15 DEF Done, vars, run, Here, Removing, RemovedIsDestroyed, Deployed
  <1> QED
    BY <1>1, <1>2, <1>3, <1>4, <1>5, <1>6, <1>7, <1>8, <1>9, <1>10, <1>11, <1>12,
       <1>13, <1>14, <1>15 DEF Next, Step, Apply

\* While no state is lost, one state at a time knows all that is on the target.
THEOREM StateInvariance ==
    ASSUME WholeStates
    PROVE  Spec => []StateInv
  <1>1. StateInv /\ [Next]_vars => StateInv'
    BY StepProgress, StepDeploying, StepCovering, StepRemoving DEF StateInv, RunInv
  <1> QED
    BY InitState, <1>1, PTL DEF Spec

\* NothingOrphaned: between runs the stored state knows everything on the target.
THEOREM NothingIsOrphaned ==
    ASSUME WholeStates
    PROVE  Spec => []NothingOrphaned
  <1>1. StateInv => NothingOrphaned
    BY DEF StateInv, Covering, Covers, NothingOrphaned
  <1> QED
    BY StateInvariance, <1>1, PTL

\* RemovedIsDestroyed: once a commit is recorded nothing is left of earlier ones.
THEOREM RemovedResourcesAreDestroyed ==
    ASSUME WholeStates
    PROVE  Spec => []RemovedIsDestroyed
  <1>1. StateInv => RemovedIsDestroyed
    BY DEF StateInv, Removing
  <1> QED
    BY StateInvariance, <1>1, PTL

\* StateIsNotForgotten: no save replaces the stored state by one that knows less of
\* what is there.
THEOREM StateIsKept ==
    ASSUME WholeStates
    PROVE  Spec => StateIsNotForgotten
  <1> DEFINE Kept == ~lost' => \A r \in Resources :
                        Knows(stored, r) /\ live[r] # Absent => Knows(stored', r)
  <1>1. ASSUME StateInv, [Next]_vars PROVE Kept
    <2>1. CASE Save
      <3>1. ~lost' => ~lost /\ (stored' = file \/ stored' = stored)
        BY <2>1 DEF Save
      <3>2. ~lost /\ file # NoFile => Covers(file)
        BY <1>1, <2>1 DEF Save, StateInv, Covering
      <3>3. stored' = file /\ file = NoFile => stored' = stored
        BY <2>1 DEF Save
      <3> QED
        BY <3>1, <3>2, <3>3 DEF Covers
    <2>2. CASE ~Save
      <3>1. stored' = stored
        BY <1>1, <2>2 DEF Next, Step, Apply, Push, Begin, Extract, Load, RunInit, RunPlan,
             ApplyResource, RequestFails, ApplyEnds, ApplyKilled, Record, Expire, Crash,
             Done, vars
      <3> QED
        BY <3>1
    <2> QED
      BY <2>1, <2>2
  <1>2. StateInv /\ [Next]_vars => [Kept]_vars
    BY <1>1
  <1> QED
    BY StateInvariance, <1>2, PTL DEF Spec, StateIsNotForgotten
=============================================================================
