---------------------------- MODULE TerraformRun ----------------------------
(***************************************************************************)
(* The terraform engine (pkg/terraform/engine.go, cli.go): runs over the   *)
(* commits of a branch, each with a scratch directory that is filled from  *)
(* the commit and from the state in storage, then init, plan and apply     *)
(* under one context, and at the end, however the run went, the save of    *)
(* the state file with that same context.                                  *)
(*                                                                         *)
(* Terraform itself is external: it refreshes what its state knows, plans  *)
(* the difference to what the files declare, and writes its state file as  *)
(* it applies.  A state maps a resource to its value, or to Absent.        *)
(***************************************************************************)
EXTENDS Naturals

CONSTANTS
    Resources, Values,
    Absent,         \* not in a state, not declared, not on the target
    NoFile,         \* no state: no file, no entry in storage
    Broken,         \* a state file that was cut off
    N,              \* commits on the branch
    Histories,      \* what they may hold below tf_path, in order
    Exclusive,      \* resources that cannot be created over an existing one
    MaxFaults,      \* bound on failures, timeouts and crashes
    FailingOps      \* operations that may fail

Ops == {"begin", "extract", "load", "write", "command", "request", "save",
        "record", "expire", "crash"}
States == [Resources -> Values \cup {Absent}]
Nothing == [r \in Resources |-> Absent]

\* What is below tf_path: no files, some but no terraform configuration, or a
\* configuration; there may be a terraform.tfstate among the files.
Contents == [files : {"none", "other", "config"}, declared : States,
             state : States \cup {NoFile}]

ASSUME TerraformAssumption ==
    /\ Absent \notin Values /\ NoFile \notin States /\ Broken \notin States
    /\ NoFile # Broken /\ N \in Nat /\ Histories \subseteq [1..N -> Contents]
    /\ Exclusive \subseteq Resources /\ MaxFaults \in Nat /\ FailingOps \subseteq Ops

VARIABLES
    content,    \* the history
    head,       \* the newest commit that may be processed
    recorded,   \* the last finished commit, 0: none
    pc,         \* what the run does next
    commit,     \* the commit of the last run
    result,     \* what the run returns, "none" before it is known
    expired,    \* its context has ended
    file,       \* workspace/terraform.tfstate
    todo,       \* the resources that the plan has still to change
    stored,     \* terraform_state in storage
    live,       \* the target Vault
    lost,       \* a state has been lost that knew of something created
    faults

run  == <<pc, commit, result, expired, file, todo>>
vars == <<content, head, recorded, run, stored, live, lost, faults>>

Init ==
    /\ content \in Histories
    /\ head = 0 /\ recorded = 0
    /\ pc = "idle" /\ commit = 0 /\ result = "none" /\ expired = FALSE
    /\ file = NoFile /\ todo = {}
    /\ stored = NoFile /\ live = Nothing
    /\ lost = FALSE /\ faults = 0
-----------------------------------------------------------------------------
Fault(op) == op \in FailingOps /\ faults < MaxFaults /\ faults' = faults + 1
Works == ~expired /\ UNCHANGED faults
Fails(op) == (expired /\ UNCHANGED faults) \/ Fault(op)

Here == content[commit]

\* The run goes on to its deferred function with result res.
Return(res) == pc' = "save" /\ result' = res

\* A new commit is pushed and signed.
Push ==
    /\ head < N /\ head' = head + 1
    /\ UNCHANGED <<content, recorded, run, stored, live, lost, faults>>

\* The periodic task has found a commit.  ProcessCommit reads the vault and the
\* terraform configuration and makes the scratch directory.
Begin ==
    /\ pc = "idle" /\ recorded < head
    /\ commit' = head /\ expired' = FALSE
    /\ \/ UNCHANGED faults /\ pc' = "extract" /\ result' = "none"
       \/ Fault("begin") /\ UNCHANGED pc /\ result' = "failed"
    /\ UNCHANGED <<content, head, recorded, file, todo, stored, live, lost>>

\* extractTerraformFiles writes the files one by one; a failure may come before,
\* amid or after a state file of the repository.
Extract ==
    /\ pc = "extract"
    /\ \/ /\ UNCHANGED faults /\ Here.files = "none"
          /\ Return("ok") /\ UNCHANGED file
       \/ /\ UNCHANGED faults /\ Here.files # "none"
          /\ pc' = "load" /\ file' = Here.state /\ UNCHANGED result
       \/ /\ Fault("extract") /\ Return("failed")
          /\ file' \in {NoFile, Here.state} \cup (IF Here.state = NoFile THEN {} ELSE {Broken})
    /\ UNCHANGED <<content, head, recorded, commit, expired, todo, stored, live, lost>>

\* Faulty: a failed read of the stored state counts as none, and the run goes on.
LoadIgnoresError ==
    /\ pc = "load"
    /\ \/ /\ Works /\ file' = IF stored = NoFile THEN file ELSE stored
       \/ /\ Fails("load") /\ UNCHANGED file
    /\ pc' = "init"
    /\ UNCHANGED <<content, head, recorded, commit, result, expired, todo, stored, live, lost>>

\* Faulty: a missing entry is an error, so the first run never ends well.
LoadNeedsEntry ==
    /\ pc = "load"
    /\ \/ /\ Works /\ stored # NoFile /\ pc' = "init" /\ file' = stored /\ UNCHANGED result
       \/ /\ (Works /\ stored = NoFile) \/ Fails("load")
          /\ Return("failed") /\ UNCHANGED file
    /\ UNCHANGED <<content, head, recorded, commit, expired, todo, stored, live, lost>>

\* loadTerraformState writes the stored state over that file, if there is one.
Load ==
    /\ pc = "load"
    /\ \/ /\ Works /\ pc' = "init" /\ UNCHANGED result
          /\ file' = IF stored = NoFile THEN file ELSE stored
       \/ /\ Fails("load") /\ Return("failed") /\ UNCHANGED file
       \/ /\ ~expired /\ Fault("write") /\ stored # NoFile
          /\ Return("failed") /\ file' \in {file, NoFile, Broken}
    /\ UNCHANGED <<content, head, recorded, commit, expired, todo, stored, live, lost>>

\* runTerraformInit: the binary is validated, the sandbox set up, terraform run.
RunInit ==
    /\ pc = "init"
    /\ \/ Works /\ pc' = "plan" /\ UNCHANGED result
       \/ Fails("command") /\ Return("failed")
    /\ UNCHANGED <<content, head, recorded, commit, expired, file, todo, stored, live, lost>>
-----------------------------------------------------------------------------
\* Terraform reads again what its state knows.
Known == [r \in Resources |->
            IF file = NoFile THEN Absent
            ELSE IF file[r] = Absent THEN Absent ELSE live[r]]

\* The target after the changes of rs.
Applied(rs) == [r \in Resources |-> IF r \in rs THEN Here.declared[r] ELSE live[r]]

\* runTerraformPlan needs a configuration and a state that can be read.
Plannable == Here.files = "config" /\ file # Broken

RunPlan ==
    /\ pc = "plan"
    /\ \/ /\ Works /\ Plannable /\ pc' = "apply" /\ UNCHANGED result
          /\ todo' = {r \in Resources : Known[r] # Here.declared[r]}
       \/ /\ (Works /\ ~Plannable) \/ Fails("command")
          /\ Return("failed") /\ UNCHANGED todo
    /\ UNCHANGED <<content, head, recorded, commit, expired, file, stored, live, lost>>

\* terraform apply changes a resource and writes its state.
ApplyResource(r) ==
    /\ pc = "apply" /\ r \in todo /\ Works
    /\ ~(r \in Exclusive /\ Known[r] = Absent /\ live[r] # Absent)
    /\ live' = Applied({r})
    /\ file' = [Known EXCEPT ![r] = Here.declared[r]]
    /\ todo' = todo \ {r}
    /\ UNCHANGED <<content, head, recorded, pc, commit, result, expired, stored, lost>>

\* A request fails; the target may have executed it all the same.  Terraform
\* may go on with other resources before it ends.
RequestFails(r) ==
    /\ pc = "apply" /\ r \in todo /\ ~expired
    /\ \/ UNCHANGED <<faults, live>> /\ r \in Exclusive /\ Known[r] = Absent /\ live[r] # Absent
       \/ Fault("request") /\ live' \in {live, Applied({r})}
    /\ lost' = (lost \/ (Known[r] = Absent /\ live' # live))
    /\ file' = Known /\ todo' = todo \ {r} /\ result' = "failed"
    /\ UNCHANGED <<content, head, recorded, pc, commit, expired, stored>>

\* Faulty: the error of terraform apply is dropped.
ApplyEndsWell ==
    /\ pc = "apply" /\ Works
    /\ todo = {} \/ result = "failed"
    /\ file' = Known /\ todo' = {}
    /\ Return("ok")
    /\ UNCHANGED <<content, head, recorded, commit, expired, stored, live, lost>>

\* runTerraformApply returns.
ApplyEnds ==
    /\ pc = "apply" /\ Works
    /\ todo = {} \/ result = "failed"
    /\ file' = Known /\ todo' = {}
    /\ Return(IF result = "failed" THEN "failed" ELSE "ok")
    /\ UNCHANGED <<content, head, recorded, commit, expired, stored, live, lost>>

\* terraform apply is not started, as the binary or the sandbox is refused, or it
\* is killed, as when the context ends.  Requests under way may take effect.
ApplyKilled ==
    /\ pc = "apply" /\ Fails("command")
    /\ \E rs \in SUBSET todo :
          /\ live' = Applied(rs)
          /\ lost' = (lost \/ \E r \in rs : Known[r] = Absent)
    /\ todo' = {} /\ Return("failed")
    /\ UNCHANGED <<content, head, recorded, commit, expired, file, stored>>
-----------------------------------------------------------------------------
\* Faulty: the state is saved only after a run without error.
SaveOnSuccess ==
    /\ pc = "save"
    /\ \/ UNCHANGED faults /\ (file = NoFile \/ result = "failed") /\ UNCHANGED <<stored, lost>>
       \/ Works /\ file # NoFile /\ result = "ok" /\ stored' = file /\ UNCHANGED lost
       \/ /\ Fails("save") /\ file # NoFile /\ result = "ok" /\ UNCHANGED stored
          /\ lost' = (lost \/ stored # file)
    /\ pc' = IF result = "ok" THEN "record" ELSE "idle"
    /\ file' = NoFile
    /\ UNCHANGED <<content, head, recorded, commit, result, expired, todo, live>>

\* The deferred function saves the state file, if there is one, and removes the
\* directory.  The error of the save is only logged.
Save ==
    /\ pc = "save"
    /\ \/ UNCHANGED faults /\ file = NoFile /\ UNCHANGED stored
       \/ Works /\ file # NoFile /\ stored' = file
       \/ /\ Fails("save") /\ file # NoFile
          /\ stored' \in {stored} \cup (IF expired THEN {} ELSE {file})
    /\ lost' = (lost \/ (file # NoFile /\ stored' # file))
    /\ pc' = IF result = "ok" THEN "record" ELSE "idle"
    /\ file' = NoFile
    /\ UNCHANGED <<content, head, recorded, commit, result, expired, todo, live>>

\* The periodic task records the commit, with the context of the run.
Record ==
    /\ pc = "record" /\ pc' = "idle"
    /\ \/ Works /\ recorded' = commit
       \/ Fails("record") /\ UNCHANGED recorded
    /\ UNCHANGED <<content, head, commit, result, expired, file, todo, stored, live, lost>>

\* The 30 minutes of a run are over.
Expire ==
    /\ pc # "idle" /\ ~expired /\ Fault("expire") /\ expired' = TRUE
    /\ UNCHANGED <<content, head, recorded, pc, commit, result, file, todo, stored, live, lost>>

\* The plugin dies, and terraform with it; the directory is not used again.
Crash ==
    /\ pc # "idle" /\ Fault("crash")
    /\ \E rs \in SUBSET todo :
          /\ live' = Applied(rs)
          /\ lost' = \/ lost \/ file \notin {NoFile, stored}
                     \/ \E r \in rs : Known[r] = Absent
    /\ pc' = "idle" /\ result' = "failed" /\ file' = NoFile /\ todo' = {}
    /\ UNCHANGED <<content, head, recorded, commit, expired, stored>>

Apply == ApplyEnds \/ ApplyKilled \/ \E r \in Resources : ApplyResource(r) \/ RequestFails(r)

Step == Begin \/ Extract \/ Load \/ RunInit \/ RunPlan \/ Apply \/ Save \/ Record

Done == pc = "idle" /\ recorded = N /\ UNCHANGED vars

Next == Push \/ Step \/ Expire \/ Crash \/ Done

Spec == Init /\ [][Next]_vars

FairSpec == Spec /\ WF_vars(Push) /\ WF_vars(Step)
-----------------------------------------------------------------------------
(***************************************************************************)
(* Properties                                                              *)
(***************************************************************************)
\* The type invariant.  Between runs there is no scratch directory.
TypeOK ==
    /\ content \in [1..N -> Contents]
    /\ head \in 0..N /\ recorded \in 0..N /\ commit \in 0..N
    /\ pc \in {"idle", "extract", "load", "init", "plan", "apply", "save", "record"}
    /\ result \in {"none", "ok", "failed"} /\ expired \in BOOLEAN
    /\ file \in States \cup {NoFile, Broken} /\ todo \subseteq Resources
    /\ stored \in States \cup {NoFile, Broken} /\ live \in States
    /\ lost \in BOOLEAN /\ faults \in 0..MaxFaults
    /\ pc = "idle" => file = NoFile /\ todo = {}

\* State s has an entry for resource r.
Knows(s, r) == s \in States /\ s[r] # Absent

\* Between two runs the stored state knows everything that terraform has created
\* and not destroyed, also after runs that failed midway, unless a state was lost
\* in a crash, a timeout or a failed save (cli.go:77).
NothingOrphaned ==
    pc = "idle" /\ ~lost => \A r \in Resources : live[r] # Absent => Knows(stored, r)

\* A commit with a configuration has been recorded, and no run has begun since.
Deployed == recorded > 0 /\ recorded = commit /\ content[recorded].files = "config"

\* What a recorded commit declares is on the target as declared, whatever
\* happened before to the state (cli.go:108).
RecordedIsDeployed ==
    Deployed => \A r \in Resources :
        content[recorded].declared[r] \in {Absent, live[r]}

\* Once a commit is recorded, what earlier commits declared and it does not is
\* gone from the target, unless a state was lost (cli.go:92).
RemovedIsDestroyed == Deployed /\ ~lost => live = content[recorded].declared

\* No step makes the stored state forget a resource that is still there, unless a
\* state was lost: not a run that fails before it has read the stored state, nor one
\* that starts anew (cli.go:78).
StateIsNotForgotten ==
    [][~lost' => \A r \in Resources :
            Knows(stored, r) /\ live[r] # Absent => Knows(stored', r)]_vars

\* After the last failure, runs go through: the last commit is recorded and deployed,
\* whatever an interrupted run has left behind (periodic.go:159, cli.go:92).
RunsRecover == <>[](recorded = N /\ Deployed)
=============================================================================
