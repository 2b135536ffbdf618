# Verification of vault-gitops

vault-gitops is a Vault plugin. Vault calls its periodic function about once a
minute; the plugin clones a git repository, looks for a commit with enough
trusted PGP signatures, and hands that commit to an engine that makes a target
Vault look like the files in it. This directory holds TLA+ modules that model
the plugin, configurations that TLC checks them with, and proofs for TLAPS.

Run TLC as `tlc -config X.cfg MCModule` and the proofs as
`tlapm XProofs.tla`.

## 1. The system

| Component | Source | State | Operations |
|---|---|---|---|
| periodic task | `periodic.go`, `process.go` | `processGitCASGuard` in memory; `last_processed_commit`, `process_status`, `last_periodic_run_timestamp` in storage | `PeriodicTask` takes the guard and starts `processGit`: check the poll period, clone, search, run the engine, record |
| search for a signed commit | `pkg/git_repository/git.go` | local to a call | `FindFirstSignedCommitFromRepo` |
| signature verification | `pkg/git/signatures.go`, `pkg/pgp/util.go` | none | count the distinct trusted keys among the signatures of a commit and of its notes |
| trusted keys | `pkg/pgp/backend.go`, `pkg/pgp/storage.go` | armored blocks under names in storage | add, replace, delete; list the names and read them one by one |
| configurations of the repository, the credentials and both engines | `pkg/git_repository/backend.go`, `pkg/git/credentials.go`, `pkg/terraform/backend.go`, `pkg/gitops/backend.go` | one storage entry each | create, update, read, delete |
| clone in memory | `pkg/git/repository.go` | an object store with a size limit | `CloneInMemory` |
| declarative engine | `pkg/gitops/*` | the state, one entry for each resource: digest, dependencies, response, path | `ProcessCommit`: load files, load the state, `Apply`; `Apply` creates in dependency order, then deletes, saving the state after each request |
| terraform engine | `pkg/terraform/engine.go`, `cli.go`, `sandbox.go` | `terraform_state` in storage, a scratch directory | extract the files, load the state, init, plan, apply, save the state |
| vault token | `backend.go`, `pkg/vault_client/backend.go` | the configured token in storage, `vaultTokenTTL` in memory | a check on each tick that renews the token in its last day; requests that configure, rotate and delete it |
| registry, entry points, command line tool | `pkg/engine`, `engine_*.go`, `cmd/*` | none after start | start the plugin; lint and apply once |

How they interact. A tick of Vault starts two goroutines, the token check
without any guard and the run of `processGit` under the compare-and-swap guard.
A run reads storage entries that requests of operators write at any time, one by
one and without a lock: the repository configuration three times, the trusted
keys, the token through the Vault client. The remote repository moves
beside it. The engine is called with the checked-out commit and keeps its own
state in storage, which connects one run with the next.

What is hard here:

- **overlap**: a tick that comes while a run is going on; token checks beside
  rotations; two requests that read, change and write the same entry; keys that
  are deleted between their listing and their turn to be read; objects of a clone
  that come in together under one size limit;
- **stale reads**: the last finished commit is read before a clone that may take
  minutes; the time to live in memory may be that of another token; the saved
  dependencies of a resource may be those of an old commit;
- **partial failure**: every storage, git and Vault call may fail, a write may
  take effect and still report an error, and some errors are dropped on purpose;
  terraform may be killed midway through its changes;
- **crash and restart**: memory is lost, storage and the target Vault are not;
- **order**: the walk over a history with merges, forced pushes, dependency
  orders from Go maps;
- **boundaries**: timestamps in whole seconds, `>` against `>=` on dates, numbers
  that change form in a JSON round trip.

What makes the components correct: at most one run; a commit is recorded only
after the engine applied all of it; neither what is recorded nor what is applied
goes back in time; a commit that waits is processed in the end; polls keep their
distance; the search returns only what may be processed and misses nothing new;
dependencies come first; a run that reports success has made the target what
the commit says; what an interrupted run leaves behind is repaired; the
terraform state knows what terraform has created; what is stored as a
configuration was validated as a whole; the configured token can always be used. `PROJECT.json` lists the hazards line by
line, each with the properties that cover it.

## 2. Modules

```
CommitProgress          the promise: one commit at a time, recorded once applied
   ^ implements (checked by TLC, proved by TLAPS)
Reconciler  ----------- CommitRules ------------- CommitSearch
the periodic task       which commit a search     the loop and its iterator,
   ^                    may return                checked against CommitRules
ReconcilerProofs            |                        ^
                            |                     CommitSearchProofs
                        SignatureRule
                        when signatures are enough
                            |
TrustedKeys <---------- SignatureCheck <--------- SignatureCheckProofs
the stored keys         the countdown, checked
and their reader        against SignatureRule
GitopsApply ----------- KahnOrder --------------- DependencyOrder
runs of the engine      the order by a rule       the loop, checked against it
   ^                                                 ^
GitopsApplyProofs                                 DependencyOrderProofs
TerraformRun <--------- TerraformRunProofs
runs of the other engine
ConfigStore <---------- LimitedClone <----------- LimitedCloneProofs
four stored             a clone under the
configurations          limit that is stored
VaultToken <----------- VaultTokenProofs
token checks and configure requests
```

Two modules meet through a third: what `Reconciler` assumes of the search is the
rule in `CommitRules`, with that of `SignatureRule` in it; `CommitSearch` shows that
the loop follows the first (`SearchFollowsRule`) and `SignatureCheck` that the
countdown over signatures follows the second (`CheckFollowsRule`); the order that
`GitopsApply` goes through is the one of `KahnOrder`, first come, first served, and
`DependencyOrder` shows that the loop computes it (`LoopIsTopologicalOrder`). All
three are proved, so what one component is modelled to rely on is what the other
is proved to do.
Definitions marked "Faulty:" are wrong variants of the definition that follows
them; no specification uses them. They show that each property can fail: put in
place of the definition, TLC finds the property violated.

### Reconciler, CommitRules, CommitProgress

A call of `PeriodicTask` together with the goroutine it starts is a process `t`
of `Calls`. `pc[t]` names the operation it is about to do:

| Label | Action | Code |
|---|---|---|
| `idle` | `Tick` | compare-and-swap, `periodic.go:53` |
| `getLast` | `GetLast` | read of `last_processed_commit` by the tick itself, 60 |
| `config`, `interval`, `stamp` | `ReadConfig`, `CheckInterval`, `Stamp` | 86-104, `checkExceedingInterval` |
| `clone`, `find` | `Clone`, `Find` | `Clone`, `FindFirstSignedCommitFromRepo`; both read the configuration again |
| `failedCheck`, `noNew`, `processing`, `failedCommit`, `success` | `Report...` | the five updates of `process_status` and what their error does |
| `engine` | `RunEngine` | `processCommitWithRepo` |
| `putLast` | `StoreLast` | `storeLastFinishedCommit` |
| `release` | `Release` | the deferred store of `processGitInternal` |

`Fails(op)` is an operation that returns an error; a failed write may or may not
have reached the storage. `Crash` loses the memory. `Push`, `Sign`, `ChangeKeys`,
`Configure`, `TimePasses` and `DayPasses` change what surrounds a run between any
two of its steps. A tick that finds the guard taken changes nothing and has no
action. `age` is the time since the stored timestamp; as that is cut to whole
seconds, it begins at `phase`, the fraction of the second.

`CommitProgress` says what the task promises in four actions: `Begin`, `Complete`,
`Record`, `Abandon`. `Reconciler` refines it with `WorkingOn` and `Stage`, which are
read off the label of the one call that is past its search.

### CommitSearch

The history (`parents`), the dates, the outcome of the signature check and the last
finished commit are chosen in `Init`; the steps are the iterations of the loop,
one action for each way through its body. `todo` and `seen` are the
stack and the set of go-git's pre-order iterator, an external component.
Signatures are an input, `verified`. `log` is for a property only: `Logs` says by a
rule what the depth first log of a commit is (next is the first parent not yet
there of the latest commit that has such a parent), so that `SearchFollowsRule` can
be proved; `MCCommitSearch` compares it with a recursive walk, and that every
history has one is proved (`EveryHistoryHasALog`).

### TrustedKeys, SignatureCheck

`TrustedKeys` is the storage of the keys with `GetTrustedPGPPublicKeys` on one side
(`List`, `Get`, `ReadAll`) and the requests that add, replace and delete keys on
the other. `SignatureCheck` extends it: the entries that have been read are what
the countdown works with. The signature in the commit, those in its notes and
the required number may be anything; `moments` records the stores there have
been between listing and last read, for the property only. `Count` and `Pass` are the two ways through the
loop of `VerifyPGPSignatures`, which `VerifyCommitSignatures` calls once for the
commit and, after `ReadNotes`, once for the notes, with what is left of the list
of keys and of the number. An entry may hold several keys and a key may be stored
under two names. Then a signer can count twice, with two signatures, and
what counts depends on the order of the listing; `EveryEntryCountsOnce` says what
holds all the same, `CheckFollowsRule` what holds with one entry for each key: the
outcome is right for the keys of some one moment. That a negative required number rejects every commit holds in both.

### DependencyOrder, KahnOrder

One loop for `topologicalOrder` and `deleteOrderFromState`, which differ in what
they go through: `shuffled` selects the random orders of Go maps. A dependency
may be listed twice, as the linter allows.

### GitopsApply

A behaviour is a sequence of runs over the commits of a `history`. `Begin` is
`ProcessCommit` up to the dependency order; the steps of `Apply` follow, one for
each way a resource can take through the loop: `ResolveFails`, `SkipUnchanged`,
`Migrate`, `Request`, `RequestFails`, then `SaveCreate`; and in the second phase
`StartDelete`, `Delete`, `DeleteFails`, `SaveDelete`, `Finish`. `mem` is the state the
run works on, `stored` the one in storage, `live` the target Vault. `Loaded` is
what `GetJSON` makes of the state: numbers come back as floating point. A digest
is the resolved data itself, so hashes do not collide. The delete phase allows
every order that respects the saved dependencies, which `DependencyOrder`
shows to be what `deleteOrderFromState` returns. The module ends with what the
theorems ask of a history; `MCGitopsApply` assumes that the histories of the runs
are such, and TLC evaluates that.

### TerraformRun

A behaviour is again a sequence of runs over the commits of a history, now of the
other engine. Each run is `ApplyTerraformFromFS` step by step: `Extract`, `Load`,
`RunInit`, `RunPlan`, the changes of one resource each (`ApplyResource`,
`RequestFails`), `ApplyEnds` or `ApplyKilled`, the deferred `Save`, and the `Record` of
the periodic task with the same context. `Expire` ends that context at any
point, after which every operation with it fails; `Crash` stops the plugin, and
terraform with it. `file` is `workspace/terraform.tfstate`, `stored` the entry in
storage, `live` the target. Terraform is external: it refreshes what its state
knows (`Known`), plans the difference, writes its state as it applies. `lost` is
history: some state that knew of something created has been lost.

### ConfigStore, LimitedClone

`ConfigStore` is the configure requests of four packages, which differ in their
fields, in what is valid, and in that credentials are replaced and not merged. A
request is three steps, as Vault and the handler do them: `Receive` (the
existence check that makes it a create or an update), `ReadExisting`, `Put`. `seen` is
history: what has been stored while a request is under way. Nothing keeps an update
from overwriting what another request has written since; `UpdateKeepsTheRest` says what
holds all the same, that what it leaves alone comes from one of these configurations,
whole. There are two good binaries, so that a change of binary and the checksum of
the other can meet.
`LimitedClone` adds a clone with the limit that was stored: each object declares
its size to `RawObjectWriter` (`Count`, then `Refuse` or `Writer`), several at a time,
over one atomic counter.

### VaultToken

Each check is a goroutine with the steps of `checkAndUpdateVaultTokenExpireTime`,
each request one call of the configure, rotate or delete handler. The target
Vault is external: tokens live, are renewed, expire and are revoked. `ttl` is
`vaultTokenTTL` in plugin memory. A time unit is a part of a day. Time does not
pass while a check or a request is under way (their contexts last 30 and 90
seconds, a unit in the instances is eight hours), and a check of the stored token has ended in
every unit: `checked` states that Vault's ticks are far more frequent than units.

## 3. Runs

| Run | What it shows | Instance |
|---|---|---|
| `Reconciler_fork` | safety of the periodic task and the refinement of `CommitProgress` | 3 commits, two of them children of the first between which the branch is forced, 2 overlapping calls, 1 key, 2 changes from outside, 2 faults or crashes at any operation |
| `Reconciler_live` | the guard is given back; every waiting commit is processed in the end | a line of 3 commits, 1 call, 1 change, 1 fault of any kind but the one of `Reconciler_guard` |
| `Reconciler_guard` | violation: the guard stays taken without a run | the read of the last commit fails |
| `CommitSearch` | the outcome of the search, its end, the rule of `CommitRules` | every history of 4 commits with up to 2 parents, 3 dates around now |
| `SignatureCheck` | what is accepted, the rule of `CommitRules`, the end of the check | every 3 entries over 3 keys, or 2 of one key each of which one changes during the read; a signature in the commit, 2 in the notes, required numbers -1 to 3 |
| `DependencyOrder` | dependencies first, only cycles missing, the loop ends and is `KahnOrder` | every list of 4 resources, every map of 3, up to 2 dependencies |
| `GitopsApply` | success means applied, in dependency order; nothing left behind, nothing declared deleted, a second run is quiet, later runs recover | every 3 commits of three dependent resources without faults, every 2 without a return to an earlier version with 2 faults or crashes, further histories for rename, ignored failures, GET, missing responses, cycles, and dependencies and ignore flags that change under a digest that stays |
| `GitopsApply_rename` | violation: a rename with a change of data deletes the resource | one history of 2 commits |
| `TerraformRun` | a recorded commit is deployed; the stored state knows what exists; what is removed is destroyed; later runs recover | every 3 commits of 2 resources, without files or configuration among them, 2 failures, timeouts or crashes at any operation |
| `LimitedClone` | stored configurations are valid, updates keep the rest of one configuration; a clone keeps its limit | 3 requests, 2 at a time, any fields, 1 failure; 3 objects of sizes -1, 1, 2 under limits -1, 0, 2, 3 |
| `VaultToken` | the configured token lives and is renewed, the cached time to live is cautious, updates preserve the token | 3 tokens, 2 checks, 1 request at a time (first token, rotation, other settings, delete), 1 fault or restart |
| `VaultToken_lost_update` | violation: an update beside a rotation brings a revoked token back | 2 requests at a time |

Why the bounds are enough. Two calls are what a guard must keep apart, and the
proofs cover any number. Two faults allow a failure in the repair of a failure,
two changes a push together with a change of keys or configuration. Four commits
are the smallest history with a merge of two branches from one commit; three dates lie before, at and after now. Three resources
make a chain, a fork and a cycle with something behind it; three commits
let a resource appear, change and go. Two checks and one request interleave in
every order in which a check can use a token that is replaced meanwhile. Three
commits let terraform create, lose sight of and destroy a resource. Three requests are an
entry to update and two that overlap; three objects pass a limit in every order
of counting and taking back. The proofs of section 5 lift the bounds where there
are any. Elapsed
times are counted up to `Cap`, above every period; `CapAssumption` keeps this from
hiding a poll.

What the passing runs leave out, because the code does not keep the property
there: `Reconciler_live` the failed read of `Reconciler_guard`; `GitopsApply`
a return to an earlier version where a run may fail, and
moves to another path, renames with a change of data, reads of a path that a
removed resource had declared, dependencies turned round, and templates that take
a number; `TerraformRun` a
state file that is cut off as it is written or checked in with the
configuration, and resources that cannot be created over existing ones;
`SignatureCheck` two changes during one read of the keys; `VaultToken` a
second token brought by the operator, two requests at a time, and a failed read
of the existing configuration.

Fairness. `Reconciler`: Vault keeps ticking, a run keeps going (its context ends
after 30 minutes, and every operation then returns), time passes. Nothing is
assumed about signatures or pushes; `NothingStaysPending` asks for what is
pending after faults and changes have used up their bounds. `CommitSearch`,
`SignatureCheck` and `DependencyOrder`: a loop runs on, and it must end without
the help of a failure. `GitopsApply` and `TerraformRun`: a run runs on, and runs are
started again, which `NothingStaysPending` of the periodic task justifies for a
commit that is not recorded. `VaultToken`: what Vault has called comes to an end,
and time passes.

`LimitedClone` has safety properties only and assumes none.

Deadlock is checked wherever the system goes on for ever; only the loops of
`CommitSearch`, `SignatureCheck` and `DependencyOrder` stop, at their return, and
`LimitedClone` when the clone is done.

## 4. Findings

Each is a violation run; `PROJECT.json` quotes the lines.

1. `Reconciler_guard`: `PeriodicTask` takes the guard and then reads
   `last_processed_commit`. If the read fails it returns, and nothing resets the
   guard until the plugin restarts: no run starts any more.
2. `GitopsApply_rename`: name and data of a resource change in one commit; the new
   name is written and the old one, at the same path, is deleted.
3. `VaultToken_lost_update`: an update read before a rotation and saved after it
   stores the token that the rotation revokes.

Further deviations met while modelling have no run of their own; the MC
modules have the instances to see them with.

In `CommitSearch.cfg`:

- `INVARIANT NoNewCommitMissed`: the search is depth first and ends at the last
  finished commit wherever it meets it (`git.go:106`), so a signed commit on the
  other side of a merge is missed, for good once the merge itself is unsigned.

In `SignatureCheck.cfg`:

- `Stores <- TwoChanges`, `CheckFollowsRule`: with two changes between the listing and
  the last read, keys of different moments are used together.
- `INVARIANT reader # "crashed"`, as a definition of its own: a key deleted between
  the listing and its turn stops the plugin (`pkg/pgp/storage.go:27`).

In `TerraformRun.cfg`:

- `Histories <- OneConfig` and `FailingOps <- OnlyWrite`, `NothingOrphaned` and `StateIsNotForgotten`: the stored state is
  cut off on its way to the scratch directory (`cli.go:336`), and the deferred save
  stores the rest of it; `README.md:10` says "State is stored in Vault."
- `Histories <- CheckedIn` and `FailingOps = {"load"}`, the same two: a `terraform.tfstate` of the repository
  takes the place of a stored state that could not be read.
- `Exclusive = {r1}`, `RunsRecover`: the error of the save is only logged
  (`cli.go:80`), as is that of a save with an expired context; a resource that was
  created and is not in the state fails in every later run.

In `GitopsApply_rename.cfg`, as `Histories`; for `Revert` with bound 1 in place of 0:

- `Revert`, `CommitIsLive`: a write took effect and was not
  saved; the next commit takes it back, equals the saved state, and is skipped.
- `OtherTemplate` with `Numeric = {}`, `CommitIsLive`: the same, where the commit
  comes back to a value by way of another template.
- `Moved`, `CommitIsLive`: a resource that changes only its path is skipped, as the
  digest does not cover the path (nor the method).
- `ReadNoMore`, `DeclaredIsNotDeleted`: removing a GET resource deletes what it read.
- `TurnedRound`, `NothingLeftBehind`: an unchanged resource keeps its old saved
  dependencies; where they form a cycle, removed resources are never deleted.
- A path and data change in one commit, `<< <<A1>>, <<Plain(a, q, d2)>> >>`,
  `NothingLeftBehind`: the entry of the state is overwritten (`apply.go:115`), and what
  was at the old path stays on the target.
- Two resources of one commit with the same path and data,
  `<< <<A1, Plain(b, p, d1)>> >>`, `CommitIsLive`: each takes the entry of the other for its
  own under an old name (`apply.go:55`), and the run reports success without an
  end of this.
- `Steady` with `Numeric = {p}`, `SecondRunIsQuiet`: a large number of a response is
  printed in another way after a reload, and the resource is applied again.

In `VaultToken_lost_update.cfg`:

- `Tokens = {t1, t2}`, `Period <- UnequalTokens`,
  `Kinds <- Replacement` and `Requests = {r1}`, `ConfiguredIsLive`: the time to live
  in memory outlives the token it belongs to, and a token that replaces another
  expires without a renewal.
- `Kinds <- OtherSettings`, `MaxFaults = 1` and
  `FailingOps <- OnlyExisting`, with `PROPERTY UpdatePreservesToken`: an update whose read of
  the configuration fails saves an empty token.

Read off the code while writing `ConfigStore`, where the model does what the code
does and no property says otherwise:

- A create stores zero for a field it does not give, not the default that the
  schema names: no size limit, no branch, no poll period (`git_repository/backend.go:61-79`).
- An update may set `git_repo_url` to the empty string; the check for it is made
  for a create only (163). A negative size is dropped without an answer (158).
- A checksum given without a binary is stored unverified (`terraform/backend.go:142`),
  while its description (63) says it is verified at configuration time.
- An update that read the configuration before a delete brings it back, and one that
  read it before another update undoes that one (`git_repository/backend.go:125`).
- A clone reads configuration and credentials one after the other
  (`git_repository/git.go:43` and 140) and may pair an old one with a new one.

## 5. Proofs

Eight modules hold proofs; none of them bounds anything. Every invariant that a
run checks is the subject of a theorem, and so is every action property.

| Module | Theorems | For every |
|---|---|---|
| `ReconcilerProofs` | `TypeOK`, `AtMostOneRun`, `FinishedWasApplied`, `SuccessWasApplied`, `AppliedNotOlder`, `RunAgreesWithStorage`, `FinishedMovesForward`, `PollsAreSpaced`, `ImplementsProgress` | set of calls, finite or not, repository, configurations, keys |
| `CommitSearchProofs` | `OutcomeIsRight`, `ResultIsNewest`, `SearchFollowsRule`; that every history has a log | history, number of parents, dates, outcomes of the checks |
| `SignatureCheckProofs` | `EveryEntryCountsOnce`; and, with at most one change during the read, `CheckFollowsRule` | entries and their changes, signatures, required number |
| `DependencyOrderProofs` | `DependenciesFirst`, `OnlyCyclesMissing`, `LoopIsTopologicalOrder` | number of resources, lists of dependencies, order of the maps |
| `GitopsApplyProofs` | `NothingLeftBehind`, `AppliedAfterDependencies`, `SecondRunIsQuiet`, `DeclaredIsNotDeleted`, `CommitIsLive`, each for the histories below | number and size of commits, failures, crashes |
| `TerraformRunProofs` | `RecordedIsDeployed`; and, where no state file is cut off or checked in, `NothingOrphaned`, `RemovedIsDestroyed`, `StateIsNotForgotten` | history, resources, pattern of failures, timeouts and crashes |
| `LimitedCloneProofs` | `StoredWasValidated`, `UpdateKeepsTheRest`, `CloneKeepsLimit` | number of requests and failures; number, sizes and order of the objects |
| `VaultTokenProofs` | where it is `WellRun`, `ConfiguredIsLive`, `CacheIsCautious`, `UpdatePreservesToken` | tokens, number of checks, failures, restarts |

The assumptions are those of the modules: dates are natural numbers, `NoCommit`
is not a commit, the bounds are natural numbers, a commit has passed the linter.
They are what the code guarantees of its inputs, and TLC evaluates them in each
run. Where a theorem needs more, it is because the code keeps the property only
then; it says so in its hypotheses, and section 4 what happens otherwise:

- `TerraformRunProofs`: `WholeStates`, no state file is cut off or checked in.
- `SignatureCheckProofs`: at most one change while the keys are read.
- `VaultTokenProofs`: `WellRun`, which has five parts. Requests come one at a time;
  a token, and a day, last longer than failures can hold up a renewal; the
  tokens the operator brings are worth the same; the configuration is not
  deleted to be brought back with another token; the read of the existing
  configuration does not fail. The run `VaultToken` is such.
- `GitopsApplyProofs`, about the resources that the commits with an order give:

| Condition | Says | Asked by |
|---|---|---|
| `PathsStay` | a name keeps its path | all five |
| `OneDirection` | dependencies are never turned round | `NothingLeftBehind`, `SecondRunIsQuiet` |
| `RefsAreDeps` | a template names a dependency | `AppliedAfterDependencies`, `SecondRunIsQuiet`, `CommitIsLive` |
| `Distinct` | no two resources of a commit have path and data in common | all but `NothingLeftBehind` |
| `NoNumbers` | a template takes no number | `SecondRunIsQuiet`, `CommitIsLive` |
| `RenamesKeepData` | what changes its name keeps its data and has no template | `DeclaredIsNotDeleted`, `CommitIsLive` |
| `MethodsStay` | a path is always written or always read | `CommitIsLive` |
| `Forward` | where something may fail, what a path has lost does not come back (`NothingReturns`), and the same data has one template (`OneTemplate`) | `CommitIsLive` |

`MCGitopsApply` has TLC evaluate the conditions on the histories of the runs. All meet
them but two, `Renamed` (a resource with a template changes its name) and `Reading`
(a path is written and read), which are outside `RenamesKeepData` and `MethodsStay`.

`Reconciler`. The properties are not inductive. That the recorded commit never goes back
depends on the search having compared with the commit that is still recorded;
that depends on nobody else having written meanwhile; and that on the guard. The
invariant `Inv` has one part for each: `LockInv` (a running call holds the guard and
is the only one), `BaseInv` (from its first read to its last write a run and the
storage agree), `TargetInv` (the commit found is not older than the recorded one)
and `DoneInv` (past the engine, it is applied). `PollsAreSpaced` needs one more
relation, `age` against `gap`, because the stored timestamp is cut to whole
seconds. The refinement maps each step of a run to an action of `CommitProgress`
or to a stutter.

`CommitSearch`. The result is looked at in the last step, so the invariant is about
the iterator: all that it holds is on the branch (`OnBranch`), and what it has
returned and what it holds cover HEAD and the parents of all it has returned
(`Covering`). When it holds nothing more, what it has returned is closed under
parents, hence all of the branch. Without merges it holds at most one commit, and
all it has not returned yet is behind that one: so what it returns is the newest.
For the rule over the log, the invariant is that what has been returned is a
beginning of the log, and that what is held comes next in turn (`InTurn`): of all
that the parents of what has been returned list, what would come before it has
been returned or is held before it. That every history has a log is shown by the
longest walk: it names no commit twice, so there is one, and a walk that is not a
log can go on.

`SignatureCheck`. The countdown keeps no record of what it has counted. The
invariant says that there is one (`RecordInv`): as many signatures as the number has
gone down, each with an entry of its own that is no longer on the list. It needs
that the list repeats nothing, and that what is still to be checked is the end of
all the signatures (`ListInv`). With one entry for each key the record is exact: the
number has gone down by the trusted keys among those that have signed so far
(`Exact`). That these are the keys of one moment is a fact about the reader
(`ReadInv`): the stores before and after the one change differ in one name, which
is read once, so what has been read is all of the one or all of the other.

`DependencyOrder`. A counter is the number of the listed dependencies that are not
ordered, repetitions included (`Counted`), and the queue holds what has reached zero
and is not ordered, each once (`Queued`). So what comes out of the queue has all its
dependencies before it; what is missing when the queue is empty has one that is
missing too; and nothing on a cycle comes out, since the first of the cycle to do so
would have one before it. The rule of `KahnOrder` is first come, first served:
what is ordered, with the queue behind it, stands in the order in which its last
dependency came out (`InTurn`), which determines it.

`GitopsApply`. An entry of a state says what some resource of its name said (`From`),
and is stored before the next request is sent, unless something fails (`Kept`).
Five arguments build on this. `NothingLeftBehind`: without a failure the state has all
that is on the target (`Covered`), and what the commit does not have is still to
delete or gone (`Removing`); a set that cannot be deleted would be a cycle of saved
dependencies. `AppliedAfterDependencies`: what a run has been through stays in place
to its end (`Applied`), as nothing that comes later is something that it depends on
(`InOrder`), and what is deleted the commit does not have (`Foreign`).
`SecondRunIsQuiet`: then the next run for the same commit finds everything in
place (`Quiet`). `DeclaredIsNotDeleted`: a path has one entry, which is that of the
commit where the run has been (`Own`). `CommitIsLive`: where nothing can
fail, the target has what the entry of its path says (`Exact`). Where something can,
a write or a deletion may take effect and not be saved. The invariant is then that there is
a set of lost digests (`Losses`): the target has what an entry says unless
that digest is lost (`Shown`), the stored state and the one in memory differ over lost
digests only (`Behind`), and no commit from now on asks for one that is lost
(`Unwanted`). It does not ask for the data; or it asks for it with a template, and
what the template would have to take is itself lost, at the path where it comes
from (`Told`). Each request or deletion adds what the two states have at its path. So
a digest that a run computes is not lost, by descent along the templates: what its
template took comes from a resource that the run has been through, and that one
is not lost (`Fresh`).

`VaultToken`. All tokens that are made are worth the same (`Alike`). The token that a
request is about to store is the stored one, or has been made since time last
passed (`InHand`); so a check that renews a token while it is replaced does not
take the time of one for that of the other (`InUse`). With the configuration
deleted, no token of the operator is left that could come back (`Settled`). A unit that passes
without a renewal, with less than a day left, has used up a failure (`Lasting`),
and there are fewer failures than units in a day.

`LimitedClone`. Of any objects that are counted and not taken back, the last to be
counted has looked at a sum with all of them in it (`Covered`); so the sum of what
may be written is within the limit as soon as one of them is let through.

`TerraformRun`. What the plan leaves out or the apply has done is as declared until
the commit is recorded (`Deploying`), whatever the state says. For the other
three, one state at a time knows all that is on the target: the stored one
before the load and between runs, the file in between (`Covering`); so what the plan
leaves out is on the target neither more nor less than declared (`Removing`).

`ConfigStore`. A request under way has seen what is stored now, and the fields an
update holds are of a configuration that it has seen (`WasStored`), whatever has
been written over it since.

Only model-checked: liveness (`GuardIsReleased`, `NothingStaysPending`,
`SearchEnds`, `CheckEnds`, `OrderEnds`, `RunsRecover` of both engines, `TokenIsRenewed`),
which is out of the prover's reach, as is ENABLED; `CommitIsLive` and
`DeclaredIsNotDeleted` for the histories `Renamed` and `Reading`; and that a recursive walk over a history gives the log
that the rule describes (`LogIsPreorder`), which needs induction over data.

## 6. Not modelled, and the plan

Not modelled for good: parsing of YAML files and of keys, the text of logs and
status messages, HTTP to Vault, the set-up of the sandbox terraform runs in, the
plugin entry points and the registry of engines, the helpers that tar and sign
worktrees (nothing in the plugin calls them), the signing key, the wiring of the
command line tool (it runs `Lint` and `Apply`, which are modelled).

Left, in this order:

1. The clone beside configure requests, with configuration and credentials read
   one after the other.
2. A token that is rotated while terraform uses it: `TerraformRun` composed with
   `VaultToken`.
