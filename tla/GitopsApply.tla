---------------------------- MODULE GitopsApply ----------------------------
(***************************************************************************)
(* The declarative engine (pkg/gitops: engine.go, apply.go, templates.go,  *)
(* types.go): one run after another makes the target Vault look like the   *)
(* resources of a commit.  A run loads the saved state, writes what is new *)
(* or changed in dependency order, deletes what is gone, and saves the     *)
(* state after every request.  A request or a save may fail, with or       *)
(* without having taken effect, and the plugin may stop between any two.   *)
(*                                                                         *)
(* Namespace and path are one location; the data of a resource stands for  *)
(* its data and revision, which go into the digest together; a digest is   *)
(* the resolved data itself.                                               *)
(***************************************************************************)
EXTENDS Integers, Sequences, FiniteSets

CONSTANTS
    Names,          \* names of resources: the keys of the state
    Paths,          \* locations in the target Vault
    Data,           \* values of the data field
    NoValue,        \* nothing there, nothing returned, no template
    Histories,      \* commits that may follow each other, sequences of
                    \* resources that the linter accepts, and a bound on the
                    \* failures and crashes on the way
    Silent,         \* paths whose write returns no data
    Numeric,        \* paths that return a number of seven digits or more
    Undeletable     \* paths that answer DELETE with 405

ASSUME ApplyAssumption ==
    /\ NoValue \notin Names \cup Data
    /\ Silent \subseteq Paths /\ Undeletable \subseteq Paths /\ Numeric \subseteq Paths

\* One resource of a commit, as the linter lets it through.
Resource == [name : Names, path : Paths, data : Data, ref : Names \cup {NoValue},
             deps : SUBSET Names, ignore : BOOLEAN, method : {"POST", "GET"}]

\* Lint: names are unique, dependencies are names of the same commit.
Linted(commit) ==
    /\ commit \in Seq(Resource)
    /\ \A i, j \in DOMAIN commit : commit[i].name = commit[j].name => i = j
    /\ \A i \in DOMAIN commit : commit[i].deps \subseteq {commit[j].name : j \in DOMAIN commit}

ASSUME HistoryAssumption ==
    \A h \in Histories :
        /\ h.maxFaults \in Nat
        /\ h.commits \in Seq(Seq(Resource)) /\ Len(h.commits) > 0
        /\ \A n \in DOMAIN h.commits : Linted(h.commits[n])

Kahn == INSTANCE KahnOrder

VARIABLES
    history,    \* the commits, oldest first, and the bound on failures
    at,         \* the commit of the current or latest run, 0 before the first
    pc,         \* "idle", "create", "saveCreate", "delete", "saveDelete",
                \* "done" or "failed"
    todo,       \* the positions of the resources still to go through
    gone,       \* the keys still to delete
    mem,        \* the state in memory
    stored,     \* the state in storage
    live,       \* the target Vault: what each path holds
    tolerant,   \* ignoreFailures of the entry that is being deleted
    faults,
    ignored,    \* history: this run has passed over a failure
    again       \* history: the run before did the same commit without a failure

vars == <<history, at, pc, todo, gone, mem, stored, live, tolerant, faults, ignored, again>>

\* An entry of the state.
Entry(digest, deps, ignore, response, path) ==
    [digest |-> digest, deps |-> deps, ignore |-> ignore, response |-> response, path |-> path]

NoState == [n \in {} |-> NoValue]
Put(st, key, entry) == [n \in DOMAIN st \cup {key} |-> IF n = key THEN entry ELSE st[n]]
Remove(st, key) == [n \in DOMAIN st \ {key} |-> st[n]]

\* GetJSON reads every number as a float64, which a template prints in another
\* way ("2.7648e+06") than the number of the response ("2764800").
Loaded(st) ==
    [n \in DOMAIN st |->
        IF st[n].response # NoValue /\ st[n].response[1] = "number"
        THEN [st[n] EXCEPT !.response[1] = "float"] ELSE st[n]]

Commit == history.commits[at]
Position(commit, name) == CHOOSE i \in DOMAIN commit : commit[i].name = name
\* Faulty: an edge from a resource to what it depends on.
DepPositionsReversed(commit) ==
    [i \in DOMAIN commit |-> {j \in DOMAIN commit : commit[i].name \in commit[j].deps}]
DepPositions(commit) ==
    [i \in DOMAIN commit |-> {Position(commit, n) : n \in commit[i].deps}]

Init ==
    /\ history \in Histories
    /\ at = 0 /\ pc = "idle" /\ todo = <<>> /\ gone = {}
    /\ mem = NoState /\ stored = NoState
    /\ live = [p \in Paths |-> NoValue]
    /\ tolerant = FALSE /\ faults = 0 /\ ignored = FALSE /\ again = FALSE
-----------------------------------------------------------------------------
Running == pc \in {"create", "saveCreate", "delete", "saveDelete"}

Works == UNCHANGED faults
Fault == faults < history.maxFaults /\ faults' = faults + 1

\* ProcessCommit for the same commit again or for a later one: the state is
\* loaded, the resources are ordered; a cycle ends the run.
Begin ==
    /\ ~Running
    /\ \E n \in DOMAIN history.commits :
        /\ n >= at
        /\ at' = n
        /\ \E deps \in {DepPositions(history.commits[n])} :
              IF Kahn!HasCycle(deps) THEN pc' = "failed" /\ todo' = <<>>
              ELSE pc' = "create" /\ todo' \in Kahn!Orders(deps)
        /\ again' = (pc = "done" /\ ~ignored /\ n = at)
    /\ mem' = Loaded(stored)
    /\ ignored' = FALSE
    /\ UNCHANGED <<history, gone, stored, live, tolerant, faults>>

\* Reading the configuration, the files or the state fails.
LoadFails ==
    /\ ~Running /\ Fault
    /\ \E n \in DOMAIN history.commits : n >= at /\ at' = n
    /\ pc' = "failed"
    /\ UNCHANGED <<history, todo, gone, mem, stored, live, tolerant, ignored, again>>

\* ResolveTemplates: <name:key> becomes a value of that resource's response.
CanResolve(r, st) ==
    r.ref = NoValue \/ (r.ref \in DOMAIN st /\ st[r.ref].response # NoValue)
Resolve(r, st) == <<r.data, IF r.ref = NoValue THEN NoValue ELSE st[r.ref].response>>

R == Commit[Head(todo)]
AtResource == pc = "create" /\ todo # <<>>
Digest == Resolve(R, mem)
Unchanged == R.name \in DOMAIN mem /\ mem[R.name].digest = Digest
SamePath == {k \in DOMAIN mem : mem[k].path = R.path}

\* An error of a resource ends the run unless the resource ignores failures.
GiveUpOrSkip(ignore, next) ==
    IF ignore THEN pc' = next /\ todo' = Tail(todo) /\ ignored' = TRUE
    ELSE pc' = "failed" /\ todo' = <<>> /\ UNCHANGED ignored

Advance == todo' = Tail(todo)

ResolveFails ==
    /\ AtResource
    /\ ~CanResolve(R, mem)
    /\ GiveUpOrSkip(R.ignore, "create")
    /\ UNCHANGED <<history, at, gone, mem, stored, live, tolerant, faults, again>>

SkipUnchanged ==
    /\ AtResource
    /\ CanResolve(R, mem) /\ Unchanged
    /\ Advance
    /\ UNCHANGED <<history, at, pc, gone, mem, stored, live, tolerant, faults, ignored, again>>

\* FindByNsPath returns some entry of the same path; with the digest of the
\* resource, that entry is moved to the resource's name and no request is sent.
Migrates(k) == R.name \notin DOMAIN mem /\ k \in SamePath /\ mem[k].digest = Digest

\* Faulty: the entry is copied and the old key stays.
MigrateKeepsOld ==
    /\ AtResource
    /\ CanResolve(R, mem) /\ ~Unchanged
    /\ \E k \in SamePath :
        /\ Migrates(k)
        /\ mem' = Put(mem, R.name, [mem[k] EXCEPT !.path = R.path])
    /\ pc' = "saveCreate"
    /\ UNCHANGED <<history, at, todo, gone, stored, live, tolerant, faults, ignored, again>>

Migrate ==
    /\ AtResource
    /\ CanResolve(R, mem) /\ ~Unchanged
    /\ \E k \in SamePath :
        /\ Migrates(k)
        /\ mem' = Put(Remove(mem, k), R.name, [mem[k] EXCEPT !.path = R.path])
    /\ pc' = "saveCreate"
    /\ UNCHANGED <<history, at, todo, gone, stored, live, tolerant, faults, ignored, again>>

\* The request: the entry found by path, if any, is not one to migrate.
NeedsRequest ==
    /\ AtResource
    /\ CanResolve(R, mem) /\ ~Unchanged
    /\ R.name \notin DOMAIN mem /\ SamePath # {} => \E k \in SamePath : ~Migrates(k)

\* A write is answered with what was made of it, a GET with what is there.
Answer == IF R.method = "GET" THEN live[R.path]
          ELSE IF R.path \in Silent THEN NoValue ELSE Digest
\* Faulty: the response is not kept.
ResponseDropped == NoValue
Response == IF Answer = NoValue THEN NoValue
            ELSE <<IF R.path \in Numeric THEN "number" ELSE "text", Answer>>

\* Faulty: the digest is taken before the templates are filled in.
RequestRawDigest ==
    /\ NeedsRequest
    /\ live' = IF R.method = "GET" THEN live ELSE [live EXCEPT ![R.path] = Digest]
    /\ mem' = Put(mem, R.name, Entry(<<R.data, NoValue>>, R.deps, R.ignore, Response, R.path))
    /\ pc' = "saveCreate"
    /\ UNCHANGED <<history, at, todo, gone, stored, tolerant, faults, ignored, again>>

Request ==
    /\ NeedsRequest
    /\ live' = IF R.method = "GET" THEN live ELSE [live EXCEPT ![R.path] = Digest]
    /\ mem' = Put(mem, R.name, Entry(Digest, R.deps, R.ignore, Response, R.path))
    /\ pc' = "saveCreate"
    /\ UNCHANGED <<history, at, todo, gone, stored, tolerant, faults, ignored, again>>

\* Faulty: the entry is made before the request.
RequestFailsRecords ==
    /\ NeedsRequest
    /\ Fault
    /\ UNCHANGED live
    /\ mem' = Put(mem, R.name, Entry(Digest, R.deps, R.ignore, Response, R.path))
    /\ GiveUpOrSkip(R.ignore, "create")
    /\ UNCHANGED <<history, at, gone, stored, tolerant, again>>

\* The request fails; a write may have taken effect.
RequestFails ==
    /\ NeedsRequest
    /\ Fault
    /\ \/ UNCHANGED live
       \/ R.method = "POST" /\ live' = [live EXCEPT ![R.path] = Digest]
    /\ GiveUpOrSkip(R.ignore, "create")
    /\ UNCHANGED <<history, at, gone, mem, stored, tolerant, again>>

SaveCreate ==
    /\ pc = "saveCreate"
    /\ \/ /\ Works
          /\ stored' = mem
          /\ pc' = "create" /\ Advance /\ UNCHANGED ignored
       \/ /\ Fault
          /\ stored' \in {stored, mem}
          /\ GiveUpOrSkip(R.ignore, "create")
    /\ UNCHANGED <<history, at, gone, mem, live, tolerant, again>>

\* The second phase: what the state has and the commit has not.
StartDelete ==
    /\ pc = "create" /\ todo = <<>>
    /\ pc' = "delete"
    /\ gone' = DOMAIN mem \ {Commit[i].name : i \in DOMAIN Commit}
    /\ UNCHANGED <<history, at, todo, mem, stored, live, tolerant, faults, ignored, again>>

\* deleteOrderFromState, in any order that it can return (DependencyOrder has the
\* algorithm): a key comes after the keys that its entry depends on.  What waits
\* for a cycle is never reached.
Deletable(k) == k \in gone /\ mem[k].deps \cap gone = {}

\* Vault takes the DELETE, or answers 404 or 405; either way the entry goes.
Delete(k) ==
    /\ pc = "delete"
    /\ Deletable(k)
    /\ live' = IF mem[k].path \in Undeletable THEN live
               ELSE [live EXCEPT ![mem[k].path] = NoValue]
    /\ mem' = Remove(mem, k)
    /\ gone' = gone \ {k}
    /\ tolerant' = mem[k].ignore
    /\ pc' = "saveDelete"
    /\ UNCHANGED <<history, at, todo, stored, faults, ignored, again>>

\* Any other error, after which the resource may be gone all the same.
DeleteFails(k) ==
    /\ pc = "delete"
    /\ Deletable(k)
    /\ Fault
    /\ live' \in {live, [live EXCEPT ![mem[k].path] = NoValue]}
    /\ IF mem[k].ignore THEN gone' = gone \ {k} /\ ignored' = TRUE /\ UNCHANGED pc
       ELSE pc' = "failed" /\ gone' = {} /\ UNCHANGED ignored
    /\ UNCHANGED <<history, at, todo, mem, stored, tolerant, again>>

\* Faulty: the run is over after the first deletion.
SaveDeleteReturns ==
    /\ pc = "saveDelete"
    /\ Works
    /\ stored' = mem
    /\ pc' = "done" /\ gone' = {}
    /\ UNCHANGED <<history, at, todo, mem, live, tolerant, ignored, again>>

SaveDelete ==
    /\ pc = "saveDelete"
    /\ \/ /\ Works
          /\ stored' = mem
          /\ pc' = "delete" /\ UNCHANGED <<gone, ignored>>
       \/ /\ Fault
          /\ stored' \in {stored, mem}
          /\ IF tolerant THEN pc' = "delete" /\ ignored' = TRUE /\ UNCHANGED gone
             ELSE pc' = "failed" /\ gone' = {} /\ UNCHANGED ignored
    /\ UNCHANGED <<history, at, todo, mem, live, tolerant, again>>

Finish ==
    /\ pc = "delete"
    /\ \A k \in gone : ~Deletable(k)
    /\ pc' = "done" /\ gone' = {}
    /\ UNCHANGED <<history, at, todo, mem, stored, live, tolerant, faults, ignored, again>>

\* The plugin stops in the middle of a run; the state in memory is gone.
Crash ==
    /\ Running /\ Fault
    /\ pc' = "failed" /\ todo' = <<>> /\ gone' = {}
    /\ mem' = stored
    /\ UNCHANGED <<history, at, stored, live, tolerant, ignored, again>>

Step ==
    \/ ResolveFails \/ SkipUnchanged \/ Migrate \/ Request \/ RequestFails \/ SaveCreate
    \/ StartDelete \/ (\E k \in Names : Delete(k) \/ DeleteFails(k)) \/ SaveDelete
    \/ Finish

Next == Begin \/ LoadFails \/ Step \/ Crash

\* A run goes on, and a run that did not finish its commit is tried again.
Spec == Init /\ [][Next]_vars /\ WF_vars(Step) /\ WF_vars(Begin)
-----------------------------------------------------------------------------
\* A run that reports success and ignored nothing has made the target what the
\* commit says: every resource has its data, with the templates filled in from
\* the responses that are there now, and the saved state knows it.
Matches(r) ==
    /\ r.name \in DOMAIN stored /\ CanResolve(r, stored)
    /\ stored[r.name].digest = Resolve(r, stored)
    /\ r.method = "POST" => live[r.path] = Resolve(r, stored)

Succeeded == pc = "done" /\ ~ignored

CommitIsLive == Succeeded => \A i \in DOMAIN Commit : Matches(Commit[i])

\* "When a resource is removed from config, DELETE is also called"
\* (docs/format.md:56): after a success, if nothing has failed so far, nothing is
\* left at a path that no resource of the commit has, unless that path cannot be
\* deleted.
NothingLeftBehind ==
    Succeeded /\ faults = 0 => \A p \in Paths \ Undeletable :
        live[p] # NoValue => \E i \in DOMAIN Commit : Commit[i].path = p

\* "This resource is applied after all of them" (docs/format.md:38): a request for
\* a resource is sent only when everything it depends on is in place as this
\* commit wants it, or a failure of it was to be ignored.
AppliedAfterDependencies ==
    [][Request \/ RequestFails =>
          \A i \in DOMAIN Commit : Commit[i].name \in R.deps =>
              \/ ignored
              \/ /\ Commit[i].name \in DOMAIN mem
                 /\ mem[Commit[i].name].digest = Resolve(Commit[i], mem)]_vars

\* "With unchanged data the resource is not re-applied" (docs/format.md:37): the
\* same commit applied a second time sends no request.
SecondRunIsQuiet ==
    [][again => ~(Request \/ \E k \in Names : Delete(k))]_vars

\* The engine deletes nothing that the commit declares.
DeclaredIsNotDeleted ==
    [][\A k \in Names : Delete(k) =>
          \A i \in DOMAIN Commit : Commit[i].path # mem[k].path]_vars

\* A commit that cannot be applied: a cycle, or a template for a value of a
\* response that has none.
Impossible(commit) ==
    \/ Kahn!HasCycle(DepPositions(commit))
    \/ \E i \in DOMAIN commit :
           commit[i].ref # NoValue /\ commit[Position(commit, commit[i].ref)].path \in Silent

\* Whatever a failed or interrupted run leaves behind, later runs get through:
\* once failures stop, no run fails any more, unless a commit cannot be applied.
RunsRecover ==
    (\A n \in DOMAIN history.commits : ~Impossible(history.commits[n])) =>
        <>[](pc # "failed") /\ []<>(pc = "done")
-----------------------------------------------------------------------------
\* What the proofs ask of a history, beyond what the linter asks of a commit.

\* The commits of a history that have an order, and the resources that a run may
\* therefore come to.
Ordered(h) == {n \in DOMAIN h.commits : ~Kahn!HasCycle(DepPositions(h.commits[n]))}
Given(h) == UNION {{h.commits[n][i] : i \in DOMAIN h.commits[n]} : n \in Ordered(h)}

\* A name keeps its path.
PathsStay(h) == \A x, y \in Given(h) : x.name = y.name => x.path = y.path

\* Dependencies are never turned round: among any names there is one whose resources,
\* and those that it may be renamed from, depend on none of the names.
OneDirection(h) ==
    \A S \in (SUBSET Names) \ {{}} : \E k \in S : \A x, y \in Given(h) :
        x.name = k /\ y.path = x.path /\ y.data = x.data => y.deps \cap S = {}

\* A resource depends on what its template names.
RefsAreDeps(h) == \A x \in Given(h) : x.ref \in x.deps \cup {NoValue}

\* No two resources of one commit have their path and their data in common.
Distinct(h) ==
    \A n \in Ordered(h) : \A i, j \in DOMAIN h.commits[n] :
        LET x == h.commits[n][i]
            y == h.commits[n][j]
        IN  x.path = y.path /\ x.data = y.data => i = j

\* Templates take no numbers, which change their form when they are loaded.
NoNumbers(h) == \A x, y \in Given(h) : x.ref = y.name => y.path \notin Numeric

\* What changes its name has no template and keeps its data.
RenamesKeepData(h) ==
    \A x, y \in Given(h) :
        x.path = y.path /\ x.name # y.name => x.data = y.data /\ x.ref = NoValue

\* A path is always written or always read.
MethodsStay(h) == \A x, y \in Given(h) : x.path = y.path => x.method = y.method

\* Commit n has the data of x, with its template, at the path of x.
Lists(h, n, x) ==
    \E i \in DOMAIN h.commits[n] :
        LET y == h.commits[n][i]
        IN  y.path = x.path /\ y.data = x.data /\ y.ref = x.ref

\* What a path has lost does not come back, its data with its template.
NothingReturns(h) ==
    \A x \in Given(h) : \A l, m, n \in Ordered(h) :
        l <= m /\ m <= n /\ Lists(h, l, x) /\ Lists(h, n, x) => Lists(h, m, x)

\* The same data at the same path has the same template, or none.
OneTemplate(h) ==
    \A x, y \in Given(h) :
        x.path = y.path /\ x.data = y.data => x.ref = y.ref \/ NoValue \in {x.ref, y.ref}

\* What a history is like where something may fail.
Forward(h) == h.maxFaults = 0 \/ (NothingReturns(h) /\ OneTemplate(h))
=============================================================================
