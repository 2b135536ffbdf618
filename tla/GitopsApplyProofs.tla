------------------------- MODULE GitopsApplyProofs -------------------------
(***************************************************************************)
(* Proofs about the declarative engine, for any sequence of commits of any *)
(* size, any failures and crashes: a success is true of the target, what   *)
(* is removed is deleted, everything is applied after what it depends on,  *)
(* a second run does nothing, and no declared resource is deleted.  Each   *)
(* asks something of the histories; GitopsApply says what, at its end.     *)
(*                                                                         *)
(* The argument: an entry of the state says what a resource of its name    *)
(* said (From); without a failure the state has all that is on the target  *)
(* (Covered); what a run has been through stays in place until its end     *)
(* (Applied), as nothing that it goes through later is something that an   *)
(* earlier resource depends on (InOrder); a path has one entry (Own); the  *)
(* target has what the state says (Exact); or, where something has failed, *)
(* the entry and the target are at odds only over digests that a path has  *)
(* lost, which no commit asks for any more (Losses).                       *)
(***************************************************************************)
EXTENDS GitopsApply, SequenceTheorems, TLAPS

Elements(s) == {s[i] : i \in DOMAIN s}
Once(s) == \A i, j \in DOMAIN s : s[i] = s[j] => i = j

CommitNames == {Commit[i].name : i \in DOMAIN Commit}

Resources == pc \in {"create", "saveCreate"}

TypeInv ==
    /\ history \in Histories /\ faults \in Nat
    /\ pc \in {"idle", "create", "saveCreate", "delete", "saveDelete", "done", "failed"}
    /\ pc \notin {"idle", "failed"} => at \in Ordered(history)
    /\ Resources => todo \in Seq(DOMAIN Commit)
    /\ pc = "saveCreate" => todo # <<>>
    /\ pc \in {"delete", "saveDelete", "done"} => todo = <<>>
    /\ DOMAIN live = Paths

\* What an entry says comes from a resource of its name; its dependencies may be those
\* of the resource that this one was renamed from.
IsEntry(e) == e = Entry(e.digest, e.deps, e.ignore, e.response, e.path)
From(k, e) ==
    /\ IsEntry(e)
    /\ \E x, y \in Given(history) :
          /\ x.name = k /\ x.path = e.path
          /\ \E v : e.digest = <<x.data, v>> /\ (x.ref = NoValue => v = NoValue)
          /\ y.path = x.path /\ y.data = x.data /\ y.deps = e.deps
    /\ \/ e.response = NoValue
       \/ \E v, w : e.response = <<v, w>> /\ (e.path \notin Numeric => v = "text")
Known(st) == \A k \in DOMAIN st : From(k, st[k])

\* Nothing has failed that could leave the target or the state with something else.
Clean == faults = 0 \/ ~ignored

\* Only keys that the commit does not have are to be deleted.
Foreign == pc \in {"delete", "saveDelete"} => gone \subseteq DOMAIN mem \ CommitNames

\* What the commit does not have is still to delete or gone.
Removing ==
    /\ pc \in {"delete", "saveDelete"} /\ Clean => DOMAIN mem \subseteq gone \cup CommitNames
    /\ pc = "done" /\ Clean => DOMAIN mem \subseteq CommitNames

\* The state in memory is the stored one.
Kept ==
    \/ pc \in {"idle", "create", "delete", "done"} /\ Clean
    \/ pc = "failed" /\ faults = 0
    => Loaded(stored) = Loaded(mem)

\* Without a failure, the state has all that is on the target.
Covered ==
    faults = 0 => \A path \in Paths \ Undeletable :
        live[path] # NoValue => \E k \in DOMAIN mem : mem[k].path = path

\* The resources that the run has been through.
Passed == DOMAIN Commit \ Elements(IF pc = "saveCreate" THEN Tail(todo) ELSE todo)

\* What is still to go through depends on what comes before it only.
InOrder ==
    Resources =>
        LET deps == DepPositions(Commit)
        IN  /\ Once(todo)
            /\ \A j \in DOMAIN todo : deps[todo[j]] \cap {todo[l] : l \in j..Len(todo)} = {}
            /\ \A i \in DOMAIN Commit \ Elements(todo) : deps[i] \cap Elements(todo) = {}

\* The state has the resource as the commit wants it.
InPlace(st, x) ==
    x.name \in DOMAIN st /\ CanResolve(x, st) /\ st[x.name].digest = Resolve(x, st)

Applied ==
    pc \notin {"idle", "failed"} /\ ~ignored => \A i \in Passed : InPlace(mem, Commit[i])

\* The second time there is nothing to do.
Quiet ==
    again /\ pc \notin {"idle", "failed"} =>
        /\ DOMAIN mem \subseteq CommitNames
        /\ pc \in {"create", "delete", "done"}
        /\ \A i \in DOMAIN Commit : InPlace(mem, Commit[i])

\* A path has one entry, and where the run has been that is the one of the commit.
OneEntry(st) == \A k, l \in DOMAIN st : st[k].path = st[l].path => k = l
Own ==
    /\ OneEntry(mem) /\ OneEntry(stored)
    /\ pc \notin {"idle", "failed"} => \A i \in Passed : \A k \in DOMAIN mem :
          mem[k].path = Commit[i].path => k = Commit[i].name

Written(path) == \E x \in Given(history) : x.path = path /\ x.method = "POST"

\* Nothing is where nothing is ever written.
Untouched == \A path \in Paths : Written(path) \/ live[path] = NoValue

\* Where nothing can fail, the target has what the state says it has.
Shows(e) == Written(e.path) => live[e.path] = e.digest
Exact ==
    /\ at \in Nat /\ faults <= history.maxFaults
    /\ history.maxFaults = 0 => \A k \in DOMAIN mem : Shows(mem[k])

\* Where something can fail, L are the digests that paths have lost.  No commit from now
\* on asks for one: the path does not get the data back, with a template or without one
\* as it was, or what the template would have to take for it is lost too.
Unwanted(L, path, g) ==
    \A n \in Ordered(history) : at <= n => \A i, j \in DOMAIN history.commits[n] :
        LET x == history.commits[n][i]
            y == history.commits[n][j]
        IN  x.path = path /\ x.data = g[1] =>
               /\ x.ref = NoValue => g[2] # NoValue
               /\ x.ref = y.name /\ g[2] # NoValue => <<y.path, g[2][2]>> \in L

\* Some commit up to now has had the data of x, with its template, at its path.
Seen(x) == \E n \in Ordered(history) : n <= at /\ Lists(history, n, x)

\* What the template of an entry has taken is in the same state, or lost.
Held(st, L, path, g) == <<path, g>> \in L \/ \E k \in DOMAIN st : st[k].path = path /\ st[k].digest = g
Told(st, L, e) ==
    \E x \in Given(history) :
        /\ Seen(x) /\ x.path = e.path /\ e.digest = <<x.data, e.digest[2]>>
        /\ IF x.ref = NoValue THEN e.digest[2] = NoValue
           ELSE e.digest[2] # NoValue /\ e.digest[2] = <<"text", e.digest[2][2]>>
        /\ \A y \in Given(history) : x.ref = y.name => Held(st, L, y.path, e.digest[2][2])

\* A template takes what was made of the resource.
Referred(path) == \E x, y \in Given(history) : x.ref = y.name /\ y.path = path
Answers(e) == Referred(e.path) => e.response = NoValue \/ e.response = <<"text", e.digest>>

\* The target has what the state says it has, or the state says what is lost.
Shown(L, e) == Written(e.path) => live[e.path] = e.digest \/ <<e.path, e.digest>> \in L

Tracked(st, L) == \A k \in DOMAIN st : Told(st, L, st[k]) /\ Shown(L, st[k]) /\ Answers(st[k])

\* What is stored is in memory, or lost.
Behind(st, next, L) ==
    \A k \in DOMAIN st, l \in DOMAIN next :
        st[k].path = next[l].path => st[k].digest = next[l].digest \/ <<st[k].path, st[k].digest>> \in L

\* Where the run has been, nothing is lost.
Fresh(L) ==
    pc \notin {"idle", "failed"} /\ ~ignored => \A i \in Passed : \A k \in DOMAIN mem :
        mem[k].path = Commit[i].path => <<mem[k].path, mem[k].digest>> \notin L

Losses(L) ==
    /\ \A l \in L : Unwanted(L, l[1], l[2])
    /\ Tracked(mem, L) /\ Tracked(stored, L) /\ Behind(stored, mem, L) /\ Fresh(L)

Through == history.maxFaults > 0 => \E L : Losses(L)
-----------------------------------------------------------------------------
BaseInv == TypeInv /\ Known(mem) /\ Known(stored) /\ Kept /\ InOrder /\ Foreign

USE ApplyAssumption

LEMMA CommitIsSeq ==
    ASSUME NEW h \in Histories, NEW n \in DOMAIN h.commits
    PROVE  /\ Linted(h.commits[n])
           /\ h.commits[n] \in Seq(Resource)
           /\ DOMAIN h.commits[n] = 1..Len(h.commits[n])
           /\ Len(h.commits[n]) \in Nat
           /\ \A i \in DOMAIN h.commits[n] : h.commits[n][i] \in Resource
  <1>1. Linted(h.commits[n])
    BY HistoryAssumption
  <1>2. h.commits[n] \in Seq(Resource)
    BY <1>1 DEF Linted
  <1> QED
    BY <1>1, <1>2, LenProperties

\* The positions of what a resource depends on are those of its dependencies.
LEMMA DependencyHasPosition ==
    ASSUME NEW commit, Linted(commit), NEW i \in DOMAIN commit, NEW j \in DOMAIN commit
    PROVE  /\ DOMAIN DepPositions(commit) = DOMAIN commit
           /\ commit[j].name \in commit[i].deps <=> j \in DepPositions(commit)[i]
  <1>1. \A k \in DOMAIN commit : Position(commit, commit[k].name) = k
    BY DEF Linted, Position
  <1>2. ASSUME NEW d \in commit[i].deps
        PROVE  Position(commit, d) \in DOMAIN commit /\ commit[Position(commit, d)].name = d
    <2>1. PICK k \in DOMAIN commit : commit[k].name = d
      BY DEF Linted
    <2> QED
      BY <1>1, <2>1
  <1>3. DepPositions(commit)[i] = {Position(commit, d) : d \in commit[i].deps}
    BY DEF DepPositions
  <1>4. ASSUME commit[j].name \in commit[i].deps
        PROVE  j \in DepPositions(commit)[i]
    BY <1>1, <1>3, <1>4
  <1>5. ASSUME j \in DepPositions(commit)[i]
        PROVE  commit[j].name \in commit[i].deps
    BY <1>2, <1>3, <1>5
  <1> QED
    BY <1>4, <1>5 DEF DepPositions

\* An order of the commit is a list of its positions, each once, the dependencies first.
LEMMA OrderIsList ==
    ASSUME NEW commit \in Seq(Resource), Linted(commit),
           NEW s \in Kahn!Orders(DepPositions(commit))
    PROVE  /\ s \in Seq(DOMAIN commit) /\ Len(s) = Len(commit)
           /\ Elements(s) = DOMAIN commit
           /\ Once(s)
           /\ \A i \in DOMAIN s : DepPositions(commit)[s[i]] \subseteq {s[j] : j \in 1..(i - 1)}
  <1> DEFINE deps == DepPositions(commit)
  <1>1. DOMAIN deps = DOMAIN commit /\ DOMAIN commit = 1..Len(commit) /\ Len(commit) \in Nat
    BY LenProperties DEF DepPositions
  <1> HIDE DEF deps
  <1>2. /\ s \in [DOMAIN deps -> DOMAIN deps]
        /\ DOMAIN deps = Elements(s)
        /\ Kahn!FirstComeFirstServed(deps, s)
    BY DEF Kahn!Orders, Elements, deps
  <1>3. s \in Seq(DOMAIN commit) /\ Len(s) = Len(commit)
    BY <1>1, <1>2
  <1>4. ASSUME NEW i \in DOMAIN s, NEW j \in DOMAIN s, i < j
        PROVE  s[i] # s[j]
    <2>1. s[i] \in Nat /\ s[j] \in Nat
      BY <1>1, <1>2
    <2>2. Kahn!FreedNoLater(deps, s, s[j], s[i]) => s[i] < s[j]
      BY <1>2, <1>4 DEF Kahn!FirstComeFirstServed
    <2>3. Kahn!FreedNoLater(deps, s, s[i], s[j])
      BY <1>2, <1>4 DEF Kahn!FirstComeFirstServed
    <2> QED
      BY <2>1, <2>2, <2>3
  <1>5. Once(s)
    <2> SUFFICES ASSUME NEW i \in DOMAIN s, NEW j \in DOMAIN s, s[i] = s[j]
                 PROVE  i = j
      BY DEF Once
    <2>1. i \in Nat /\ j \in Nat
      BY <1>1, <1>2
    <2>2. ~(i < j) /\ ~(j < i)
      BY <1>4
    <2> QED
      BY <2>1, <2>2
  <1>6. \A i \in DOMAIN s : deps[s[i]] \subseteq {s[j] : j \in 1..(i - 1)}
    BY <1>2 DEF Kahn!FirstComeFirstServed
  <1> QED
    BY <1>1, <1>2, <1>3, <1>5, <1>6 DEF deps

\* The resource at hand.
LEMMA AtHand ==
    ASSUME TypeInv, Resources, todo # <<>>
    PROVE  /\ Head(todo) \in DOMAIN Commit /\ Tail(todo) \in Seq(DOMAIN Commit)
           /\ Head(todo) \in Elements(todo)
           /\ Elements(todo) = Elements(Tail(todo)) \cup {Head(todo)}
           /\ R \in Given(history) /\ R \in Resource
           /\ Linted(Commit) /\ at \in Ordered(history)
  <1>1. todo \in Seq(DOMAIN Commit) /\ at \in Ordered(history) /\ history \in Histories
    BY DEF TypeInv, Resources
  <1>2. /\ Head(todo) \in DOMAIN Commit /\ Tail(todo) \in Seq(DOMAIN Commit)
        /\ Len(todo) \in Nat \ {0} /\ DOMAIN todo = 1..Len(todo) /\ Head(todo) = todo[1]
        /\ DOMAIN Tail(todo) = 1..(Len(todo) - 1)
        /\ \A i \in 1..(Len(todo) - 1) : Tail(todo)[i] = todo[i + 1]
    BY <1>1, HeadTailProperties, LenProperties, EmptySeq
  <1>3. Elements(todo) = Elements(Tail(todo)) \cup {Head(todo)}
    <2>1. ASSUME NEW i \in DOMAIN todo, i # 1
          PROVE  i - 1 \in DOMAIN Tail(todo) /\ Tail(todo)[i - 1] = todo[i]
      BY <1>2, <2>1
    <2>2. ASSUME NEW i \in DOMAIN Tail(todo)
          PROVE  i + 1 \in DOMAIN todo /\ todo[i + 1] = Tail(todo)[i]
      BY <1>2
    <2>3. 1 \in DOMAIN todo
      BY <1>2
    <2>4. Elements(Tail(todo)) \cup {Head(todo)} \subseteq Elements(todo)
      BY <1>2, <2>2, <2>3 DEF Elements
    <2>5. ASSUME NEW i \in DOMAIN todo
          PROVE  todo[i] \in Elements(Tail(todo)) \cup {Head(todo)}
      BY <1>2, <2>1 DEF Elements
    <2> QED
      BY <2>4, <2>5 DEF Elements
  <1>4. at \in DOMAIN history.commits
    BY <1>1 DEF Ordered
  <1>5. Linted(Commit) /\ R \in Resource
    BY <1>1, <1>2, <1>4, CommitIsSeq DEF Commit, R
  <1>6. R \in Given(history)
    BY <1>1, <1>2 DEF R, Commit, Given
  <1> QED
    BY <1>1, <1>2, <1>3, <1>5, <1>6
-----------------------------------------------------------------------------
\* Operations on the state.
\* A number gets another form, and everything else stays.
Floated(e) == IF e.response # NoValue /\ e.response[1] = "number"
              THEN [e EXCEPT !.response[1] = "float"] ELSE e

LEMMA FloatedIs ==
    ASSUME NEW k, NEW e, From(k, e)
    PROVE  /\ From(k, Floated(e))
           /\ Floated(e).digest = e.digest /\ Floated(e).deps = e.deps
           /\ Floated(e).path = e.path /\ Floated(e).ignore = e.ignore
           /\ Floated(Floated(e)) = Floated(e)
           /\ e.path \notin Numeric => Floated(e) = e
  <1> DEFINE f == Floated(e)
  <1>1. e = Entry(e.digest, e.deps, e.ignore, e.response, e.path)
    BY DEF From, IsEntry
  <1>2. CASE e.response # NoValue /\ e.response[1] = "number"
    <2>1. PICK v, w : e.response = <<v, w>> /\ (e.path \notin Numeric => v = "text")
      BY <1>2 DEF From
    <2>2. v = "number" /\ e.path \in Numeric
      BY <1>2, <2>1
    <2>3. f = [e EXCEPT !.response = [e.response EXCEPT ![1] = "float"]]
      BY <1>1, <1>2 DEF Floated, Entry
    <2>4. [e.response EXCEPT ![1] = "float"] = <<"float", w>>
      BY <2>1
    <2>5. f = Entry(e.digest, e.deps, e.ignore, <<"float", w>>, e.path)
      BY <1>1, <2>3, <2>4 DEF Entry
    <2> HIDE DEF f
    <2>6. /\ f.digest = e.digest /\ f.deps = e.deps /\ f.ignore = e.ignore /\ f.path = e.path
          /\ f.response = <<"float", w>>
      BY <2>5 DEF Entry
    <2>7. IsEntry(f)
      BY <2>5, <2>6 DEF IsEntry
    <2>8. From(k, f)
      BY <2>2, <2>6, <2>7 DEF From
    <2>9. Floated(f) = f
      BY <2>6 DEF Floated
    <2> QED
      BY <2>2, <2>6, <2>8, <2>9 DEF f
  <1>3. CASE ~(e.response # NoValue /\ e.response[1] = "number")
    BY <1>3 DEF Floated
  <1> QED
    BY <1>2, <1>3

LEMMA LoadedIs ==
    ASSUME NEW st, Known(st)
    PROVE  /\ Known(Loaded(st)) /\ DOMAIN Loaded(st) = DOMAIN st
           /\ \A k \in DOMAIN st :
                 /\ Loaded(st)[k] = Floated(st[k])
                 /\ Loaded(st)[k].digest = st[k].digest /\ Loaded(st)[k].deps = st[k].deps
                 /\ Loaded(st)[k].path = st[k].path
                 /\ st[k].path \notin Numeric => Loaded(st)[k] = st[k]
           /\ Loaded(Loaded(st)) = Loaded(st)
  <1> DEFINE l == Loaded(st)
  <1>1. DOMAIN l = DOMAIN st /\ \A k \in DOMAIN st : l[k] = Floated(st[k])
    BY DEF Loaded, Floated
  <1>2. ASSUME NEW k \in DOMAIN st
        PROVE  /\ From(k, l[k])
               /\ l[k].digest = st[k].digest /\ l[k].deps = st[k].deps /\ l[k].path = st[k].path
               /\ Floated(l[k]) = l[k]
               /\ st[k].path \notin Numeric => l[k] = st[k]
    BY <1>1, FloatedIs DEF Known
  <1>3. Loaded(l) = [k \in DOMAIN l |-> Floated(l[k])]
    BY DEF Loaded, Floated
  <1>4. l = [k \in DOMAIN st |-> Floated(st[k])]
    BY DEF Loaded, Floated
  <1> HIDE DEF l
  <1>5. [k \in DOMAIN l |-> Floated(l[k])] = [k \in DOMAIN st |-> Floated(st[k])]
    BY <1>1, <1>2
  <1>6. Loaded(l) = l
    BY <1>3, <1>4, <1>5
  <1> QED
    BY <1>1, <1>2, <1>6 DEF l, Known

LEMMA KnownPut ==
    ASSUME NEW st, Known(st), NEW k, NEW e, From(k, e)
    PROVE  Known(Put(st, k, e))
  <1> DEFINE t == Put(st, k, e)
  <1>1. /\ DOMAIN t = DOMAIN st \cup {k} /\ t[k] = e
        /\ \A l \in DOMAIN st : l # k => t[l] = st[l]
    BY DEF Put
  <1> HIDE DEF t
  <1>2. ASSUME NEW l \in DOMAIN t
        PROVE  From(l, t[l])
    BY <1>1 DEF Known
  <1> QED
    BY <1>2 DEF Known, t

LEMMA KnownRemove ==
    ASSUME NEW st, Known(st), NEW k
    PROVE  Known(Remove(st, k))
  <1> DEFINE t == Remove(st, k)
  <1>1. DOMAIN t = DOMAIN st \ {k} /\ \A l \in DOMAIN st : l # k => t[l] = st[l]
    BY DEF Remove
  <1> HIDE DEF t
  <1>2. ASSUME NEW l \in DOMAIN t
        PROVE  From(l, t[l])
    BY <1>1 DEF Known
  <1> QED
    BY <1>2 DEF Known, t

\* The template is filled in.
LEMMA ResolveIs ==
    ASSUME NEW x, NEW st
    PROVE  /\ Resolve(x, st)[1] = x.data
           /\ \E v : Resolve(x, st) = <<x.data, v>> /\ (x.ref = NoValue => v = NoValue)
  BY DEF Resolve

\* The entry that a request makes, and the one that a rename keeps.
LEMMA RequestEntry ==
    ASSUME TypeInv, AtResource
    PROVE  From(R.name, Entry(Digest, R.deps, R.ignore, Response, R.path))
  <1> DEFINE e == Entry(Digest, R.deps, R.ignore, Response, R.path)
  <1>1. R \in Given(history)
    BY AtHand DEF AtResource, Resources
  <1>2. /\ e.digest = Digest /\ e.deps = R.deps /\ e.ignore = R.ignore
        /\ e.response = Response /\ e.path = R.path
    BY DEF Entry
  <1>3. IsEntry(e)
    BY <1>2 DEF IsEntry
  <1>4. \E v : e.digest = <<R.data, v>> /\ (R.ref = NoValue => v = NoValue)
    BY <1>2, ResolveIs DEF Digest
  <1>5. \/ e.response = NoValue
        \/ \E v, w : e.response = <<v, w>> /\ (e.path \notin Numeric => v = "text")
    BY <1>2 DEF Response
  <1> HIDE DEF e
  <1> QED
    BY <1>1, <1>2, <1>3, <1>4, <1>5 DEF From, e

LEMMA MigratedEntry ==
    ASSUME TypeInv, AtResource, NEW k \in SamePath, Migrates(k), Known(mem)
    PROVE  /\ [mem[k] EXCEPT !.path = R.path] = mem[k]
           /\ From(R.name, [mem[k] EXCEPT !.path = R.path])
  <1> DEFINE e == mem[k]
             f == [e EXCEPT !.path = R.path]
  <1>1. R \in Given(history)
    BY AtHand DEF AtResource, Resources
  <1>2. From(k, e) /\ e.path = R.path /\ e.digest = Digest
    BY DEF SamePath, Known, Migrates
  <1>3. f = Entry(e.digest, e.deps, e.ignore, e.response, R.path)
    BY <1>2 DEF From, IsEntry, Entry
  <1> HIDE DEF e, f
  <1>4. f = e
    BY <1>2, <1>3 DEF From, IsEntry
  <1>5. PICK x, y \in Given(history) :
            /\ x.name = k /\ x.path = e.path
            /\ \E v : e.digest = <<x.data, v>> /\ (x.ref = NoValue => v = NoValue)
            /\ y.path = x.path /\ y.data = x.data /\ y.deps = e.deps
    BY <1>2 DEF From
  <1>6. \E v : e.digest = <<R.data, v>> /\ (R.ref = NoValue => v = NoValue)
    BY <1>2, ResolveIs DEF Digest
  <1>7. x.data = R.data
    BY <1>5, <1>6
  <1> QED
    BY <1>1, <1>2, <1>4, <1>5, <1>6, <1>7 DEF From, e, f
-----------------------------------------------------------------------------
LEMMA HistoryStays == [Next]_vars => history' = history
  BY DEF Next, vars, Begin, LoadFails, Step, Crash, ResolveFails, SkipUnchanged, Migrate, Request,
         RequestFails, SaveCreate, StartDelete, Delete, DeleteFails, SaveDelete, Finish

\* The run is not at its beginning.
LEMMA AtStays == Step \/ Crash => at' = at /\ again' = again
  BY DEF Step, Crash, ResolveFails, SkipUnchanged, Migrate, Request,
         RequestFails, SaveCreate, StartDelete, Delete, DeleteFails, SaveDelete, Finish

\* What a run that begins has loaded and ordered.
LEMMA BeginIs ==
    ASSUME TypeInv, Begin
    PROVE  /\ pc' \in {"create", "failed"} /\ ignored' = FALSE /\ mem' = Loaded(stored)
           /\ UNCHANGED <<history, gone, stored, live, tolerant, faults>>
           /\ pc' = "create" =>
                 /\ at' \in Ordered(history) /\ Linted(Commit') /\ Commit' \in Seq(Resource)
                 /\ todo' \in Seq(DOMAIN Commit') /\ Len(todo') = Len(Commit')
                 /\ Elements(todo') = DOMAIN Commit'
                 /\ Once(todo')
                 /\ \A i \in DOMAIN todo' :
                       DepPositions(Commit')[todo'[i]] \subseteq {todo'[j] : j \in 1..(i - 1)}
           /\ again' => pc = "done" /\ ~ignored /\ at' = at
  <1>1. PICK n \in DOMAIN history.commits :
            /\ at' = n
            /\ IF Kahn!HasCycle(DepPositions(history.commits[n])) THEN pc' = "failed" /\ todo' = <<>>
               ELSE pc' = "create" /\ todo' \in Kahn!Orders(DepPositions(history.commits[n]))
            /\ again' = (pc = "done" /\ ~ignored /\ n = at)
    BY DEF Begin
  <1>2. /\ ignored' = FALSE /\ mem' = Loaded(stored)
        /\ UNCHANGED <<history, gone, stored, live, tolerant, faults>>
    BY DEF Begin
  <1>3. CASE Kahn!HasCycle(DepPositions(history.commits[n]))
    BY <1>1, <1>2, <1>3
  <1>4. CASE ~Kahn!HasCycle(DepPositions(history.commits[n]))
    <2> DEFINE c == history.commits[n]
    <2>1. pc' = "create" /\ todo' \in Kahn!Orders(DepPositions(c)) /\ n \in Ordered(history)
      BY <1>1, <1>4 DEF Ordered
    <2>2. Linted(c) /\ c \in Seq(Resource)
      BY CommitIsSeq DEF TypeInv
    <2>3. Commit' = c
      BY <1>1, <1>2 DEF Commit
    <2> HIDE DEF c
    <2>4. /\ todo' \in Seq(DOMAIN c) /\ Len(todo') = Len(c)
          /\ Elements(todo') = DOMAIN c
          /\ Once(todo')
          /\ \A i \in DOMAIN todo' : DepPositions(c)[todo'[i]] \subseteq {todo'[j] : j \in 1..(i - 1)}
      BY <2>1, <2>2, OrderIsList
    <2> QED
      BY <1>1, <1>2, <2>1, <2>2, <2>3, <2>4
  <1> QED
    BY <1>3, <1>4

LEMMA InitBase == Init => BaseInv
  <1> SUFFICES ASSUME Init PROVE BaseInv
    OBVIOUS
  <1>1. TypeInv
    BY HistoryAssumption DEF Init, TypeInv, Resources
  <1>2. Known(mem) /\ Known(stored)
    BY DEF Init, NoState, Known
  <1> QED
    BY <1>1, <1>2 DEF Init, BaseInv, Kept, InOrder, Resources, Foreign

LEMMA TypeStep == TypeInv /\ [Next]_vars => TypeInv'
  <1> SUFFICES ASSUME TypeInv, [Next]_vars PROVE TypeInv'
    OBVIOUS
  <1>1. history' = history
    BY HistoryStays
  <1>2. CASE Begin
    BY <1>2, BeginIs DEF TypeInv, Resources
  <1>3. CASE LoadFails
    BY <1>3, HistoryAssumption DEF LoadFails, TypeInv, Fault, Resources
  <1>4. CASE Crash
    BY <1>4, HistoryAssumption DEF Crash, TypeInv, Fault, Resources
  <1> DEFINE Same == at' = at /\ Commit' = Commit
  <1>5. ASSUME Step PROVE Same
    BY <1>1, <1>5, AtStays DEF Commit
  <1>6. ASSUME AtResource
        PROVE  Tail(todo) \in Seq(DOMAIN Commit)
    BY <1>6, AtHand DEF AtResource, Resources
  <1>7. CASE ResolveFails
    BY <1>1, <1>5, <1>6, <1>7 DEF Step, ResolveFails, GiveUpOrSkip, TypeInv, Resources, AtResource
  <1>8. CASE SkipUnchanged
    BY <1>1, <1>5, <1>6, <1>8 DEF Step, SkipUnchanged, Advance, TypeInv, Resources, AtResource
  <1>9. CASE Migrate
    BY <1>1, <1>5, <1>9 DEF Step, Migrate, TypeInv, Resources, AtResource
  <1>10. CASE Request
    BY <1>1, <1>5, <1>10 DEF Step, Request, NeedsRequest, TypeInv, Resources, AtResource
  <1>11. CASE RequestFails
    <2>1. AtResource /\ faults' = faults + 1 /\ DOMAIN live' = DOMAIN live
      BY <1>11 DEF RequestFails, NeedsRequest, Fault
    <2>2. Same
      BY <1>5, <1>11 DEF Step
    <2>3. \/ pc' = "create" /\ todo' = Tail(todo)
          \/ pc' = "failed" /\ todo' = <<>>
      BY <1>11 DEF RequestFails, GiveUpOrSkip
    <2> QED
      BY <1>1, <1>6, <2>1, <2>2, <2>3 DEF TypeInv, Resources, AtResource
  <1>12. CASE SaveCreate
    <2>1. Tail(todo) \in Seq(DOMAIN Commit)
      BY <1>12, AtHand DEF SaveCreate, TypeInv, Resources
    <2>2. faults' \in Nat
      BY <1>12 DEF SaveCreate, Works, Fault, TypeInv
    <2> QED
      BY <1>1, <1>5, <1>12, <2>1, <2>2
         DEF Step, SaveCreate, GiveUpOrSkip, Advance, TypeInv, Resources
  <1>13. CASE StartDelete
    BY <1>1, <1>5, <1>13 DEF Step, StartDelete, TypeInv, Resources
  <1>14. ASSUME NEW k \in Names, Delete(k) \/ DeleteFails(k)
         PROVE  TypeInv'
    <2>3. Same
      BY <1>5, <1>14 DEF Step
    <2>4. DOMAIN live' = DOMAIN live
      BY <1>14 DEF Delete, DeleteFails
    <2>5. faults' \in Nat
      BY <1>14 DEF Delete, DeleteFails, Fault, TypeInv
    <2>1. Same /\ DOMAIN live' = DOMAIN live /\ faults' \in Nat
      BY <2>3, <2>4, <2>5
    <2>2. pc = "delete" /\ todo' = todo /\ pc' \in {"delete", "saveDelete", "failed"}
      BY <1>14 DEF Delete, DeleteFails
    <2> QED
      BY <1>1, <2>1, <2>2 DEF TypeInv, Resources
  <1>15. CASE SaveDelete
    <2>1. faults' \in Nat
      BY <1>15 DEF SaveDelete, Works, Fault, TypeInv
    <2> QED
      BY <1>1, <1>5, <1>15, <2>1 DEF Step, SaveDelete, TypeInv, Resources
  <1>16. CASE Finish
    BY <1>1, <1>5, <1>16 DEF Step, Finish, TypeInv, Resources
  <1>17. CASE UNCHANGED vars
    BY <1>17 DEF vars, TypeInv, Resources, Commit
  <1> QED
    BY <1>2, <1>3, <1>4, <1>7, <1>8, <1>9, <1>10, <1>11, <1>12, <1>13, <1>14, <1>15, <1>16, <1>17
       DEF Next, Step

\* The steps that change the state in memory.
LEMMA KnownStep ==
    ASSUME TypeInv, Known(mem), Known(stored), [Next]_vars
    PROVE  Known(mem)' /\ Known(stored)'
  <1>1. \A k, e : From(k, e)' <=> From(k, e)
    BY HistoryStays DEF From
  <1>2. CASE Begin
    BY <1>1, <1>2, BeginIs, LoadedIs DEF Known
  <1>3. CASE LoadFails \/ ResolveFails \/ SkipUnchanged \/ RequestFails \/ StartDelete \/ Finish
          \/ (\E k \in Names : DeleteFails(k)) \/ UNCHANGED vars
    BY <1>1, <1>3 DEF Known, LoadFails, ResolveFails, SkipUnchanged, RequestFails, StartDelete, Finish,
                      DeleteFails, vars
  <1>4. CASE Crash \/ SaveCreate \/ SaveDelete
    BY <1>1, <1>4 DEF Known, Crash, SaveCreate, SaveDelete
  <1>5. CASE Request
    <2> DEFINE e == Entry(Digest, R.deps, R.ignore, Response, R.path)
    <2>1. AtResource /\ mem' = Put(mem, R.name, e) /\ stored' = stored
      BY <1>5 DEF Request, NeedsRequest
    <2>2. From(R.name, e)
      BY <2>1, RequestEntry
    <2> HIDE DEF e
    <2>3. Known(mem')
      BY <2>1, <2>2, KnownPut
    <2> QED
      BY <1>1, <2>1, <2>3 DEF Known
  <1>6. CASE Migrate
    <2>1. PICK k \in SamePath :
              /\ Migrates(k)
              /\ mem' = Put(Remove(mem, k), R.name, [mem[k] EXCEPT !.path = R.path])
      BY <1>6 DEF Migrate
    <2> DEFINE e == [mem[k] EXCEPT !.path = R.path]
    <2>2. From(R.name, e) /\ stored' = stored
      BY <1>6, <2>1, MigratedEntry DEF Migrate
    <2>3. mem' = Put(Remove(mem, k), R.name, e)
      BY <2>1
    <2> HIDE DEF e
    <2>4. Known(Remove(mem, k))
      BY KnownRemove
    <2>5. Known(mem')
      BY <2>2, <2>3, <2>4, KnownPut
    <2> QED
      BY <1>1, <2>2, <2>5 DEF Known
  <1>7. ASSUME NEW k \in Names, Delete(k)
        PROVE  Known(mem)' /\ Known(stored)'
    <2>1. mem' = Remove(mem, k) /\ stored' = stored
      BY <1>7 DEF Delete
    <2>2. Known(mem')
      BY <2>1, KnownRemove
    <2> QED
      BY <1>1, <2>1, <2>2 DEF Known
  <1> QED
    BY <1>2, <1>3, <1>4, <1>5, <1>6, <1>7 DEF Next, Step

LEMMA KeptStep ==
    ASSUME TypeInv, Known(stored), Kept, [Next]_vars
    PROVE  Kept'
  <1>1. CASE Begin
    BY <1>1, BeginIs, LoadedIs DEF Kept
  <1>2. CASE LoadFails \/ Crash
    BY <1>2 DEF LoadFails, Crash, Fault, TypeInv, Kept
  <1>3. CASE ResolveFails \/ SkipUnchanged
    BY <1>3 DEF ResolveFails, SkipUnchanged, GiveUpOrSkip, AtResource, Kept, Clean
  <1>4. CASE Migrate \/ Request \/ \E k \in Names : Delete(k)
    BY <1>4 DEF Migrate, Request, Delete, Kept
  <1>5. CASE RequestFails
    BY <1>5 DEF RequestFails, GiveUpOrSkip, Fault, TypeInv, Kept, Clean
  <1>6. CASE SaveCreate
    BY <1>6 DEF SaveCreate, GiveUpOrSkip, Fault, TypeInv, Kept, Clean
  <1>7. CASE StartDelete \/ Finish
    BY <1>7 DEF StartDelete, Finish, Kept, Clean
  <1>8. ASSUME NEW k \in Names, DeleteFails(k)
        PROVE  Kept'
    BY <1>8 DEF DeleteFails, Fault, TypeInv, Kept, Clean
  <1>9. CASE SaveDelete
    BY <1>9 DEF SaveDelete, Fault, TypeInv, Kept, Clean
  <1>10. CASE UNCHANGED vars
    BY <1>10 DEF vars, Kept, Clean
  <1> QED
    BY <1>1, <1>2, <1>3, <1>4, <1>5, <1>6, <1>7, <1>8, <1>9, <1>10 DEF Next, Step

\* What the rest of the order is about: the positions that are still to go through, in
\* turn, among the positions of a commit.
LEMMA InOrderStep ==
    ASSUME TypeInv, TypeInv', InOrder, [Next]_vars
    PROVE  InOrder'
  <1> SUFFICES ASSUME Resources' PROVE InOrder'
    BY DEF InOrder
  <1> DEFINE deps == DepPositions(Commit)
  <1>1. CASE Begin
    <2> DEFINE dep == DepPositions(Commit')
    <2>1. /\ todo' \in Seq(DOMAIN Commit') /\ Elements(todo') = DOMAIN Commit' /\ Once(todo')
          /\ \A i \in DOMAIN todo' : dep[todo'[i]] \subseteq {todo'[j] : j \in 1..(i - 1)}
      BY <1>1, BeginIs DEF Resources
    <2>2. DOMAIN todo' = 1..Len(todo') /\ Len(todo') \in Nat
      BY <2>1, LenProperties
    <2> HIDE DEF dep
    <2>3. ASSUME NEW j \in DOMAIN todo', NEW l \in j..Len(todo'), todo'[l] \in dep[todo'[j]]
          PROVE  FALSE
      <3>1. PICK m \in 1..(j - 1) : todo'[m] = todo'[l]
        BY <2>1, <2>3
      <3>2. m \in DOMAIN todo' /\ l \in DOMAIN todo' /\ m # l
        BY <2>2
      <3> QED
        BY <2>1, <3>1, <3>2 DEF Once
    <2> QED
      BY <2>1, <2>3 DEF InOrder, dep
  <1>2. ASSUME Step, Resources, todo' = todo
        PROVE  InOrder'
    <2>1. Commit' = Commit
      BY <1>2, AtStays, HistoryStays DEF Commit
    <2> QED
      BY <1>2, <2>1 DEF InOrder
  <1>3. ASSUME Step, Resources, todo # <<>>, todo' = Tail(todo)
        PROVE  InOrder'
    <2> DEFINE n == Len(todo)
               t == Tail(todo)
    <2>1. Commit' = Commit
      BY <1>3, AtStays, HistoryStays DEF Commit
    <2>2. todo \in Seq(DOMAIN Commit)
      BY <1>3 DEF TypeInv
    <2>3. /\ n \in Nat \ {0} /\ DOMAIN todo = 1..n /\ Head(todo) = todo[1] /\ Head(todo) \in DOMAIN Commit
          /\ Len(t) = n - 1 /\ DOMAIN t = 1..(n - 1)
          /\ \A i \in 1..(n - 1) : t[i] = todo[i + 1]
      BY <1>3, <2>2, HeadTailProperties, LenProperties, EmptySeq
    <2>4. Elements(todo) = Elements(t) \cup {Head(todo)}
      BY <1>3, AtHand
    <2>5. /\ Once(todo)
          /\ \A j \in DOMAIN todo : deps[todo[j]] \cap {todo[l] : l \in j..n} = {}
          /\ \A i \in DOMAIN Commit \ Elements(todo) : deps[i] \cap Elements(todo) = {}
      BY <1>3 DEF InOrder
    <2> HIDE DEF n, t, deps
    <2>6. Once(t)
      <3>1. ASSUME NEW i \in DOMAIN t, NEW j \in DOMAIN t, t[i] = t[j]
            PROVE  i = j
        <4>1. /\ i + 1 \in DOMAIN todo /\ j + 1 \in DOMAIN todo
              /\ t[i] = todo[i + 1] /\ t[j] = todo[j + 1]
          BY <2>3
        <4>2. i + 1 = j + 1
          BY <2>5, <3>1, <4>1 DEF Once
        <4> QED
          BY <2>3, <4>2
      <3> QED
        BY <3>1 DEF Once
    <2>7. ASSUME NEW j \in DOMAIN t, NEW l \in j..Len(t), t[l] \in deps[t[j]]
          PROVE  FALSE
      <3>1. /\ j + 1 \in DOMAIN todo /\ l + 1 \in (j + 1)..n
            /\ t[j] = todo[j + 1] /\ t[l] = todo[l + 1]
        BY <2>3
      <3> QED
        BY <2>5, <2>7, <3>1
    <2>8. ASSUME NEW i \in DOMAIN Commit \ Elements(t)
          PROVE  deps[i] \cap Elements(t) = {}
      <3>1. CASE i \notin Elements(todo)
        BY <2>4, <2>5, <3>1
      <3>2. CASE i = Head(todo)
        <4>1. 1 \in DOMAIN todo /\ i = todo[1]
          BY <2>3, <3>2
        <4>2. deps[i] \cap {todo[l] : l \in 1..n} = {}
          BY <2>5, <4>1
        <4>3. Elements(t) \subseteq {todo[l] : l \in 1..n}
          BY <2>3, <2>4 DEF Elements
        <4> QED
          BY <4>2, <4>3
      <3> QED
        BY <2>4, <3>1, <3>2
    <2> QED
      BY <1>3, <2>1, <2>6, <2>7, <2>8 DEF InOrder, t, deps
  <1>4. CASE LoadFails \/ Crash
    BY <1>4 DEF LoadFails, Crash, Resources
  <1>5. CASE ResolveFails \/ RequestFails
    <2>1. AtResource /\ todo' = Tail(todo)
      BY <1>5 DEF ResolveFails, RequestFails, NeedsRequest, GiveUpOrSkip, Resources
    <2> QED
      BY <1>3, <1>5, <2>1 DEF AtResource, Resources, Step
  <1>6. CASE SkipUnchanged
    BY <1>3, <1>6 DEF SkipUnchanged, Advance, AtResource, Resources, Step
  <1>7. CASE Migrate
    BY <1>2, <1>7 DEF Migrate, AtResource, Resources, Step
  <1>8. CASE Request
    BY <1>2, <1>8 DEF Request, NeedsRequest, AtResource, Resources, Step
  <1>9. CASE SaveCreate
    <2>1. pc = "saveCreate" /\ todo' = Tail(todo)
      BY <1>9 DEF SaveCreate, GiveUpOrSkip, Advance, Resources
    <2> QED
      BY <1>3, <1>9, <2>1 DEF TypeInv, Resources, Step
  <1>10. CASE StartDelete \/ (\E k \in Names : Delete(k) \/ DeleteFails(k)) \/ SaveDelete \/ Finish
    BY <1>10 DEF StartDelete, Delete, DeleteFails, SaveDelete, Finish, Resources
  <1>11. CASE UNCHANGED vars
    BY <1>11 DEF vars, InOrder, Resources, Commit
  <1> QED
    BY <1>1, <1>4, <1>5, <1>6, <1>7, <1>8, <1>9, <1>10, <1>11 DEF Next, Step

LEMMA ForeignStep == Foreign /\ [Next]_vars => Foreign'
  <1> SUFFICES ASSUME Foreign, [Next]_vars PROVE Foreign'
    OBVIOUS
  <1>1. Step => CommitNames' = CommitNames
    BY AtStays, HistoryStays DEF CommitNames, Commit
  <1>2. CASE Begin \/ LoadFails \/ Crash \/ ResolveFails \/ SkipUnchanged \/ Migrate \/ Request
             \/ RequestFails \/ SaveCreate \/ Finish
    BY <1>2 DEF Begin, LoadFails, Crash, ResolveFails, SkipUnchanged, Migrate, Request, RequestFails,
                SaveCreate, Finish, NeedsRequest, AtResource, GiveUpOrSkip, Foreign
  <1>3. CASE StartDelete
    BY <1>1, <1>3 DEF Step, StartDelete, CommitNames, Foreign
  <1>4. ASSUME NEW k \in Names, Delete(k)
        PROVE  Foreign'
    <2>1. CommitNames' = CommitNames /\ gone' = gone \ {k} /\ pc = "delete" /\ mem' = Remove(mem, k)
      BY <1>1, <1>4 DEF Step, Delete
    <2>2. DOMAIN mem' = DOMAIN mem \ {k}
      BY <2>1 DEF Remove
    <2> QED
      BY <2>1, <2>2 DEF Foreign
  <1>5. ASSUME NEW k \in Names, DeleteFails(k)
        PROVE  Foreign'
    <2>1. CommitNames' = CommitNames /\ gone' \subseteq gone /\ pc = "delete" /\ mem' = mem
      BY <1>1, <1>5 DEF Step, DeleteFails
    <2> QED
      BY <2>1 DEF Foreign
  <1>6. CASE SaveDelete
    <2>1. CommitNames' = CommitNames /\ gone' \subseteq gone /\ pc = "saveDelete" /\ mem' = mem
      BY <1>1, <1>6 DEF Step, SaveDelete
    <2> QED
      BY <2>1 DEF Foreign
  <1>7. CASE UNCHANGED vars
    BY <1>7 DEF vars, Foreign, CommitNames, Commit
  <1> QED
    BY <1>2, <1>3, <1>4, <1>5, <1>6, <1>7 DEF Next, Step

LEMMA BaseStep == BaseInv /\ [Next]_vars => BaseInv'
  BY TypeStep, KnownStep, KeptStep, InOrderStep, ForeignStep DEF BaseInv

\* What the entries of the state and the order of a run are, for every history.
THEOREM BaseInvariance == Spec => []BaseInv
  BY InitBase, BaseStep, PTL DEF Spec
-----------------------------------------------------------------------------
LEMMA GivenIs ==
    ASSUME TypeInv, NEW x \in Given(history)
    PROVE  x \in Resource
  <1>1. PICK n \in Ordered(history) : x \in {history.commits[n][i] : i \in DOMAIN history.commits[n]}
    BY DEF Given
  <1>2. n \in DOMAIN history.commits
    BY DEF Ordered
  <1> QED
    BY <1>1, <1>2, CommitIsSeq DEF TypeInv

LEMMA CommitIsGiven ==
    ASSUME TypeInv, pc \notin {"idle", "failed"}
    PROVE  /\ \A i \in DOMAIN Commit : Commit[i] \in Given(history)
           /\ Linted(Commit) /\ at \in Ordered(history)
  <1>1. at \in Ordered(history) /\ at \in DOMAIN history.commits /\ history \in Histories
    BY DEF TypeInv, Ordered
  <1> QED
    BY <1>1, CommitIsSeq DEF Commit, Given

\* The keys of the state are names.
LEMMA KeysAreNames ==
    ASSUME TypeInv, Known(mem)
    PROVE  DOMAIN mem \subseteq Names
  BY GivenIs DEF Known, From, Resource

\* What is left to delete waits for nothing but itself, and dependencies have one
\* direction.
LEMMA SomethingIsDeletable ==
    ASSUME \A h \in Histories : OneDirection(h), BaseInv, gone \subseteq DOMAIN mem, gone # {}
    PROVE  \E k \in gone : Deletable(k)
  <1>1. TypeInv /\ Known(mem) /\ OneDirection(history)
    BY DEF BaseInv, TypeInv
  <1>2. gone \in (SUBSET Names) \ {{}}
    <2>1. DOMAIN mem \subseteq Names
      BY <1>1, KeysAreNames
    <2> QED
      BY <2>1
  <1>3. PICK k \in gone : \A x, y \in Given(history) :
            x.name = k /\ y.path = x.path /\ y.data = x.data => y.deps \cap gone = {}
    BY <1>1, <1>2 DEF OneDirection
  <1>4. From(k, mem[k])
    BY <1>1 DEF Known
  <1>5. mem[k].deps \cap gone = {}
    BY <1>3, <1>4 DEF From
  <1> QED
    BY <1>5 DEF Deletable

LEMMA RemovingStep ==
    ASSUME \A h \in Histories : OneDirection(h), BaseInv, Removing, [Next]_vars
    PROVE  Removing'
  <1>1. TypeInv
    BY DEF BaseInv
  <1>2. Step => CommitNames' = CommitNames
    BY AtStays, HistoryStays DEF CommitNames, Commit
  <1>3. CASE Begin
    BY <1>1, <1>3, BeginIs DEF Removing
  <1>4. CASE LoadFails \/ Crash \/ ResolveFails \/ SkipUnchanged \/ Migrate \/ Request \/ RequestFails
             \/ SaveCreate
    BY <1>4 DEF LoadFails, Crash, ResolveFails, SkipUnchanged, Migrate, Request, RequestFails, SaveCreate,
                NeedsRequest, AtResource, GiveUpOrSkip, Removing
  <1>5. CASE StartDelete
    <2>1. CommitNames' = CommitNames /\ gone' = DOMAIN mem \ CommitNames /\ mem' = mem /\ pc' = "delete"
      BY <1>2, <1>5 DEF Step, StartDelete, CommitNames
    <2> QED
      BY <2>1 DEF Removing
  <1>6. ASSUME NEW k \in Names, Delete(k)
        PROVE  Removing'
    <2>1. /\ CommitNames' = CommitNames /\ gone' = gone \ {k} /\ pc = "delete" /\ pc' = "saveDelete"
          /\ mem' = Remove(mem, k) /\ faults' = faults /\ ignored' = ignored
      BY <1>2, <1>6 DEF Step, Delete
    <2>2. DOMAIN mem' = DOMAIN mem \ {k}
      BY <2>1 DEF Remove
    <2> QED
      BY <2>1, <2>2 DEF Removing, Clean
  <1>7. ASSUME NEW k \in Names, DeleteFails(k)
        PROVE  Removing'
    <2>1. /\ CommitNames' = CommitNames /\ pc = "delete" /\ mem' = mem /\ faults' = faults + 1
          /\ \/ pc' = "delete" /\ gone' = gone \ {k} /\ ignored' = TRUE
             \/ pc' = "failed"
      BY <1>2, <1>7 DEF Step, DeleteFails, Fault
    <2>2. faults' # 0
      BY <1>1, <2>1 DEF TypeInv
    <2> QED
      BY <2>1, <2>2 DEF Removing, Clean
  <1>8. CASE SaveDelete
    <2>1. /\ CommitNames' = CommitNames /\ pc = "saveDelete" /\ mem' = mem
          /\ \/ pc' = "delete" /\ gone' = gone /\ ignored' = ignored /\ faults' = faults
             \/ pc' = "delete" /\ gone' = gone /\ ignored' = TRUE /\ faults' = faults + 1
             \/ pc' = "failed"
      BY <1>2, <1>8 DEF Step, SaveDelete, Works, Fault
    <2>2. faults' = faults + 1 => faults' # 0
      BY <1>1 DEF TypeInv
    <2> QED
      BY <2>1, <2>2 DEF Removing, Clean
  <1>9. CASE Finish
    <2>1. /\ CommitNames' = CommitNames /\ pc = "delete" /\ pc' = "done" /\ mem' = mem
          /\ faults' = faults /\ ignored' = ignored /\ \A k \in gone : ~Deletable(k)
      BY <1>2, <1>9 DEF Step, Finish
    <2>2. gone = {}
      BY <2>1, SomethingIsDeletable DEF BaseInv, Foreign
    <2> QED
      BY <2>1, <2>2 DEF Removing, Clean
  <1>10. CASE UNCHANGED vars
    BY <1>10 DEF vars, Removing, CommitNames, Commit, Clean
  <1> QED
    BY <1>3, <1>4, <1>5, <1>6, <1>7, <1>8, <1>9, <1>10 DEF Next, Step

\* An entry has the path of the resources of its name.
LEMMA EntryHasPath ==
    ASSUME PathsStay(history), Known(mem), NEW x \in Given(history), x.name \in DOMAIN mem
    PROVE  mem[x.name].path = x.path
  BY DEF PathsStay, Known, From

LEMMA CoveredStep ==
    ASSUME \A h \in Histories : PathsStay(h), BaseInv, Covered, [Next]_vars
    PROVE  Covered'
  <1>1. TypeInv /\ PathsStay(history) /\ Known(mem) /\ Known(stored) /\ DOMAIN live = Paths
    BY DEF BaseInv, TypeInv
  <1> SUFFICES ASSUME faults' = 0, NEW path \in Paths \ Undeletable, live'[path] # NoValue
               PROVE  \E k \in DOMAIN mem' : mem'[k].path = path
    BY DEF Covered
  <1>2. faults = 0 /\ faults' # faults + 1
    <2>1. faults' = faults \/ faults' = faults + 1
      BY DEF Next, Begin, LoadFails, Step, ResolveFails, SkipUnchanged, Migrate, Request, RequestFails,
             SaveCreate, StartDelete, Delete, DeleteFails, SaveDelete, Finish, Crash, Fault, Works, vars
    <2> QED
      BY <1>1, <2>1 DEF TypeInv
  <1>3. ASSUME live'[path] = live[path]
        PROVE  \E k \in DOMAIN mem : mem[k].path = path
    BY <1>2, <1>3 DEF Covered
  <1>4. CASE Begin
    <2>1. live' = live /\ mem' = Loaded(stored) /\ pc \notin {"saveCreate", "saveDelete", "create", "delete"}
      BY <1>1, <1>4, BeginIs DEF Begin, Running
    <2>2. Loaded(stored) = Loaded(mem)
      BY <1>1, <1>2, <2>1 DEF BaseInv, Kept, Clean, TypeInv
    <2>3. PICK k \in DOMAIN mem : mem[k].path = path
      BY <1>3, <2>1
    <2>4. k \in DOMAIN mem' /\ mem'[k].path = path
      BY <1>1, <2>1, <2>2, <2>3, LoadedIs
    <2> QED
      BY <2>4
  <1>5. CASE ResolveFails \/ SkipUnchanged \/ SaveCreate \/ StartDelete \/ SaveDelete \/ Finish
             \/ UNCHANGED vars
    BY <1>3, <1>5 DEF ResolveFails, SkipUnchanged, SaveCreate, StartDelete, SaveDelete, Finish, vars
  <1>6. CASE LoadFails \/ RequestFails \/ (\E k \in Names : DeleteFails(k)) \/ Crash
    BY <1>2, <1>6 DEF LoadFails, RequestFails, DeleteFails, Crash, Fault
  <1>7. CASE Request
    <2> DEFINE e == Entry(Digest, R.deps, R.ignore, Response, R.path)
    <2>1. /\ AtResource /\ mem' = Put(mem, R.name, e)
          /\ live' = live \/ live' = [live EXCEPT ![R.path] = Digest]
      BY <1>7 DEF Request, NeedsRequest
    <2>2. R \in Given(history)
      BY <1>1, <2>1, AtHand DEF AtResource, Resources
    <2>3. e.path = R.path
      BY DEF Entry
    <2> HIDE DEF e
    <2>4. /\ DOMAIN mem' = DOMAIN mem \cup {R.name} /\ mem'[R.name] = e
          /\ \A l \in DOMAIN mem : l # R.name => mem'[l] = mem[l]
      BY <2>1 DEF Put
    <2>5. CASE path = R.path
      BY <2>3, <2>4, <2>5
    <2>6. CASE path # R.path
      <3>1. live'[path] = live[path]
        BY <1>1, <2>1, <2>6
      <3>2. PICK k \in DOMAIN mem : mem[k].path = path
        BY <1>3, <3>1
      <3>3. k # R.name
        BY <1>1, <2>2, <2>6, <3>2, EntryHasPath
      <3> QED
        BY <2>4, <3>2, <3>3
    <2> QED
      BY <2>5, <2>6
  <1>8. CASE Migrate
    <2>1. PICK k \in SamePath :
              /\ Migrates(k)
              /\ mem' = Put(Remove(mem, k), R.name, [mem[k] EXCEPT !.path = R.path])
      BY <1>8 DEF Migrate
    <2> DEFINE e == [mem[k] EXCEPT !.path = R.path]
    <2>2. From(R.name, e) /\ live' = live /\ AtResource
      BY <1>1, <1>8, <2>1, MigratedEntry DEF Migrate
    <2>3. e.path = R.path
      BY <1>1, <1>8, <2>1, MigratedEntry DEF Migrate, SamePath
    <2>4. mem' = Put(Remove(mem, k), R.name, e) /\ R.name \notin DOMAIN mem /\ mem[k].path = R.path
      BY <2>1 DEF Migrates, SamePath
    <2> HIDE DEF e
    <2>5. /\ DOMAIN mem' = (DOMAIN mem \ {k}) \cup {R.name} /\ mem'[R.name] = e
          /\ \A l \in DOMAIN mem : l # k => mem'[l] = mem[l]
      BY <2>4 DEF Put, Remove
    <2>6. PICK l \in DOMAIN mem : mem[l].path = path
      BY <1>3, <2>2
    <2> QED
      BY <2>3, <2>4, <2>5, <2>6
  <1>9. ASSUME NEW k \in Names, Delete(k)
        PROVE  \E l \in DOMAIN mem' : mem'[l].path = path
    <2>1. /\ mem' = Remove(mem, k)
          /\ live' = IF mem[k].path \in Undeletable THEN live ELSE [live EXCEPT ![mem[k].path] = NoValue]
      BY <1>9 DEF Delete
    <2>2. mem[k].path # path /\ live'[path] = live[path]
      BY <1>1, <2>1
    <2>3. DOMAIN mem' = DOMAIN mem \ {k} /\ \A l \in DOMAIN mem : l # k => mem'[l] = mem[l]
      BY <2>1 DEF Remove
    <2>4. PICK l \in DOMAIN mem : mem[l].path = path
      BY <1>3, <2>2
    <2> QED
      BY <2>2, <2>3, <2>4
  <1> QED
    BY <1>4, <1>5, <1>6, <1>7, <1>8, <1>9 DEF Next, Step

\* NothingLeftBehind, for histories whose names keep their paths and whose dependencies
\* are never turned round: after a success, if nothing has failed so far, what is on
\* the target is in the commit (apply.go:128).
THEOREM NothingIsLeftBehind ==
    ASSUME \A h \in Histories : PathsStay(h) /\ OneDirection(h)
    PROVE  Spec => []NothingLeftBehind
  <1> DEFINE Inv == BaseInv /\ Removing /\ Covered
  <1>1. Init => Inv
    <2> SUFFICES ASSUME Init PROVE Inv
      OBVIOUS
    <2>1. BaseInv
      BY InitBase
    <2> QED
      BY <2>1 DEF Init, Removing, Covered
  <1>2. Inv /\ [Next]_vars => Inv'
    BY BaseStep, RemovingStep, CoveredStep
  <1>3. ASSUME Inv PROVE NothingLeftBehind
    <2> SUFFICES ASSUME Succeeded, faults = 0, NEW path \in Paths \ Undeletable, live[path] # NoValue
                 PROVE  \E i \in DOMAIN Commit : Commit[i].path = path
      BY DEF NothingLeftBehind
    <2>1. TypeInv /\ Known(mem) /\ PathsStay(history) /\ pc = "done"
      BY <1>3 DEF BaseInv, TypeInv, Succeeded
    <2>2. PICK k \in DOMAIN mem : mem[k].path = path
      BY <1>3 DEF Covered
    <2>3. k \in CommitNames
      BY <1>3, <2>1, <2>2 DEF Removing, Clean
    <2>4. PICK i \in DOMAIN Commit : Commit[i].name = k
      BY <2>3 DEF CommitNames
    <2>5. Commit[i] \in Given(history)
      BY <2>1, CommitIsGiven
    <2> QED
      BY <2>1, <2>2, <2>4, <2>5, EntryHasPath
  <1> QED
    BY <1>1, <1>2, <1>3, PTL DEF Spec
-----------------------------------------------------------------------------
\* What is in place depends on two entries only.
LEMMA InPlaceStays ==
    ASSUME NEW st, NEW next, NEW x, InPlace(st, x),
           x.name \in DOMAIN next, next[x.name].digest = st[x.name].digest,
           x.ref # NoValue => x.ref \in DOMAIN next /\ next[x.ref].response = st[x.ref].response
    PROVE  InPlace(next, x)
  <1>1. Resolve(x, next) = Resolve(x, st)
    BY DEF Resolve
  <1>2. CanResolve(x, next)
    BY DEF InPlace, CanResolve
  <1> QED
    BY <1>1, <1>2 DEF InPlace

\* A template names a resource of the commit.
LEMMA RefIsGiven ==
    ASSUME TypeInv, pc \notin {"idle", "failed"}, RefsAreDeps(history), NEW i \in DOMAIN Commit,
           Commit[i].ref # NoValue
    PROVE  \E j \in DOMAIN Commit : Commit[j].name = Commit[i].ref /\ Commit[j].name \in Commit[i].deps
  <1>1. Commit[i] \in Given(history) /\ Linted(Commit)
    BY CommitIsGiven
  <1>2. Commit[i].ref \in Commit[i].deps
    BY <1>1 DEF RefsAreDeps
  <1>3. Commit[i].deps \subseteq {Commit[j].name : j \in DOMAIN Commit}
    BY <1>1 DEF Linted
  <1> QED
    BY <1>2, <1>3

\* What the resource at hand, or one that the run has been through, depends on: the run
\* has been through it.
LEMMA DependenciesPassed ==
    ASSUME TypeInv, InOrder, pc = "create", todo # <<>>
    PROVE  /\ Head(todo) \notin Passed
           /\ \A i \in Passed \cup {Head(todo)}, j \in DOMAIN Commit :
                 Commit[j].name \in Commit[i].deps => j \in Passed
  <1> DEFINE deps == DepPositions(Commit)
  <1>1. Head(todo) \in Elements(todo) /\ Linted(Commit) /\ Head(todo) \in DOMAIN Commit
    BY AtHand DEF Resources
  <1>2. Passed = DOMAIN Commit \ Elements(todo)
    BY DEF Passed
  <1>3. /\ \A j \in DOMAIN todo : deps[todo[j]] \cap {todo[l] : l \in j..Len(todo)} = {}
        /\ \A i \in DOMAIN Commit \ Elements(todo) : deps[i] \cap Elements(todo) = {}
    BY DEF InOrder, Resources
  <1>4. deps[Head(todo)] \cap Elements(todo) = {}
    <2>1. todo \in Seq(DOMAIN Commit)
      BY DEF TypeInv, Resources
    <2>2. Head(todo) = todo[1] /\ DOMAIN todo = 1..Len(todo) /\ 1 \in DOMAIN todo
      BY <2>1, HeadTailProperties, LenProperties, EmptySeq
    <2> HIDE DEF deps
    <2>3. deps[todo[1]] \cap {todo[l] : l \in 1..Len(todo)} = {}
      BY <1>3, <2>2
    <2> QED
      BY <2>2, <2>3 DEF Elements
  <1> HIDE DEF deps
  <1>5. ASSUME NEW i \in Passed \cup {Head(todo)}, NEW j \in DOMAIN Commit,
               Commit[j].name \in Commit[i].deps
        PROVE  j \in Passed
    <2>1. i \in DOMAIN Commit
      BY <1>1, <1>2
    <2>2. j \in deps[i]
      BY <1>1, <1>5, <2>1, DependencyHasPosition DEF deps
    <2> QED
      BY <1>2, <1>3, <1>4, <2>2
  <1> QED
    BY <1>1, <1>2, <1>5

\* The second phase comes after the first.
LEMMA AllPassed ==
    ASSUME TypeInv, pc \in {"delete", "saveDelete", "done"}
    PROVE  Passed = DOMAIN Commit
  <1>1. todo = <<>> /\ Elements(<<>>) = {}
    BY DEF TypeInv, Elements
  <1> QED
    BY <1>1 DEF Passed

\* The run comes to the next resource.
LEMMA PassedGrows ==
    ASSUME TypeInv, Resources, todo # <<>>, Commit' = Commit, pc' \in {"create", "saveCreate"},
           todo' = IF pc' = "saveCreate" THEN todo ELSE Tail(todo)
    PROVE  /\ Passed' \subseteq Passed \cup {Head(todo)}
           /\ pc = "saveCreate" => Passed' = Passed
  <1>1. Elements(todo) = Elements(Tail(todo)) \cup {Head(todo)}
    BY AtHand
  <1>2. Passed' = DOMAIN Commit \ Elements(Tail(todo))
    BY DEF Passed, Elements
  <1>3. Passed = DOMAIN Commit \ Elements(IF pc = "saveCreate" THEN Tail(todo) ELSE todo)
    BY DEF Passed
  <1> QED
    BY <1>1, <1>2, <1>3

\* A request puts its resource in place, and what the run has been through stays there.
LEMMA RequestInPlace ==
    ASSUME TypeInv, InOrder, RefsAreDeps(history), Request, NEW i \in Passed \cup {Head(todo)},
           i # Head(todo) => InPlace(mem, Commit[i])
    PROVE  InPlace(mem', Commit[i])
  <1> DEFINE e == Entry(Digest, R.deps, R.ignore, Response, R.path)
  <1>1. AtResource /\ mem' = Put(mem, R.name, e) /\ CanResolve(R, mem)
    BY DEF Request, NeedsRequest
  <1>2. e.digest = Digest
    BY DEF Entry
  <1> HIDE DEF e
  <1>3. /\ DOMAIN mem' = DOMAIN mem \cup {R.name} /\ mem'[R.name] = e
        /\ \A l \in DOMAIN mem : l # R.name => mem'[l] = mem[l]
    BY <1>1 DEF Put
  <1>4. Linted(Commit) /\ Head(todo) \in DOMAIN Commit /\ R = Commit[Head(todo)] /\ i \in DOMAIN Commit
    BY <1>1, AtHand DEF AtResource, Resources, R, Passed
  <1>5. Commit[i].ref # R.name
    <2>1. SUFFICES ASSUME Commit[i].ref = R.name PROVE FALSE
      OBVIOUS
    <2>2. R.name # NoValue
      BY <1>1, AtHand DEF AtResource, Resources, Resource
    <2>3. R.name \in Commit[i].deps
      BY <1>1, <1>4, <2>1, <2>2, RefIsGiven DEF AtResource
    <2>4. Head(todo) \in Passed
      BY <1>1, <1>4, <2>3, DependenciesPassed DEF AtResource
    <2> QED
      BY <1>1, <2>4, DependenciesPassed DEF AtResource
  <1>6. CASE i = Head(todo)
    <2>1. Resolve(R, mem') = Resolve(R, mem) /\ CanResolve(R, mem')
      BY <1>1, <1>3, <1>4, <1>5, <1>6 DEF Resolve, CanResolve
    <2> QED
      BY <1>2, <1>3, <1>4, <1>6, <2>1 DEF InPlace, Digest
  <1>7. CASE i # Head(todo)
    <2>1. InPlace(mem, Commit[i]) /\ Commit[i].name # R.name
      BY <1>4, <1>7 DEF Linted
    <2>2. Commit[i].name \in DOMAIN mem /\ (Commit[i].ref # NoValue => Commit[i].ref \in DOMAIN mem)
      BY <2>1 DEF InPlace, CanResolve
    <2> QED
      BY <1>3, <1>5, <2>1, <2>2, InPlaceStays
  <1> QED
    BY <1>6, <1>7

\* A rename takes its entry from no resource that the run has been through: that one
\* would have path and data in common with the resource at hand.
LEMMA MigrateInPlace ==
    ASSUME TypeInv, InOrder, Known(mem), PathsStay(history), RefsAreDeps(history), Distinct(history),
           Migrate, \A j \in Passed : InPlace(mem, Commit[j]), NEW i \in Passed \cup {Head(todo)}
    PROVE  InPlace(mem', Commit[i])
  <1>1. PICK k \in SamePath :
            /\ Migrates(k)
            /\ mem' = Put(Remove(mem, k), R.name, [mem[k] EXCEPT !.path = R.path])
    BY DEF Migrate
  <1> DEFINE e == [mem[k] EXCEPT !.path = R.path]
  <1>2. AtResource /\ CanResolve(R, mem)
    BY DEF Migrate
  <1>3. /\ k \in DOMAIN mem /\ mem[k].path = R.path /\ mem[k].digest = Digest
        /\ R.name \notin DOMAIN mem /\ mem' = Put(Remove(mem, k), R.name, e)
    BY <1>1 DEF Migrates, SamePath
  <1>4. e.digest = Digest
    BY <1>1, <1>2, <1>3, MigratedEntry
  <1> HIDE DEF e
  <1>5. /\ DOMAIN mem' = (DOMAIN mem \ {k}) \cup {R.name} /\ mem'[R.name] = e
        /\ \A l \in DOMAIN mem : l # k => mem'[l] = mem[l]
    BY <1>3 DEF Put, Remove
  <1>6. /\ Linted(Commit) /\ Head(todo) \in DOMAIN Commit /\ R = Commit[Head(todo)]
        /\ i \in DOMAIN Commit /\ Passed \subseteq DOMAIN Commit /\ at \in Ordered(history)
        /\ Head(todo) \notin Passed
    BY <1>2, AtHand, DependenciesPassed DEF AtResource, Resources, R, Passed
  <1>7. ASSUME NEW j \in Passed
        PROVE  Commit[j].name # k
    <2>1. SUFFICES ASSUME Commit[j].name = k PROVE FALSE
      OBVIOUS
    <2>2. Commit[j] \in Given(history)
      BY <1>2, <1>6, CommitIsGiven DEF AtResource
    <2>3. mem[k].path = Commit[j].path
      BY <1>3, <2>1, <2>2, EntryHasPath
    <2>4. mem[k].digest = Resolve(Commit[j], mem)
      BY <2>1 DEF InPlace
    <2>5. Commit[j].data = R.data
      <3>1. Resolve(Commit[j], mem) = Resolve(R, mem)
        BY <1>3, <2>4 DEF Digest
      <3> QED
        BY <3>1, ResolveIs
    <2>6. Commit[j].path = R.path
      BY <1>3, <2>3
    <2>7. j = Head(todo)
      BY <1>6, <2>5, <2>6 DEF Distinct, Commit
    <2> QED
      BY <1>6, <2>7
  <1>8. Commit[i].ref # NoValue => Commit[i].ref # k /\ Commit[i].ref # R.name
    <2>1. SUFFICES ASSUME Commit[i].ref # NoValue
                   PROVE  Commit[i].ref # k /\ Commit[i].ref # R.name
      OBVIOUS
    <2>2. PICK j \in DOMAIN Commit : Commit[j].name = Commit[i].ref /\ Commit[j].name \in Commit[i].deps
      BY <1>2, <1>6, <2>1, RefIsGiven DEF AtResource
    <2>3. j \in Passed
      BY <1>2, <2>2, DependenciesPassed DEF AtResource
    <2>4. Commit[j].name # R.name
      BY <1>6, <2>3 DEF Linted
    <2> QED
      BY <1>7, <2>2, <2>3, <2>4
  <1>9. CASE i = Head(todo)
    <2>1. R.ref # NoValue => R.ref \in DOMAIN mem /\ R.ref \in DOMAIN mem' /\ mem'[R.ref] = mem[R.ref]
                               /\ mem[R.ref].response # NoValue
      BY <1>2, <1>5, <1>6, <1>8, <1>9 DEF CanResolve
    <2>2. Resolve(R, mem') = Resolve(R, mem) /\ CanResolve(R, mem')
      BY <2>1 DEF Resolve, CanResolve
    <2> QED
      BY <1>4, <1>5, <1>6, <1>9, <2>2 DEF InPlace, Digest
  <1>10. CASE i \in Passed
    <2>1. InPlace(mem, Commit[i]) /\ Commit[i].name # R.name /\ Commit[i].name # k
      BY <1>6, <1>7, <1>10 DEF Linted
    <2>2. Commit[i].name \in DOMAIN mem /\ (Commit[i].ref # NoValue => Commit[i].ref \in DOMAIN mem)
      BY <2>1 DEF InPlace, CanResolve
    <2> QED
      BY <1>5, <1>8, <2>1, <2>2, InPlaceStays
  <1> QED
    BY <1>9, <1>10

LEMMA AppliedStep ==
    ASSUME \A h \in Histories : PathsStay(h) /\ RefsAreDeps(h) /\ Distinct(h),
           BaseInv, Applied, [Next]_vars
    PROVE  Applied'
  <1>1. /\ TypeInv /\ InOrder /\ Known(mem) /\ Foreign
        /\ PathsStay(history) /\ RefsAreDeps(history) /\ Distinct(history)
    BY DEF BaseInv, TypeInv
  <1> SUFFICES ASSUME pc' \notin {"idle", "failed"}, ~ignored', NEW i \in Passed'
               PROVE  InPlace(mem, Commit[i])'
    BY DEF Applied
  <1>2. Step => Commit' = Commit
    BY AtStays, HistoryStays DEF Commit
  <1>3. ASSUME pc \notin {"idle", "failed"}, ~ignored
        PROVE  \A j \in Passed : InPlace(mem, Commit[j])
    BY <1>3 DEF Applied
  <1>4. CASE Begin
    <2>1. pc' = "create" /\ Elements(todo') = DOMAIN Commit'
      BY <1>1, <1>4, BeginIs
    <2>2. Passed' = DOMAIN Commit' \ Elements(todo')
      BY <2>1 DEF Passed, Elements
    <2> QED
      BY <2>1, <2>2
  <1>5. CASE LoadFails \/ Crash
    BY <1>5 DEF LoadFails, Crash
  <1>6. CASE ResolveFails \/ RequestFails
    BY <1>6 DEF ResolveFails, RequestFails, GiveUpOrSkip
  <1>7. ASSUME AtResource, Step, pc' \in {"create", "saveCreate"},
               todo' = IF pc' = "saveCreate" THEN todo ELSE Tail(todo)
        PROVE  i \in Passed \cup {Head(todo)} /\ Commit' = Commit
    BY <1>1, <1>2, <1>7, PassedGrows DEF AtResource, Resources
  <1>8. CASE SkipUnchanged
    <2>1. /\ AtResource /\ Step /\ pc' = "create" /\ todo' = Tail(todo) /\ mem' = mem /\ ignored' = ignored
          /\ CanResolve(R, mem) /\ Unchanged /\ pc = "create"
      BY <1>8 DEF SkipUnchanged, Advance, Step, AtResource
    <2>2. i \in Passed \cup {Head(todo)} /\ Commit' = Commit
      BY <1>7, <2>1
    <2>3. InPlace(mem, Commit[Head(todo)])
      BY <2>1 DEF Unchanged, InPlace, Digest, R
    <2>4. InPlace(mem, Commit[i])
      BY <1>3, <2>1, <2>2, <2>3
    <2> QED
      BY <2>1, <2>2, <2>4 DEF InPlace, CanResolve, Resolve
  <1>9. CASE Request
    <2>1. AtResource /\ Step /\ pc' = "saveCreate" /\ todo' = todo /\ ignored' = ignored /\ pc = "create"
      BY <1>9 DEF Request, NeedsRequest, Step, AtResource
    <2>2. i \in Passed \cup {Head(todo)} /\ Commit' = Commit
      BY <1>7, <2>1
    <2>3. InPlace(mem', Commit[i])
      BY <1>1, <1>3, <1>9, <2>1, <2>2, RequestInPlace
    <2> QED
      BY <2>2, <2>3 DEF InPlace, CanResolve, Resolve
  <1>10. CASE Migrate
    <2>1. AtResource /\ Step /\ pc' = "saveCreate" /\ todo' = todo /\ ignored' = ignored /\ pc = "create"
      BY <1>10 DEF Migrate, Step, AtResource
    <2>2. i \in Passed \cup {Head(todo)} /\ Commit' = Commit
      BY <1>7, <2>1
    <2>3. InPlace(mem', Commit[i])
      BY <1>1, <1>3, <1>10, <2>1, <2>2, MigrateInPlace
    <2> QED
      BY <2>2, <2>3 DEF InPlace, CanResolve, Resolve
  <1>11. ASSUME Passed' \subseteq Passed, Commit' = Commit, mem' = mem, pc \notin {"idle", "failed"},
                ~ignored
         PROVE  InPlace(mem, Commit[i])'
    BY <1>3, <1>11 DEF InPlace, CanResolve, Resolve
  <1>12. CASE SaveCreate
    <2>1. /\ Step /\ pc = "saveCreate" /\ pc' = "create" /\ todo' = Tail(todo) /\ todo # <<>>
          /\ mem' = mem /\ ~ignored
      BY <1>1, <1>12 DEF SaveCreate, GiveUpOrSkip, Advance, Step, TypeInv
    <2>2. Passed' = Passed
      BY <1>1, <1>2, <2>1, PassedGrows DEF Resources
    <2> QED
      BY <1>2, <1>11, <2>1, <2>2
  <1>13. CASE StartDelete \/ SaveDelete \/ Finish
    <2>1. /\ Step /\ mem' = mem /\ todo' = todo /\ ~ignored
          /\ pc \in {"create", "delete", "saveDelete"} /\ pc' \in {"delete", "done"}
      BY <1>13 DEF StartDelete, SaveDelete, Finish, Step
    <2>2. Passed' = Passed
      BY <1>2, <2>1 DEF Passed, Elements
    <2> QED
      BY <1>2, <1>11, <2>1, <2>2
  <1>14. ASSUME NEW k \in Names, DeleteFails(k)
         PROVE  InPlace(mem, Commit[i])'
    BY <1>14 DEF DeleteFails
  <1>15. ASSUME NEW k \in Names, Delete(k)
         PROVE  InPlace(mem, Commit[i])'
    <2>1. /\ Step /\ mem' = Remove(mem, k) /\ todo' = todo /\ ~ignored /\ k \in gone
          /\ pc = "delete" /\ pc' = "saveDelete"
      BY <1>15 DEF Delete, Deletable, Step
    <2>2. i \in Passed /\ i \in DOMAIN Commit /\ Commit' = Commit
      BY <1>1, <1>2, <2>1, AllPassed DEF Passed
    <2>3. InPlace(mem, Commit[i]) /\ k \notin CommitNames
      BY <1>1, <1>3, <2>1, <2>2 DEF Foreign
    <2>4. Commit[i].name # k /\ (Commit[i].ref # NoValue => Commit[i].ref # k)
      BY <1>1, <2>1, <2>2, <2>3, RefIsGiven DEF CommitNames
    <2>5. DOMAIN mem' = DOMAIN mem \ {k} /\ \A l \in DOMAIN mem : l # k => mem'[l] = mem[l]
      BY <2>1 DEF Remove
    <2>6. Commit[i].name \in DOMAIN mem /\ (Commit[i].ref # NoValue => Commit[i].ref \in DOMAIN mem)
      BY <2>3 DEF InPlace, CanResolve
    <2>7. InPlace(mem', Commit[i])
      BY <2>3, <2>4, <2>5, <2>6, InPlaceStays
    <2> QED
      BY <2>2, <2>7 DEF InPlace, CanResolve, Resolve
  <1>16. CASE UNCHANGED vars
    <2>1. Passed' = Passed /\ Commit' = Commit /\ mem' = mem
      BY <1>16 DEF vars, Passed, Elements, Commit
    <2> QED
      BY <1>11, <1>16, <2>1 DEF vars
  <1> QED
    BY <1>4, <1>5, <1>6, <1>8, <1>9, <1>10, <1>12, <1>13, <1>14, <1>15, <1>16 DEF Next, Step

\* AppliedAfterDependencies, for histories whose names keep their paths, in which
\* templates name dependencies, and in which no commit has a resource twice: a request is
\* sent when what its resource depends on is in place (apply.go:37).
THEOREM DependenciesAreInPlace ==
    ASSUME \A h \in Histories : PathsStay(h) /\ RefsAreDeps(h) /\ Distinct(h)
    PROVE  Spec => AppliedAfterDependencies
  <1> DEFINE Inv == BaseInv /\ Applied
             Act == Request \/ RequestFails =>
                        \A i \in DOMAIN Commit : Commit[i].name \in R.deps =>
                            \/ ignored
                            \/ /\ Commit[i].name \in DOMAIN mem
                               /\ mem[Commit[i].name].digest = Resolve(Commit[i], mem)
  <1>1. Init => Inv
    BY InitBase DEF Init, Applied
  <1>2. Inv /\ [Next]_vars => Inv'
    BY BaseStep, AppliedStep
  <1>3. ASSUME Inv PROVE Act
    <2> SUFFICES ASSUME Request \/ RequestFails, NEW i \in DOMAIN Commit, Commit[i].name \in R.deps,
                        ~ignored
                 PROVE  /\ Commit[i].name \in DOMAIN mem
                        /\ mem[Commit[i].name].digest = Resolve(Commit[i], mem)
      OBVIOUS
    <2>1. AtResource /\ TypeInv /\ InOrder
      BY <1>3 DEF Request, RequestFails, NeedsRequest, BaseInv
    <2>2. i \in Passed
      BY <2>1, DependenciesPassed DEF AtResource, R
    <2>3. InPlace(mem, Commit[i])
      BY <1>3, <2>1, <2>2 DEF Applied, AtResource
    <2> QED
      BY <2>3 DEF InPlace
  <1>4. Inv => [Act]_vars
    BY <1>3
  <1> QED
    BY <1>1, <1>2, <1>4, PTL DEF Spec, AppliedAfterDependencies
-----------------------------------------------------------------------------
\* What was in place is in place when the state is loaded, as no template takes a number.
LEMMA LoadedInPlace ==
    ASSUME Known(mem), NoNumbers(history), NEW x \in Given(history), InPlace(mem, x)
    PROVE  InPlace(Loaded(mem), x)
  <1>1. x.name \in DOMAIN mem /\ (x.ref # NoValue => x.ref \in DOMAIN mem)
    BY DEF InPlace, CanResolve
  <1>2. ASSUME x.ref # NoValue
        PROVE  mem[x.ref].path \notin Numeric
    <2>1. From(x.ref, mem[x.ref])
      BY <1>1, <1>2 DEF Known
    <2>2. PICK y \in Given(history) : y.name = x.ref /\ y.path = mem[x.ref].path
      BY <2>1 DEF From
    <2> QED
      BY <2>2 DEF NoNumbers
  <1>3. /\ DOMAIN Loaded(mem) = DOMAIN mem
        /\ \A k \in DOMAIN mem : /\ Loaded(mem)[k].digest = mem[k].digest
                                 /\ mem[k].path \notin Numeric => Loaded(mem)[k] = mem[k]
    BY LoadedIs
  <1> QED
    BY <1>1, <1>2, <1>3, InPlaceStays

LEMMA QuietStep ==
    ASSUME \A h \in Histories : NoNumbers(h),
           BaseInv, Removing, Applied, Quiet, [Next]_vars
    PROVE  Quiet'
  <1>1. TypeInv /\ Known(mem) /\ Known(stored) /\ Kept /\ Foreign /\ NoNumbers(history)
    BY DEF BaseInv, TypeInv
  <1> SUFFICES ASSUME again', pc' \notin {"idle", "failed"}
               PROVE  /\ DOMAIN mem' \subseteq CommitNames'
                      /\ pc' \in {"create", "delete", "done"}
                      /\ \A i \in DOMAIN Commit' : InPlace(mem, Commit[i])'
    BY DEF Quiet
  <1>2. CASE Begin
    <2>1. /\ pc = "done" /\ ~ignored /\ Commit' = Commit /\ mem' = Loaded(stored) /\ pc' = "create"
      BY <1>1, <1>2, BeginIs DEF Commit
    <2>2. Loaded(stored) = Loaded(mem)
      BY <1>1, <2>1 DEF Kept, Clean
    <2>3. DOMAIN mem' \subseteq CommitNames'
      BY <1>1, <2>1, <2>2, LoadedIs DEF Removing, Clean, CommitNames
    <2>4. ASSUME NEW i \in DOMAIN Commit
          PROVE  InPlace(mem', Commit[i])
      <3>1. Passed = DOMAIN Commit
        BY <1>1, <2>1, AllPassed
      <3>2. InPlace(mem, Commit[i]) /\ Commit[i] \in Given(history)
        BY <1>1, <2>1, <2>4, <3>1, CommitIsGiven DEF Applied
      <3> QED
        BY <1>1, <2>1, <2>2, <3>2, LoadedInPlace
    <2> QED
      BY <2>1, <2>3, <2>4 DEF InPlace, CanResolve, Resolve
  <1>3. CASE LoadFails \/ Crash
    BY <1>3 DEF LoadFails, Crash
  <1>4. ASSUME Step \/ UNCHANGED vars
        PROVE  /\ Commit' = Commit /\ CommitNames' = CommitNames /\ again
               /\ (pc \notin {"idle", "failed"} =>
                     /\ DOMAIN mem \subseteq CommitNames
                     /\ pc \in {"create", "delete", "done"}
                     /\ \A i \in DOMAIN Commit : InPlace(mem, Commit[i]))
    BY <1>4, AtStays, HistoryStays DEF Commit, CommitNames, Quiet, vars
  <1>5. ASSUME Step, AtResource
        PROVE  CanResolve(R, mem) /\ Unchanged
    <2>1. InPlace(mem, R)
      BY <1>1, <1>4, <1>5, AtHand DEF AtResource, Resources, R
    <2> QED
      BY <2>1 DEF InPlace, Unchanged, Digest
  <1>6. ASSUME mem' = mem, Step \/ UNCHANGED vars, pc \notin {"idle", "failed"},
               pc' \in {"create", "delete", "done"}
        PROVE  /\ DOMAIN mem' \subseteq CommitNames'
               /\ pc' \in {"create", "delete", "done"}
               /\ \A i \in DOMAIN Commit' : InPlace(mem, Commit[i])'
    <2>1. \A i \in DOMAIN Commit : InPlace(mem, Commit[i])' <=> InPlace(mem, Commit[i])
      BY <1>4, <1>6 DEF InPlace, CanResolve, Resolve
    <2> QED
      BY <1>4, <1>6, <2>1
  <1>7. CASE SkipUnchanged
    BY <1>6, <1>7 DEF SkipUnchanged, Step, AtResource
  <1>8. CASE ResolveFails \/ Migrate \/ Request \/ RequestFails
    BY <1>5, <1>8 DEF ResolveFails, Migrate, Request, RequestFails, NeedsRequest, Step
  <1>9. CASE SaveCreate \/ SaveDelete
    BY <1>4, <1>9 DEF SaveCreate, SaveDelete, Step
  <1>10. CASE StartDelete \/ Finish
    BY <1>6, <1>10 DEF StartDelete, Finish, Step
  <1>11. ASSUME NEW k \in Names, Delete(k) \/ DeleteFails(k)
         PROVE  FALSE
    BY <1>1, <1>4, <1>11 DEF Delete, DeleteFails, Deletable, Foreign, Step
  <1>12. CASE UNCHANGED vars
    BY <1>4, <1>6, <1>12 DEF vars
  <1> QED
    BY <1>2, <1>3, <1>7, <1>8, <1>9, <1>10, <1>11, <1>12 DEF Next, Step

\* SecondRunIsQuiet, for histories as above whose templates take no numbers: a run for
\* the commit of the run before, which has ignored no failure, sends no request
\* (apply.go:51, apply.go:169).
THEOREM NothingIsDoneTwice ==
    ASSUME \A h \in Histories : /\ PathsStay(h) /\ RefsAreDeps(h) /\ Distinct(h)
                                /\ OneDirection(h) /\ NoNumbers(h)
    PROVE  Spec => SecondRunIsQuiet
  <1> DEFINE Inv == BaseInv /\ Removing /\ Applied /\ Quiet
             Act == again => ~(Request \/ \E k \in Names : Delete(k))
  <1>1. Init => Inv
    BY InitBase DEF Init, Removing, Applied, Quiet
  <1>2. Inv /\ [Next]_vars => Inv'
    BY BaseStep, RemovingStep, AppliedStep, QuietStep
  <1>3. ASSUME Inv PROVE Act
    <2> SUFFICES ASSUME again PROVE ~(Request \/ \E k \in Names : Delete(k))
      OBVIOUS
    <2>1. ~Request
      <3> SUFFICES ASSUME Request PROVE FALSE
        OBVIOUS
      <3>1. AtResource /\ ~Unchanged
        BY DEF Request, NeedsRequest
      <3>2. InPlace(mem, R)
        BY <1>3, <3>1, AtHand DEF AtResource, Resources, R, BaseInv, Quiet
      <3> QED
        BY <3>1, <3>2 DEF InPlace, Unchanged, Digest
    <2>2. ASSUME NEW k \in Names, Delete(k)
          PROVE  FALSE
      BY <1>3, <2>2 DEF Delete, Deletable, BaseInv, Foreign, Quiet
    <2> QED
      BY <2>1, <2>2
  <1>4. Inv => [Act]_vars
    BY <1>3
  <1> QED
    BY <1>1, <1>2, <1>4, PTL DEF Spec, SecondRunIsQuiet
-----------------------------------------------------------------------------
\* An entry that another name has left at the path of the resource at hand is one to
\* migrate.
LEMMA OtherNameMigrates ==
    ASSUME TypeInv, Known(mem), RenamesKeepData(history), AtResource, NEW k \in SamePath, k # R.name
    PROVE  R.ref = NoValue /\ mem[k].digest = Digest
  <1>1. From(k, mem[k]) /\ mem[k].path = R.path
    BY DEF Known, SamePath
  <1>2. PICK x \in Given(history) :
            /\ x.name = k /\ x.path = R.path
            /\ \E v : mem[k].digest = <<x.data, v>> /\ (x.ref = NoValue => v = NoValue)
    BY <1>1 DEF From
  <1>3. R \in Given(history)
    BY AtHand DEF AtResource, Resources
  <1>4. x.data = R.data /\ x.ref = NoValue /\ R.ref = NoValue
    BY <1>2, <1>3 DEF RenamesKeepData
  <1>5. Digest = <<R.data, NoValue>>
    BY <1>4 DEF Digest, Resolve
  <1> QED
    BY <1>2, <1>4, <1>5

\* When a resource needs a request, or its template cannot be filled in, its path is its
\* own.
LEMMA PathIsFree ==
    ASSUME TypeInv, Known(mem), PathsStay(history), RenamesKeepData(history), OneEntry(mem),
           AtResource, NeedsRequest \/ ~CanResolve(R, mem) \/ R.name \in DOMAIN mem, NEW k \in SamePath
    PROVE  k = R.name
  <1> SUFFICES ASSUME k # R.name PROVE FALSE
    OBVIOUS
  <1>1. R.ref = NoValue /\ mem[k].digest = Digest
    BY OtherNameMigrates
  <1>2. CanResolve(R, mem)
    BY <1>1 DEF CanResolve
  <1>3. R \in Given(history) /\ k \in DOMAIN mem /\ mem[k].path = R.path
    BY AtHand DEF AtResource, Resources, SamePath
  <1>4. CASE R.name \in DOMAIN mem
    BY <1>3, <1>4, EntryHasPath DEF OneEntry
  <1>5. CASE NeedsRequest /\ R.name \notin DOMAIN mem
    <2>1. PICK l \in SamePath : ~Migrates(l)
      BY <1>5 DEF NeedsRequest
    <2>2. l # R.name /\ mem[l].digest # Digest
      BY <1>5, <2>1 DEF Migrates, SamePath
    <2> QED
      BY <2>2, OtherNameMigrates
  <1> QED
    BY <1>2, <1>4, <1>5

\* No path is that of two resources of a commit.
LEMMA CommitPathsDiffer ==
    ASSUME TypeInv, pc \notin {"idle", "failed"}, Distinct(history), RenamesKeepData(history),
           NEW i \in DOMAIN Commit, NEW j \in DOMAIN Commit, Commit[i].path = Commit[j].path
    PROVE  i = j
  <1>1. Commit[i] \in Given(history) /\ Commit[j] \in Given(history) /\ Linted(Commit) /\ at \in Ordered(history)
    BY CommitIsGiven
  <1> SUFFICES ASSUME i # j PROVE FALSE
    OBVIOUS
  <1>2. Commit[i].name # Commit[j].name
    BY <1>1 DEF Linted
  <1>3. Commit[i].data = Commit[j].data
    BY <1>1, <1>2 DEF RenamesKeepData
  <1> QED
    BY <1>1, <1>3 DEF Distinct, Commit

\* Paths stay with their names when the path of the resource at hand is its own.
LEMMA OwnAtHand ==
    ASSUME TypeInv, Distinct(history), RenamesKeepData(history), Own, AtResource,
           NEW next,
           R.name \in DOMAIN next => next[R.name].path = R.path,
           \A l \in DOMAIN next : l # R.name => l \in DOMAIN mem /\ next[l] = mem[l] /\ mem[l].path # R.path
    PROVE  /\ OneEntry(next)
           /\ \A i \in Passed \cup {Head(todo)} : \A k \in DOMAIN next :
                 next[k].path = Commit[i].path => k = Commit[i].name
  <1>1. Head(todo) \in DOMAIN Commit /\ R = Commit[Head(todo)] /\ Passed \subseteq DOMAIN Commit
    BY AtHand DEF AtResource, Resources, R, Passed
  <1>2. OneEntry(next)
    BY DEF Own, OneEntry
  <1>3. ASSUME NEW i \in Passed \cup {Head(todo)}, NEW k \in DOMAIN next, next[k].path = Commit[i].path
        PROVE  k = Commit[i].name
    <2>1. CASE i = Head(todo)
      BY <1>1, <1>3, <2>1
    <2>2. CASE i # Head(todo) /\ k = R.name
      BY <1>1, <1>3, <2>2, CommitPathsDiffer DEF AtResource
    <2>3. CASE i # Head(todo) /\ k # R.name
      BY <1>3, <2>3 DEF Own, AtResource
    <2> QED
      BY <2>1, <2>2, <2>3
  <1> QED
    BY <1>2, <1>3

LEMMA OwnStep ==
    ASSUME \A h \in Histories : PathsStay(h) /\ Distinct(h) /\ RenamesKeepData(h),
           BaseInv, Own, [Next]_vars
    PROVE  Own'
  <1> DEFINE Mine(st, commit, i) == \A k \in DOMAIN st : st[k].path = commit[i].path => k = commit[i].name
             Going == pc \notin {"idle", "failed"}
  <1>1. /\ TypeInv /\ Known(mem) /\ Known(stored)
        /\ PathsStay(history) /\ Distinct(history) /\ RenamesKeepData(history)
    BY DEF BaseInv, TypeInv
  <1>2. OneEntry(mem) /\ OneEntry(stored) /\ (Going => \A i \in Passed : Mine(mem, Commit, i))
    BY DEF Own
  <1>3. Step => Commit' = Commit
    BY AtStays, HistoryStays DEF Commit
  <1>4. ASSUME OneEntry(mem'), OneEntry(stored'), Going' => \A i \in Passed' : Mine(mem', Commit', i)
        PROVE  Own'
    BY <1>4 DEF Own, OneEntry
  <1> HIDE DEF Mine
  <1>5. CASE Begin
    <2>1. mem' = Loaded(stored) /\ stored' = stored
      BY <1>1, <1>5, BeginIs
    <2>2. OneEntry(mem')
      BY <1>1, <1>2, <2>1, LoadedIs DEF OneEntry
    <2>3. CASE pc' = "failed"
      BY <1>2, <1>4, <2>1, <2>2, <2>3
    <2>4. CASE pc' = "create"
      <3>1. Elements(todo') = DOMAIN Commit' /\ Passed' = DOMAIN Commit' \ Elements(todo')
        BY <1>1, <1>5, <2>4, BeginIs DEF Passed, Elements
      <3> QED
        BY <1>2, <1>4, <2>1, <2>2, <3>1
    <2> QED
      BY <1>1, <1>5, <2>3, <2>4, BeginIs
  <1>6. CASE LoadFails \/ Crash
    BY <1>2, <1>4, <1>6 DEF LoadFails, Crash
  <1>7. ASSUME AtResource, Step, pc' \in {"create", "saveCreate"},
               todo' = IF pc' = "saveCreate" THEN todo ELSE Tail(todo), stored' = stored,
               R.name \in DOMAIN mem' => mem'[R.name].path = R.path,
               \A l \in DOMAIN mem' : l # R.name =>
                   l \in DOMAIN mem /\ mem'[l] = mem[l] /\ mem[l].path # R.path
        PROVE  Own'
    <2>1. Passed' \subseteq Passed \cup {Head(todo)} /\ Commit' = Commit
      BY <1>1, <1>3, <1>7, PassedGrows DEF AtResource, Resources
    <2>2. /\ OneEntry(mem')
          /\ \A i \in Passed \cup {Head(todo)} : \A k \in DOMAIN mem' :
                 mem'[k].path = Commit[i].path => k = Commit[i].name
      BY <1>1, <1>7, OwnAtHand
    <2> QED
      BY <1>2, <1>4, <1>7, <2>1, <2>2 DEF Mine
  <1>8. ASSUME AtResource, NeedsRequest \/ ~CanResolve(R, mem) \/ R.name \in DOMAIN mem,
               NEW l \in DOMAIN mem, l # R.name
        PROVE  mem[l].path # R.path
    BY <1>1, <1>2, <1>8, PathIsFree DEF SamePath
  <1>9. ASSUME AtResource, R.name \in DOMAIN mem
        PROVE  mem[R.name].path = R.path
    BY <1>1, <1>9, AtHand, EntryHasPath DEF AtResource, Resources
  <1>10. ASSUME pc' = "failed", mem' = mem, stored' = stored \/ stored' = mem
         PROVE  Own'
    BY <1>2, <1>4, <1>10
  <1>11. CASE ResolveFails \/ RequestFails \/ SkipUnchanged
    <2>1. /\ AtResource /\ Step /\ mem' = mem /\ stored' = stored
          /\ pc' = "failed" \/ (pc' = "create" /\ todo' = Tail(todo))
          /\ NeedsRequest \/ ~CanResolve(R, mem) \/ R.name \in DOMAIN mem
      BY <1>11 DEF ResolveFails, RequestFails, SkipUnchanged, NeedsRequest, GiveUpOrSkip, Advance, Step,
                   AtResource, Unchanged
    <2>2. CASE pc' = "failed"
      BY <1>10, <2>1, <2>2
    <2>3. CASE pc' = "create"
      BY <1>7, <1>8, <1>9, <2>1, <2>3
    <2> QED
      BY <2>1, <2>2, <2>3
  <1>12. CASE Request
    <2> DEFINE e == Entry(Digest, R.deps, R.ignore, Response, R.path)
    <2>1. /\ AtResource /\ NeedsRequest /\ Step /\ mem' = Put(mem, R.name, e) /\ stored' = stored
          /\ pc' = "saveCreate" /\ todo' = todo
      BY <1>12 DEF Request, NeedsRequest, Step
    <2>2. e.path = R.path
      BY DEF Entry
    <2> HIDE DEF e
    <2>3. /\ DOMAIN mem' = DOMAIN mem \cup {R.name} /\ mem'[R.name] = e
          /\ \A l \in DOMAIN mem : l # R.name => mem'[l] = mem[l]
      BY <2>1 DEF Put
    <2> QED
      BY <1>7, <1>8, <2>1, <2>2, <2>3
  <1>13. CASE Migrate
    <2>1. PICK k \in SamePath :
              /\ Migrates(k)
              /\ mem' = Put(Remove(mem, k), R.name, [mem[k] EXCEPT !.path = R.path])
      BY <1>13 DEF Migrate
    <2> DEFINE e == [mem[k] EXCEPT !.path = R.path]
    <2>2. /\ AtResource /\ Step /\ stored' = stored /\ pc' = "saveCreate" /\ todo' = todo
          /\ k \in DOMAIN mem /\ mem[k].path = R.path /\ mem' = Put(Remove(mem, k), R.name, e)
      BY <1>13, <2>1 DEF Migrate, Step, SamePath
    <2>3. e.path = R.path
      BY <1>1, <2>1, <2>2, MigratedEntry
    <2> HIDE DEF e
    <2>4. /\ DOMAIN mem' = (DOMAIN mem \ {k}) \cup {R.name} /\ mem'[R.name] = e
          /\ \A l \in DOMAIN mem : l # R.name /\ l # k => mem'[l] = mem[l]
      BY <2>2 DEF Put, Remove
    <2>5. ASSUME NEW l \in DOMAIN mem', l # R.name
          PROVE  l \in DOMAIN mem /\ mem'[l] = mem[l] /\ mem[l].path # R.path
      <3>1. l \in DOMAIN mem /\ l # k
        BY <2>4, <2>5
      <3>2. mem[l].path # mem[k].path
        BY <1>2, <2>2, <3>1 DEF OneEntry
      <3> QED
        BY <2>2, <2>4, <2>5, <3>1, <3>2
    <2> QED
      BY <1>7, <2>2, <2>3, <2>4, <2>5
  <1>14. ASSUME Going, Passed' = Passed, Commit' = Commit, mem' = mem, stored' = stored \/ stored' = mem
         PROVE  Own'
    BY <1>2, <1>4, <1>14
  <1>15. CASE SaveCreate
    <2>1. /\ Step /\ pc = "saveCreate" /\ todo # <<>> /\ mem' = mem /\ (stored' = stored \/ stored' = mem)
          /\ pc' = "failed" \/ (pc' = "create" /\ todo' = Tail(todo))
      BY <1>1, <1>15 DEF SaveCreate, GiveUpOrSkip, Advance, Step, TypeInv
    <2>2. CASE pc' = "failed"
      BY <1>10, <2>1, <2>2
    <2>3. CASE pc' = "create"
      <3>1. Passed' = Passed
        BY <1>1, <1>3, <2>1, <2>3, PassedGrows DEF Resources
      <3> QED
        BY <1>3, <1>14, <2>1, <3>1
    <2> QED
      BY <2>1, <2>2, <2>3
  <1>16. CASE StartDelete \/ SaveDelete \/ Finish \/ \E k \in Names : DeleteFails(k)
    <2>1. /\ Step /\ mem' = mem /\ todo' = todo /\ (stored' = stored \/ stored' = mem)
          /\ pc \in {"create", "delete", "saveDelete"} /\ pc' \in {"delete", "done", "failed"}
      BY <1>16 DEF StartDelete, SaveDelete, Finish, DeleteFails, Step
    <2>2. Passed' = Passed
      BY <1>3, <2>1 DEF Passed, Elements
    <2> QED
      BY <1>3, <1>14, <2>1, <2>2
  <1>17. ASSUME NEW k \in Names, Delete(k)
         PROVE  Own'
    <2>1. /\ Step /\ mem' = Remove(mem, k) /\ todo' = todo /\ stored' = stored
          /\ pc = "delete" /\ pc' = "saveDelete"
      BY <1>17 DEF Delete, Step
    <2>2. Passed' = Passed /\ Commit' = Commit
      BY <1>3, <2>1 DEF Passed, Elements
    <2>3. DOMAIN mem' \subseteq DOMAIN mem /\ \A l \in DOMAIN mem' : mem'[l] = mem[l]
      BY <2>1 DEF Remove
    <2>4. OneEntry(mem')
      BY <1>2, <2>3 DEF OneEntry
    <2>5. \A i \in Passed' : Mine(mem', Commit', i)
      BY <1>2, <2>1, <2>2, <2>3 DEF Mine
    <2> QED
      BY <1>2, <1>4, <2>1, <2>4, <2>5
  <1>18. CASE UNCHANGED vars
    <2>1. Passed' = Passed /\ Commit' = Commit /\ mem' = mem /\ stored' = stored /\ pc' = pc
      BY <1>18 DEF vars, Passed, Elements, Commit
    <2> QED
      BY <1>2, <1>4, <2>1
  <1> QED
    BY <1>5, <1>6, <1>11, <1>12, <1>13, <1>15, <1>16, <1>17, <1>18 DEF Next, Step

\* DeclaredIsNotDeleted, for histories whose names keep their paths, in which no commit
\* has a resource twice, and in which what changes its name keeps its data and has no
\* template: no deletion is of a path that the commit declares, whatever fails
\* (apply.go:56, apply.go:128).
THEOREM DeclaredResourcesStay ==
    ASSUME \A h \in Histories : PathsStay(h) /\ Distinct(h) /\ RenamesKeepData(h)
    PROVE  Spec => DeclaredIsNotDeleted
  <1> DEFINE Inv == BaseInv /\ Own
             Act == \A k \in Names : Delete(k) =>
                        \A i \in DOMAIN Commit : Commit[i].path # mem[k].path
  <1>1. Init => Inv
    <2> SUFFICES ASSUME Init PROVE Inv
      OBVIOUS
    <2>1. BaseInv
      BY InitBase
    <2> QED
      BY <2>1 DEF Init, NoState, Own, OneEntry
  <1>2. Inv /\ [Next]_vars => Inv'
    BY BaseStep, OwnStep
  <1>3. ASSUME Inv PROVE Act
    <2> SUFFICES ASSUME NEW k \in Names, Delete(k), NEW i \in DOMAIN Commit, Commit[i].path = mem[k].path
                 PROVE  FALSE
      OBVIOUS
    <2>1. TypeInv /\ pc = "delete" /\ k \in DOMAIN mem /\ k \notin CommitNames
      BY <1>3 DEF BaseInv, Foreign, Delete, Deletable
    <2>2. i \in Passed
      BY <2>1, AllPassed
    <2>3. k = Commit[i].name
      BY <1>3, <2>1, <2>2 DEF Own
    <2> QED
      BY <2>1, <2>3 DEF CommitNames
  <1>4. Inv => [Act]_vars
    BY <1>3
  <1> QED
    BY <1>1, <1>2, <1>4, PTL DEF Spec, DeclaredIsNotDeleted
-----------------------------------------------------------------------------
LEMMA OrderedIs ==
    ASSUME NEW h \in Histories
    PROVE  Ordered(h) \subseteq Nat /\ DOMAIN h.commits \subseteq Nat /\ h.maxFaults \in Nat
  <1>1. h.commits \in Seq(Seq(Resource)) /\ h.maxFaults \in Nat
    BY HistoryAssumption
  <1>2. DOMAIN h.commits \subseteq Nat
    BY <1>1, LenProperties
  <1> QED
    BY <1>1, <1>2 DEF Ordered

LEMMA EntryPath ==
    ASSUME TypeInv, NEW k, NEW e, From(k, e)
    PROVE  e.path \in Paths
  BY GivenIs DEF From, Resource
-----------------------------------------------------------------------------
\* From one commit to the next.
LEMMA TimeGoesOn ==
    ASSUME TypeInv, at \in Nat, [Next]_vars
    PROVE  /\ history' = history /\ at' \in Nat /\ at <= at'
           /\ Given(history)' = Given(history) /\ Ordered(history)' = Ordered(history)
           /\ \A path : Written(path)' <=> Written(path)
           /\ \A e : Answers(e)' <=> Answers(e)
  <1>1. history' = history /\ history \in Histories
    BY HistoryStays DEF TypeInv
  <1>2. at' \in Nat /\ at <= at'
    <2>1. CASE Begin \/ LoadFails
      BY <1>1, <2>1, OrderedIs DEF Begin, LoadFails
    <2>2. CASE Step \/ Crash
      BY <2>2, AtStays
    <2>3. CASE UNCHANGED vars
      BY <2>3 DEF vars
    <2> QED
      BY <2>1, <2>2, <2>3 DEF Next
  <1>3. Given(history)' = Given(history) /\ Ordered(history)' = Ordered(history)
    BY <1>1 DEF Given, Ordered
  <1> QED
    BY <1>1, <1>2, <1>3 DEF Written, Answers, Referred

\* Only what some commit writes is written.
LEMMA UntouchedStep == BaseInv /\ Untouched /\ [Next]_vars => Untouched'
  <1> SUFFICES ASSUME BaseInv, Untouched, [Next]_vars, NEW path \in Paths, ~Written(path)
               PROVE  live'[path] = NoValue
    BY HistoryStays DEF Untouched, Written, Given, Ordered
  <1>1. TypeInv /\ DOMAIN live = Paths /\ live[path] = NoValue
    BY DEF BaseInv, TypeInv, Untouched
  <1>2. ASSUME AtResource, R.method = "POST"
        PROVE  R.path # path
    BY <1>1, <1>2, AtHand DEF AtResource, Resources, Written
  <1>3. CASE Request \/ RequestFails
    <2>1. AtResource /\ R \in Resource
      BY <1>1, <1>3, AtHand DEF Request, RequestFails, NeedsRequest, AtResource, Resources
    <2>2. live' = live \/ (R.method = "POST" /\ live' = [live EXCEPT ![R.path] = Digest])
      BY <1>3, <2>1 DEF Request, RequestFails, Resource
    <2> QED
      BY <1>1, <1>2, <2>1, <2>2
  <1>4. ASSUME NEW k \in Names, Delete(k) \/ DeleteFails(k)
        PROVE  live'[path] = NoValue
    BY <1>1, <1>4 DEF Delete, DeleteFails
  <1>5. ASSUME live' = live
        PROVE  live'[path] = NoValue
    BY <1>1, <1>5
  <1> QED
    BY <1>3, <1>4, <1>5 DEF Next, Begin, LoadFails, Step, ResolveFails, SkipUnchanged, Migrate, SaveCreate,
                            StartDelete, SaveDelete, Finish, Crash, vars

\* Where nothing can fail, every step leaves the target as the state says.
LEMMA ExactStep ==
    ASSUME \A h \in Histories : PathsStay(h) /\ RenamesKeepData(h) /\ MethodsStay(h),
           BaseInv, Own, Exact, [Next]_vars
    PROVE  Exact'
  <1>1. /\ TypeInv /\ Known(mem) /\ Known(stored) /\ Kept /\ history' = history /\ history \in Histories
        /\ PathsStay(history) /\ RenamesKeepData(history) /\ MethodsStay(history)
    BY HistoryStays DEF BaseInv, TypeInv
  <1>2. at \in Nat /\ faults <= history.maxFaults /\ faults \in Nat /\ history.maxFaults \in Nat
    BY <1>1, OrderedIs DEF Exact, TypeInv
  <1>3. at' \in Nat /\ \A path : Written(path)' <=> Written(path)
    BY <1>1, <1>2, TimeGoesOn
  <1>4. faults' = faults \/ (faults < history.maxFaults /\ faults' = faults + 1)
    BY DEF Next, Begin, LoadFails, Step, ResolveFails, SkipUnchanged, Migrate, Request, RequestFails,
           SaveCreate, StartDelete, Delete, DeleteFails, SaveDelete, Finish, Crash, Fault, Works, vars
  <1>5. faults' <= history'.maxFaults
    BY <1>1, <1>2, <1>4
  <1> SUFFICES ASSUME history.maxFaults = 0, NEW k \in DOMAIN mem'
               PROVE  Shows(mem[k])'
    BY <1>1, <1>3, <1>5 DEF Exact
  <1>6. ~Fault /\ faults = 0 /\ \A l \in DOMAIN mem : Shows(mem[l])
    BY <1>2 DEF Exact, Fault
  <1>7. ASSUME live' = live, NEW l \in DOMAIN mem, mem'[k].path = mem[l].path, mem'[k].digest = mem[l].digest
        PROVE  Shows(mem[k])'
    BY <1>3, <1>6, <1>7 DEF Shows
  <1>8. CASE Begin
    <2>1. live' = live /\ mem' = Loaded(stored)
      BY <1>1, <1>8, BeginIs
    <2>2. mem' = Loaded(mem)
      BY <1>1, <1>6, <1>8, <2>1 DEF Kept, Clean, TypeInv, Begin, Running
    <2> QED
      BY <1>1, <1>7, <2>1, <2>2, LoadedIs
  <1>9. CASE ResolveFails \/ SkipUnchanged \/ SaveCreate \/ StartDelete \/ SaveDelete \/ Finish
             \/ UNCHANGED vars
    BY <1>7, <1>9 DEF ResolveFails, SkipUnchanged, SaveCreate, StartDelete, SaveDelete, Finish, vars
  <1>10. CASE Migrate
    <2>1. PICK l \in SamePath :
              /\ Migrates(l)
              /\ mem' = Put(Remove(mem, l), R.name, [mem[l] EXCEPT !.path = R.path])
      BY <1>10 DEF Migrate
    <2>2. live' = live /\ l \in DOMAIN mem /\ mem' = Put(Remove(mem, l), R.name, mem[l])
      BY <1>1, <1>10, <2>1, MigratedEntry DEF Migrate, SamePath
    <2>3. mem'[k] = mem[l] \/ (k \in DOMAIN mem /\ mem'[k] = mem[k])
      BY <2>2 DEF Put, Remove
    <2> QED
      BY <1>7, <2>2, <2>3
  <1>11. CASE Request
    <2>1. PICK e : e = Entry(Digest, R.deps, R.ignore, Response, R.path)
      OBVIOUS
    <2>2. /\ AtResource /\ NeedsRequest /\ mem' = Put(mem, R.name, e) /\ e.path = R.path /\ e.digest = Digest
          /\ live' = IF R.method = "GET" THEN live ELSE [live EXCEPT ![R.path] = Digest]
      BY <1>11, <2>1 DEF Request, NeedsRequest, Entry
    <2>3. R \in Given(history) /\ R \in Resource /\ DOMAIN live = Paths
      BY <1>1, <2>2, AtHand DEF AtResource, Resources, TypeInv
    <2>4. CASE k = R.name
      <3>1. mem'[k] = e
        BY <2>2, <2>4 DEF Put
      <3>2. R.method = "GET" => ~Written(R.path)
        BY <1>1, <2>3 DEF Written, MethodsStay
      <3>3. R.method # "GET" => live'[e.path] = e.digest
        BY <2>2, <2>3 DEF Resource
      <3> QED
        BY <1>3, <2>2, <3>1, <3>2, <3>3 DEF Shows
    <2>5. CASE k # R.name
      <3>1. k \in DOMAIN mem /\ mem'[k] = mem[k]
        BY <2>2, <2>5 DEF Put
      <3>2. mem[k].path # R.path
        BY <1>1, <2>2, <2>5, <3>1, PathIsFree DEF SamePath, Own
      <3>3. mem[k].path \in Paths
        BY <1>1, <3>1, EntryPath DEF Known
      <3>4. live'[mem[k].path] = live[mem[k].path]
        BY <2>2, <2>3, <3>2, <3>3
      <3> QED
        BY <1>3, <1>6, <3>1, <3>4 DEF Shows
    <2> QED
      BY <2>4, <2>5
  <1>12. ASSUME NEW l \in Names, Delete(l)
         PROVE  Shows(mem[k])'
    <2>1. /\ l \in DOMAIN mem /\ DOMAIN live = Paths /\ mem' = Remove(mem, l)
          /\ live' = live \/ live' = [live EXCEPT ![mem[l].path] = NoValue]
      BY <1>1, <1>12 DEF Delete, Deletable, BaseInv, Foreign, TypeInv
    <2>2. k \in DOMAIN mem /\ k # l /\ mem'[k] = mem[k]
      BY <2>1 DEF Remove
    <2>3. mem[k].path # mem[l].path
      BY <2>1, <2>2 DEF Own, OneEntry
    <2>4. mem[k].path \in Paths
      BY <1>1, <2>2, EntryPath DEF Known
    <2>5. live'[mem[k].path] = live[mem[k].path]
      BY <2>1, <2>3, <2>4
    <2> QED
      BY <1>3, <1>6, <2>2, <2>5 DEF Shows
  <1> QED
    BY <1>6, <1>8, <1>9, <1>10, <1>11, <1>12
       DEF Next, Step, LoadFails, Crash, RequestFails, DeleteFails

-----------------------------------------------------------------------------
\* What is not asked for is not asked for later.
LEMMA UnwantedStays ==
    ASSUME TypeInv, at \in Nat, [Next]_vars,
           NEW L, NEW M, L \subseteq M, NEW path, NEW g, Unwanted(L, path, g)
    PROVE  Unwanted(M, path, g)'
  <1>1. /\ history' = history /\ at' \in Nat /\ at <= at' /\ Ordered(history)' = Ordered(history)
        /\ Ordered(history) \subseteq Nat
    BY TimeGoesOn, OrderedIs DEF TypeInv
  <1>2. \A n \in Ordered(history) : at' <= n => at <= n
    BY <1>1
  <1> QED
    BY <1>1, <1>2 DEF Unwanted

\* What an entry tells of itself, it tells in the next state.
LEMMA ToldStays ==
    ASSUME TypeInv, at \in Nat, [Next]_vars, NEW st, NEW next, NEW L, NEW M, L \subseteq M,
           \A l \in DOMAIN st : \/ <<st[l].path, st[l].digest>> \in M
                                \/ \E k \in DOMAIN next : /\ next[k].path = st[l].path
                                                          /\ next[k].digest = st[l].digest,
           NEW e, Told(st, L, e), NEW f, f.path = e.path, f.digest = e.digest
    PROVE  Told(next, M, f)'
  <1>1. /\ history' = history /\ at' \in Nat /\ at <= at' /\ Ordered(history)' = Ordered(history)
        /\ Ordered(history) \subseteq Nat /\ Given(history)' = Given(history)
    BY TimeGoesOn, OrderedIs DEF TypeInv
  <1>2. PICK x \in Given(history) :
            /\ Seen(x) /\ x.path = e.path /\ e.digest = <<x.data, e.digest[2]>>
            /\ IF x.ref = NoValue THEN e.digest[2] = NoValue
               ELSE e.digest[2] # NoValue /\ e.digest[2] = <<"text", e.digest[2][2]>>
            /\ \A y \in Given(history) : x.ref = y.name => Held(st, L, y.path, e.digest[2][2])
    BY DEF Told
  <1>3. Seen(x)'
    <2>1. \A n \in Ordered(history) : n <= at => n <= at'
      BY <1>1
    <2> QED
      BY <1>1, <1>2, <2>1 DEF Seen, Lists
  <1>4. \A path, g : Held(st, L, path, g) => Held(next, M, path, g)
    BY DEF Held
  <1> QED
    BY <1>1, <1>2, <1>3, <1>4 DEF Told

\* The entries of the next state are those of one before, or new, and what is not there any
\* more is lost.
LEMMA TrackedStays ==
    ASSUME TypeInv, at \in Nat, [Next]_vars, NEW st, NEW next, NEW L, NEW M, L \subseteq M,
           Tracked(st, L),
           \A l \in DOMAIN st : \/ <<st[l].path, st[l].digest>> \in M
                                \/ \E k \in DOMAIN next : /\ next[k].path = st[l].path
                                                          /\ next[k].digest = st[l].digest,
           \A k \in DOMAIN next :
              \/ Told(next, M, next[k])' /\ Shown(M, next[k])' /\ Answers(next[k])
              \/ \E l \in DOMAIN st :
                    /\ next[k].path = st[l].path /\ next[k].digest = st[l].digest
                    /\ Answers(st[l]) => Answers(next[k])
                    /\ \/ live'[st[l].path] = live[st[l].path]
                       \/ live'[st[l].path] = st[l].digest
                       \/ <<st[l].path, st[l].digest>> \in M
    PROVE  Tracked(next, M)'
  <1>1. /\ \A path : Written(path)' <=> Written(path)
        /\ \A e : Answers(e)' <=> Answers(e)
    BY TimeGoesOn
  <1>2. ASSUME NEW k \in DOMAIN next, NEW l \in DOMAIN st,
               next[k].path = st[l].path, next[k].digest = st[l].digest,
               Answers(st[l]) => Answers(next[k]),
               \/ live'[st[l].path] = live[st[l].path]
               \/ live'[st[l].path] = st[l].digest
               \/ <<st[l].path, st[l].digest>> \in M
        PROVE  Told(next, M, next[k])' /\ Shown(M, next[k])' /\ Answers(next[k])
    <2>1. Told(st, L, st[l]) /\ Shown(L, st[l]) /\ Answers(st[l])
      BY DEF Tracked
    <2>2. Told(next, M, next[k])'
      BY <1>2, <2>1, ToldStays
    <2>3. Shown(M, next[k])'
      BY <1>1, <1>2, <2>1 DEF Shown
    <2> QED
      BY <1>2, <2>1, <2>2, <2>3
  <1>3. \A k \in DOMAIN next : Told(next, M, next[k])' /\ Shown(M, next[k])' /\ Answers(next[k])
    BY <1>2
  <1> QED
    BY <1>1, <1>3 DEF Tracked

\* What is asked for up to now and again later is asked for now.
LEMMA AskedForNow ==
    ASSUME at \in Ordered(history), NothingReturns(history), NEW x \in Given(history), Seen(x),
           NEW n \in Ordered(history), at <= n, Lists(history, n, x)
    PROVE  Lists(history, at, x)
  BY DEF Seen, NothingReturns

\* What is at the path of the resource at hand, and not what the resource is to be, is
\* not asked for any more: its data is lost, or what its template has taken.
LEMMA OtherIsUnwanted ==
    ASSUME TypeInv, PathsStay(history), RefsAreDeps(history), Distinct(history), RenamesKeepData(history),
           Forward(history), history.maxFaults > 0, Known(mem), OneEntry(mem),
           AtResource, CanResolve(R, mem), at \in Nat,
           NEW L, Losses(L), NEW e, e.path = R.path, e.digest # Digest,
           \/ \E k \in DOMAIN mem : e = mem[k]
           \/ \E k \in DOMAIN stored : e = stored[k]
    PROVE  Unwanted(L, e.path, e.digest)
  <1>1. /\ R \in Given(history) /\ R \in Resource /\ at \in Ordered(history) /\ R = Commit[Head(todo)]
        /\ Head(todo) \in DOMAIN Commit /\ Linted(Commit) /\ history \in Histories
    BY AtHand DEF AtResource, Resources, R, TypeInv
  <1>2. NothingReturns(history) /\ OneTemplate(history)
    BY DEF Forward
  <1>3. PICK st : Told(st, L, e) /\ (st = mem \/ st = stored)
    BY DEF Losses, Tracked
  <1>4. PICK x \in Given(history) :
            /\ Seen(x) /\ x.path = e.path /\ e.digest = <<x.data, e.digest[2]>>
            /\ IF x.ref = NoValue THEN e.digest[2] = NoValue
               ELSE e.digest[2] # NoValue /\ e.digest[2] = <<"text", e.digest[2][2]>>
            /\ \A y \in Given(history) : x.ref = y.name => Held(st, L, y.path, e.digest[2][2])
    BY <1>3 DEF Told
  <1>5. x \in Resource
    BY GivenIs
  <1>6. ASSUME NEW n \in Ordered(history), at <= n, NEW i \in DOMAIN history.commits[n],
               NEW z, z = history.commits[n][i], z.path = e.path, z.data = e.digest[1], z.ref = x.ref
        PROVE  R.data = x.data /\ R.ref = x.ref
    <2>3. Lists(history, n, x)
      BY <1>4, <1>6 DEF Lists
    <2>4. PICK j \in DOMAIN Commit : Commit[j].path = x.path /\ Commit[j].data = x.data /\ Commit[j].ref = x.ref
      <3>1. Lists(history, at, x)
        BY <1>1, <1>2, <1>4, <1>6, <2>3, AskedForNow
      <3> QED
        BY <3>1 DEF Lists, Commit
    <2>5. j = Head(todo)
      BY <1>1, <1>4, <2>4, CommitPathsDiffer DEF AtResource
    <2> QED
      BY <1>1, <2>4, <2>5
  <1>7. ASSUME NEW n \in Ordered(history), at <= n, NEW i \in DOMAIN history.commits[n],
               NEW j \in DOMAIN history.commits[n],
               NEW z, z = history.commits[n][i], z.path = e.path, z.data = e.digest[1],
               NEW y, y = history.commits[n][j], z.ref = y.name, e.digest[2] # NoValue
        PROVE  <<y.path, e.digest[2][2]>> \in L
    <2>1. z \in Given(history) /\ y \in Given(history) /\ y.name # NoValue
      BY <1>7, GivenIs, ApplyAssumption DEF Given, Resource
    <2>2. x.ref = z.ref
      BY <1>2, <1>4, <1>7, <2>1 DEF OneTemplate
    <2>3. R.data = x.data /\ R.ref = y.name
      BY <1>6, <1>7, <2>2
    <2>4. Held(st, L, y.path, e.digest[2][2])
      BY <1>4, <1>7, <2>1, <2>2
    <2>5. y.name \in DOMAIN mem /\ mem[y.name].response # NoValue /\ Digest = <<R.data, mem[y.name].response>>
      BY <2>1, <2>3 DEF CanResolve, Digest, Resolve
    <2>6. mem[y.name].path = y.path
      BY <2>1, <2>5, EntryHasPath
    <2>7. Referred(y.path)
      BY <1>1, <2>1, <2>3 DEF Referred
    <2>8. mem[y.name].response = <<"text", mem[y.name].digest>>
      BY <2>5, <2>6, <2>7 DEF Losses, Tracked, Answers
    <2>9. Digest[2] = mem[y.name].response /\ e.digest[2] # Digest[2]
      BY <1>4, <2>3, <2>5
    <2> SUFFICES ASSUME <<y.path, e.digest[2][2]>> \notin L PROVE FALSE
      OBVIOUS
    <2>10. PICK k \in DOMAIN st : st[k].path = y.path /\ st[k].digest = e.digest[2][2]
      BY <2>4 DEF Held
    <2>11. mem[y.name].digest = e.digest[2][2]
      <3>1. CASE st = mem
        BY <2>5, <2>6, <2>10, <3>1 DEF OneEntry
      <3>2. CASE st = stored
        BY <2>5, <2>6, <2>10, <3>2 DEF Losses, Behind
      <3> QED
        BY <1>3, <3>1, <3>2
    <2> QED
      BY <1>4, <1>7, <2>1, <2>2, <2>8, <2>9, <2>11
  <1>8. ASSUME NEW n \in Ordered(history), at <= n, NEW i \in DOMAIN history.commits[n],
               NEW z, z = history.commits[n][i], z.path = e.path, z.data = e.digest[1],
               z.ref = NoValue
        PROVE  e.digest[2] # NoValue
    <2> SUFFICES ASSUME e.digest[2] = NoValue PROVE FALSE
      OBVIOUS
    <2>1. x.ref = NoValue
      BY <1>4
    <2>2. R.data = x.data /\ R.ref = NoValue
      BY <1>6, <1>8, <2>1
    <2> QED
      BY <1>4, <2>2 DEF Digest, Resolve
  <1> QED
    BY <1>7, <1>8 DEF Unwanted

\* What the state has at a path from which something is deleted is not asked for any more:
\* the commit has nothing there.
LEMMA DeletedIsUnwanted ==
    ASSUME BaseInv, Own, at \in Nat, NothingReturns(history), OneTemplate(history),
           pc = "delete", NEW k \in gone,
           NEW L, NEW st, NEW e, Told(st, L, e), e.path = mem[k].path
    PROVE  Unwanted(L, e.path, e.digest)
  <1>1. TypeInv /\ k \in DOMAIN mem /\ k \notin CommitNames /\ at \in Ordered(history) /\ Passed = DOMAIN Commit
    BY AllPassed DEF BaseInv, Foreign, TypeInv
  <1>2. \A j \in DOMAIN Commit : Commit[j].path # e.path
    BY <1>1 DEF Own, CommitNames
  <1>3. PICK x \in Given(history) :
            /\ Seen(x) /\ x.path = e.path /\ e.digest = <<x.data, e.digest[2]>>
            /\ IF x.ref = NoValue THEN e.digest[2] = NoValue
               ELSE e.digest[2] # NoValue /\ e.digest[2] = <<"text", e.digest[2][2]>>
    BY DEF Told
  <1>4. ASSUME NEW n \in Ordered(history), at <= n, NEW i \in DOMAIN history.commits[n],
               NEW z, z = history.commits[n][i], z.path = e.path, z.data = e.digest[1]
        PROVE  z.ref # x.ref /\ (z.ref = NoValue \/ x.ref = NoValue)
    <2>1. z.ref # x.ref
      <3>1. z.path = x.path /\ z.data = x.data /\ Seen(x) /\ TypeInv
        BY <1>1, <1>3, <1>4
      <3> SUFFICES ASSUME z.ref = x.ref PROVE FALSE
        OBVIOUS
      <3>2. Lists(history, n, x)
        BY <1>4, <3>1 DEF Lists
      <3>3. Lists(history, at, x)
        BY <1>1, <1>4, <3>1, <3>2, AskedForNow
      <3> QED
        BY <1>2, <1>3, <3>3 DEF Lists, Commit
    <2>2. z \in Given(history)
      BY <1>4 DEF Given
    <2> QED
      BY <1>3, <1>4, <2>1, <2>2 DEF OneTemplate
  <1>5. ASSUME NEW n \in Ordered(history), at <= n, NEW i \in DOMAIN history.commits[n],
               NEW j \in DOMAIN history.commits[n],
               NEW z, z = history.commits[n][i], z.path = e.path, z.data = e.digest[1],
               NEW y, y = history.commits[n][j]
        PROVE  /\ z.ref = NoValue => e.digest[2] # NoValue
               /\ z.ref = y.name => e.digest[2] = NoValue
    <2>1. y \in Given(history)
      BY <1>5 DEF Given
    <2>2. y.name # NoValue
      BY <1>1, <2>1, GivenIs, ApplyAssumption DEF Resource
    <2> QED
      BY <1>3, <1>4, <1>5, <2>2
  <1> QED
    BY <1>5 DEF Unwanted

\* As long as the run has ignored nothing, what the resource at hand is to be is not lost:
\* what its template takes is not.
LEMMA FreshAtHand ==
    ASSUME BaseInv, PathsStay(history), RefsAreDeps(history), at \in Nat,
           AtResource, CanResolve(R, mem), ~ignored, NEW L, Losses(L)
    PROVE  <<R.path, Digest>> \notin L
  <1>1. /\ TypeInv /\ InOrder /\ Known(mem) /\ R \in Given(history) /\ at \in Ordered(history)
        /\ Head(todo) \in DOMAIN Commit /\ R = Commit[Head(todo)] /\ pc = "create" /\ todo # <<>>
    BY AtHand DEF BaseInv, AtResource, Resources, R
  <1> SUFFICES ASSUME <<R.path, Digest>> \in L PROVE FALSE
    OBVIOUS
  <1>2. Unwanted(L, R.path, Digest) /\ at <= at
    BY DEF Losses
  <1>3. Digest[1] = R.data
    BY ResolveIs DEF Digest
  <1>4. \A j \in DOMAIN Commit :
            /\ R.ref = NoValue => Digest[2] # NoValue
            /\ R.ref = Commit[j].name /\ Digest[2] # NoValue => <<Commit[j].path, Digest[2][2]>> \in L
    BY <1>1, <1>2, <1>3 DEF Unwanted, Commit
  <1>5. R.ref # NoValue
    BY <1>1, <1>4 DEF Digest, Resolve
  <1>6. PICK j \in DOMAIN Commit : Commit[j].name = R.ref /\ Commit[j].name \in R.deps
    BY <1>1, <1>5, RefIsGiven
  <1>7. j \in Passed
    BY <1>1, <1>6, DependenciesPassed
  <1> DEFINE y == Commit[j]
  <1>8. y.name \in DOMAIN mem /\ mem[y.name].response # NoValue /\ Digest[2] = mem[y.name].response
    BY <1>5, <1>6 DEF CanResolve, Digest, Resolve
  <1>9. y \in Given(history) /\ mem[y.name].path = y.path
    BY <1>1, <1>8, CommitIsGiven, EntryHasPath
  <1>10. Referred(y.path)
    BY <1>1, <1>6, <1>9 DEF Referred
  <1>11. Digest[2][2] = mem[y.name].digest
    BY <1>8, <1>9, <1>10 DEF Losses, Tracked, Answers
  <1>12. <<y.path, mem[y.name].digest>> \in L
    BY <1>4, <1>6, <1>8, <1>11
  <1>13. <<mem[y.name].path, mem[y.name].digest>> \notin L
    BY <1>1, <1>7, <1>8, <1>9 DEF Losses, Fresh
  <1> QED
    BY <1>9, <1>12, <1>13

-----------------------------------------------------------------------------
\* The digests that a state has at a path, but for those in S.
LostAt(st, path, S) == {<<path, st[k].digest>> : k \in {l \in DOMAIN st : st[l].path = path /\ st[l].digest \notin S}}

LEMMA LostAtIs ==
    ASSUME NEW st, NEW path, NEW S
    PROVE  /\ \A k \in DOMAIN st : st[k].path = path /\ st[k].digest \notin S =>
                  <<st[k].path, st[k].digest>> \in LostAt(st, path, S)
           /\ \A l \in LostAt(st, path, S) :
                  /\ l[1] = path /\ l[2] \notin S
                  /\ \E k \in DOMAIN st : st[k].path = path /\ st[k].digest = l[2]
  BY DEF LostAt

\* How the losses of one state become those of the next.
LEMMA LossesGrow ==
    ASSUME TypeInv, at \in Nat, [Next]_vars, NEW L, Losses(L), NEW M, L \subseteq M,
           \A l \in M \ L : Unwanted(L, l[1], l[2]),
           Tracked(mem, M)', Tracked(stored, M)', Behind(stored, mem, M)', Fresh(M)'
    PROVE  Through'
  <1>1. ASSUME NEW l \in M
        PROVE  Unwanted(M, l[1], l[2])'
    <2>1. Unwanted(L, l[1], l[2])
      BY DEF Losses
    <2> QED
      BY <2>1, UnwantedStays
  <1>2. Losses(M)'
    BY <1>1 DEF Losses
  <1> QED
    BY <1>2 DEF Through

\* Nothing changes but what is stored.
LEMMA QuietLosses ==
    ASSUME TypeInv, at \in Nat, [Next]_vars, NEW L, Losses(L), OneEntry(mem), OneEntry(stored),
           live' = live,
           \/ mem' = mem /\ (stored' = stored \/ stored' = mem)
           \/ mem' = stored /\ stored' = stored,
           Fresh(L)'
    PROVE  Through'
  <1>1. Tracked(mem, L) /\ Tracked(stored, L) /\ Behind(stored, mem, L)
    BY DEF Losses
  <1>2. ASSUME NEW st, Tracked(st, L)
        PROVE  Tracked(st, L)'
    BY <1>2, TrackedStays
  <1>3. Tracked(mem, L)' /\ Tracked(stored, L)'
    <2>1. PICK s, t : s = mem' /\ t = stored'
      OBVIOUS
    <2>2. Tracked(s, L)' /\ Tracked(t, L)'
      BY <1>1, <1>2, <2>1
    <2> QED
      BY <2>1, <2>2 DEF Tracked
  <1>4. Behind(stored, mem, L)'
    BY <1>1 DEF Behind, OneEntry
  <1> QED
    BY <1>3, <1>4, LossesGrow

\* The condition on the histories in which something can fail.
Risky(h) == /\ PathsStay(h) /\ RefsAreDeps(h) /\ Distinct(h) /\ NoNumbers(h)
            /\ RenamesKeepData(h) /\ MethodsStay(h) /\ Forward(h)

\* The run comes to the next resource, which is in place.
LEMMA FreshGrows ==
    ASSUME BaseInv, Risky(history), Own, at \in Nat, AtResource, CanResolve(R, mem),
           Step, NEW L, Losses(L), NEW M, L \subseteq M,
           \A l \in M \ L : l[1] = R.path /\ l[2] # Digest,
           pc' \in {"create", "saveCreate"}, todo' = IF pc' = "saveCreate" THEN todo ELSE Tail(todo),
           ignored' = ignored, history' = history,
           \A k \in DOMAIN mem' :
              \/ mem'[k].path = R.path /\ mem'[k].digest = Digest
              \/ k \in DOMAIN mem /\ mem'[k] = mem[k] /\ mem[k].path # R.path
    PROVE  Fresh(M)'
  <1>1. /\ TypeInv /\ Known(mem) /\ Commit' = Commit /\ todo # <<>> /\ Resources /\ pc \notin {"idle", "failed"}
        /\ PathsStay(history) /\ RefsAreDeps(history)
    BY AtStays DEF BaseInv, Risky, Commit, AtResource, Resources
  <1>2. Passed' \subseteq Passed \cup {Head(todo)}
    BY <1>1, PassedGrows
  <1> SUFFICES ASSUME ~ignored, NEW i \in Passed', NEW k \in DOMAIN mem', mem'[k].path = Commit[i].path
               PROVE  <<mem'[k].path, mem'[k].digest>> \notin M
    BY <1>1 DEF Fresh
  <1>3. CASE mem'[k].path = R.path /\ mem'[k].digest = Digest
    BY <1>1, <1>3, FreshAtHand DEF Risky
  <1>4. CASE k \in DOMAIN mem /\ mem'[k] = mem[k] /\ mem[k].path # R.path
    <2>1. i \in Passed
      BY <1>2, <1>4 DEF R
    <2>2. <<mem[k].path, mem[k].digest>> \notin L
      BY <1>1, <1>4, <2>1 DEF Losses, Fresh
    <2> QED
      BY <1>4, <2>2
  <1> QED
    BY <1>3, <1>4

\* The run is where it was, and nothing is lost of what the commit declares.
LEMMA FreshKept ==
    ASSUME NEW L, Losses(L), NEW M, L \subseteq M,
           pc' \in {"idle", "failed"} \/ ignored' \/
              /\ pc \notin {"idle", "failed"} /\ ~ignored /\ Commit' = Commit /\ Passed' = Passed
              /\ \A k \in DOMAIN mem' : k \in DOMAIN mem /\ mem'[k] = mem[k]
              /\ \A l \in M \ L : \A i \in Passed : Commit[i].path # l[1]
    PROVE  Fresh(M)'
  <1> SUFFICES ASSUME pc' \notin {"idle", "failed"}, ~ignored',
                      NEW i \in Passed', NEW k \in DOMAIN mem', mem'[k].path = Commit'[i].path
               PROVE  <<mem'[k].path, mem'[k].digest>> \notin M
    BY DEF Fresh
  <1>1. i \in Passed /\ k \in DOMAIN mem /\ mem'[k] = mem[k] /\ mem[k].path = Commit[i].path
    OBVIOUS
  <1>2. <<mem[k].path, mem[k].digest>> \notin L
    BY <1>1 DEF Losses, Fresh
  <1> QED
    BY <1>1, <1>2

-----------------------------------------------------------------------------
\* One kind of step after the other: which digests are lost by it.
LEMMA BeginLosses ==
    ASSUME BaseInv, Risky(history), Own, at \in Nat, Begin, NEW L, Losses(L)
    PROVE  Through'
  <1>1. /\ TypeInv /\ Known(stored) /\ mem' = Loaded(stored) /\ stored' = stored /\ live' = live
        /\ [Next]_vars /\ OneEntry(stored) /\ Tracked(stored, L)
    BY BeginIs DEF BaseInv, Own, Losses, Next
  <1>2. PICK t : t = Loaded(stored)
    OBVIOUS
  <1>3. /\ DOMAIN t = DOMAIN stored
        /\ \A k \in DOMAIN t : /\ t[k].path = stored[k].path /\ t[k].digest = stored[k].digest
                               /\ t[k].path \notin Numeric => t[k] = stored[k]
    BY <1>1, <1>2, LoadedIs
  <1>4. ASSUME NEW k \in DOMAIN t, Answers(stored[k])
        PROVE  Answers(t[k])
    <2>1. Referred(t[k].path) => t[k].path \notin Numeric
      BY DEF Risky, NoNumbers, Referred
    <2> QED
      BY <1>3, <1>4, <2>1 DEF Answers
  <1>5. PICK s : s = stored
    OBVIOUS
  <1>6. Tracked(s, L)' /\ Tracked(t, L)'
    BY <1>1, <1>3, <1>4, <1>5, TrackedStays
  <1>7. Tracked(stored, L)' /\ Tracked(mem, L)'
    BY <1>1, <1>2, <1>5, <1>6 DEF Tracked
  <1>8. Behind(stored, mem, L)'
    BY <1>1, <1>2, <1>3 DEF Behind, OneEntry
  <1>9. Fresh(L)'
    <2>1. CASE pc' = "failed"
      BY <2>1, FreshKept
    <2>2. CASE pc' = "create"
      <3>1. Passed' = {}
        BY <1>1, <2>2, BeginIs DEF Passed, Elements
      <3> QED
        BY <3>1 DEF Fresh
    <2> QED
      BY <1>1, <2>1, <2>2, BeginIs
  <1> QED
    BY <1>1, <1>7, <1>8, <1>9, LossesGrow

\* Nothing is lost where the target stays as it is.
LEMMA StandStillLosses ==
    ASSUME BaseInv, Risky(history), Own, at \in Nat, NEW L, Losses(L),
           \/ LoadFails \/ Crash \/ ResolveFails \/ SkipUnchanged \/ SaveCreate \/ StartDelete
           \/ SaveDelete \/ Finish \/ UNCHANGED vars
    PROVE  Through'
  <1>1. TypeInv /\ Known(mem) /\ OneEntry(mem) /\ OneEntry(stored) /\ [Next]_vars /\ PathsStay(history)
    BY DEF BaseInv, Own, Risky, Next, Step
  <1>2. /\ live' = live
        /\ \/ mem' = mem /\ (stored' = stored \/ stored' = mem)
           \/ mem' = stored /\ stored' = stored
    BY DEF LoadFails, Crash, ResolveFails, SkipUnchanged, SaveCreate, StartDelete, SaveDelete, Finish, vars
  <1>3. Step => Commit' = Commit
    BY <1>1, AtStays, HistoryStays DEF Commit
  <1>4. CASE LoadFails \/ Crash \/ ResolveFails
    <2>1. pc' = "failed" \/ ignored'
      BY <1>4 DEF LoadFails, Crash, ResolveFails, GiveUpOrSkip
    <2> QED
      BY <1>1, <1>2, <2>1, FreshKept, QuietLosses
  <1>5. CASE SkipUnchanged
    <2>1. /\ AtResource /\ CanResolve(R, mem) /\ Step /\ pc' = "create" /\ todo' = Tail(todo)
          /\ ignored' = ignored /\ history' = history /\ mem' = mem
          /\ R.name \in DOMAIN mem /\ mem[R.name].digest = Digest
      BY <1>5 DEF SkipUnchanged, AtResource, Step, Advance, Unchanged
    <2>2. R \in Given(history)
      BY <1>1, <2>1, AtHand DEF AtResource, Resources
    <2>3. mem[R.name].path = R.path
      BY <1>1, <2>1, <2>2, EntryHasPath
    <2>4. \A k \in DOMAIN mem : k # R.name => mem[k].path # R.path
      BY <1>1, <2>1, <2>3 DEF OneEntry
    <2>5. Fresh(L)'
      BY <2>1, <2>3, <2>4, FreshGrows
    <2> QED
      BY <1>1, <1>2, <2>5, QuietLosses
  <1>6. CASE SaveCreate
    <2>1. /\ Step /\ pc = "saveCreate" /\ todo # <<>> /\ mem' = mem
          /\ \/ pc' = "failed" \/ ignored'
             \/ pc' = "create" /\ todo' = Tail(todo) /\ ignored' = ignored
      BY <1>1, <1>6 DEF SaveCreate, GiveUpOrSkip, Advance, Step, TypeInv
    <2>2. CASE pc' = "failed" \/ ignored'
      BY <1>1, <1>2, <2>2, FreshKept, QuietLosses
    <2>3. CASE pc' = "create" /\ todo' = Tail(todo) /\ ignored' = ignored
      <3>1. Passed' = Passed
        BY <1>1, <1>3, <2>1, <2>3, PassedGrows DEF Resources
      <3>2. CASE ignored
        BY <1>1, <1>2, <2>3, <3>2, FreshKept, QuietLosses
      <3>3. CASE ~ignored
        BY <1>1, <1>2, <1>3, <2>1, <3>1, <3>3, FreshKept, QuietLosses
      <3> QED
        BY <3>2, <3>3
    <2> QED
      BY <2>1, <2>2, <2>3
  <1>7. CASE StartDelete \/ SaveDelete \/ Finish
    <2>1. /\ Step /\ mem' = mem /\ todo' = todo
          /\ pc \in {"create", "delete", "saveDelete"} /\ pc' \in {"delete", "done", "failed"}
          /\ ignored' = ignored \/ ignored'
      BY <1>7 DEF StartDelete, SaveDelete, Finish, Step
    <2>2. Passed' = Passed
      BY <1>3, <2>1 DEF Passed, Elements
    <2>3. CASE ignored \/ ignored'
      <3>1. ignored'
        BY <2>1, <2>3
      <3> QED
        BY <1>1, <1>2, <3>1, FreshKept, QuietLosses
    <2>4. CASE ~ignored
      BY <1>1, <1>2, <1>3, <2>1, <2>2, <2>4, FreshKept, QuietLosses
    <2> QED
      BY <2>3, <2>4
  <1>8. CASE UNCHANGED vars
    <2>1. Passed' = Passed /\ Commit' = Commit /\ mem' = mem /\ pc' = pc /\ ignored' = ignored
      BY <1>8 DEF vars, Passed, Elements, Commit
    <2>2. Fresh(L)'
      BY <2>1 DEF Losses, Fresh
    <2> QED
      BY <1>1, <1>2, <2>2, QuietLosses
  <1> QED
    BY <1>4, <1>5, <1>6, <1>7, <1>8

\* Nor where an entry only changes its name.
LEMMA MigrateLosses ==
    ASSUME BaseInv, Risky(history), Own, at \in Nat, NEW L, Losses(L), Migrate
    PROVE  Through'
  <1>1. /\ TypeInv /\ Known(mem) /\ OneEntry(mem) /\ [Next]_vars /\ AtResource /\ CanResolve(R, mem)
        /\ Tracked(mem, L) /\ Tracked(stored, L) /\ Behind(stored, mem, L)
    BY DEF BaseInv, Own, Losses, Migrate, Next, Step
  <1>2. PICK k \in SamePath :
            /\ Migrates(k)
            /\ mem' = Put(Remove(mem, k), R.name, [mem[k] EXCEPT !.path = R.path])
    BY DEF Migrate
  <1>3. /\ k \in DOMAIN mem /\ mem[k].path = R.path /\ mem[k].digest = Digest
        /\ mem' = Put(Remove(mem, k), R.name, mem[k])
        /\ R.name \notin DOMAIN mem
    BY <1>1, <1>2, MigratedEntry DEF SamePath, Migrates
  <1>4. PICK t : t = mem'
    OBVIOUS
  <1>5. /\ DOMAIN t = (DOMAIN mem \ {k}) \cup {R.name} /\ t[R.name] = mem[k]
        /\ \A l \in DOMAIN mem : l # k => t[l] = mem[l]
    BY <1>3, <1>4 DEF Put, Remove
  <1>6. live' = live /\ stored' = stored
    BY DEF Migrate
  <1>7. /\ \A l \in DOMAIN mem : \E j \in DOMAIN t : t[j] = mem[l]
        /\ \A j \in DOMAIN t : \E l \in DOMAIN mem : t[j] = mem[l]
    BY <1>3, <1>5
  <1>8. PICK s : s = stored
    OBVIOUS
  <1>9. Tracked(s, L)' /\ Tracked(t, L)'
    BY <1>1, <1>6, <1>7, <1>8, TrackedStays
  <1>10. Tracked(stored, L)' /\ Tracked(mem, L)'
    BY <1>4, <1>6, <1>8, <1>9 DEF Tracked
  <1>11. Behind(stored, mem, L)'
    BY <1>1, <1>4, <1>6, <1>7 DEF Behind
  <1>12. ASSUME NEW j \in DOMAIN t
         PROVE  \/ t[j].path = R.path /\ t[j].digest = Digest
                \/ j \in DOMAIN mem /\ t[j] = mem[j] /\ mem[j].path # R.path
    <2>1. CASE j = R.name
      BY <1>3, <1>5, <2>1
    <2>2. CASE j # R.name
      <3>1. j \in DOMAIN mem /\ j # k /\ t[j] = mem[j]
        BY <1>5, <2>2
      <3>2. mem[j].path # mem[k].path
        BY <1>1, <1>3, <3>1 DEF OneEntry
      <3> QED
        BY <1>3, <3>1, <3>2
    <2> QED
      BY <2>1, <2>2
  <1>13. /\ Step /\ pc' = "saveCreate" /\ todo' = todo /\ ignored' = ignored /\ history' = history
    BY DEF Migrate, Step
  <1>14. Fresh(L)'
    BY <1>1, <1>4, <1>12, <1>13, FreshGrows
  <1> QED
    BY <1>1, <1>10, <1>11, <1>14, LossesGrow

\* What a request leaves of the entries at the path of the resource at hand: they say what
\* the resource is to be, or are lost.
LEMMA RequestLeaves ==
    ASSUME BaseInv, Risky(history), Own, at \in Nat, history.maxFaults > 0, AtResource, CanResolve(R, mem),
           live' = live \/ live' = [live EXCEPT ![R.path] = Digest],
           NEW L, Losses(L), NEW M,
           M = L \cup LostAt(mem, R.path, {Digest}) \cup LostAt(stored, R.path, {Digest}),
           NEW st, st = mem \/ st = stored
    PROVE  /\ \A l \in M \ L : l[1] = R.path /\ l[2] # Digest /\ Unwanted(L, l[1], l[2])
           /\ \A k \in DOMAIN st :
                 /\ \/ live'[st[k].path] = live[st[k].path]
                    \/ live'[st[k].path] = st[k].digest
                    \/ <<st[k].path, st[k].digest>> \in M
                 /\ st[k].path = R.path => st[k].digest = Digest \/ <<st[k].path, st[k].digest>> \in M
  <1>1. /\ TypeInv /\ Known(mem) /\ Known(stored) /\ OneEntry(mem)
        /\ PathsStay(history) /\ RefsAreDeps(history) /\ Distinct(history) /\ RenamesKeepData(history)
        /\ Forward(history) /\ DOMAIN live = Paths
    BY DEF BaseInv, Own, Risky, TypeInv
  <1>2. R.path \in Paths
    BY <1>1, AtHand DEF AtResource, Resources, Resource
  <1>3. ASSUME NEW s, s = mem \/ s = stored, NEW l \in LostAt(s, R.path, {Digest})
        PROVE  l[1] = R.path /\ l[2] # Digest /\ Unwanted(L, l[1], l[2])
    <2>1. l[1] = R.path /\ l[2] # Digest /\ \E k \in DOMAIN s : s[k].path = R.path /\ s[k].digest = l[2]
      BY <1>3, LostAtIs
    <2>2. PICK k \in DOMAIN s : s[k].path = R.path /\ s[k].digest = l[2]
      BY <2>1
    <2>3. PICK e : e = s[k]
      OBVIOUS
    <2>4. \/ \E j \in DOMAIN mem : e = mem[j]
          \/ \E j \in DOMAIN stored : e = stored[j]
      BY <1>3, <2>3
    <2>5. Unwanted(L, e.path, e.digest)
      BY <1>1, <2>1, <2>2, <2>3, <2>4, OtherIsUnwanted
    <2> QED
      BY <2>1, <2>2, <2>3, <2>5
  <1>4. \A l \in M \ L : l[1] = R.path /\ l[2] # Digest /\ Unwanted(L, l[1], l[2])
    BY <1>3
  <1>5. ASSUME NEW k \in DOMAIN st
        PROVE  st[k].path = R.path => st[k].digest = Digest \/ <<st[k].path, st[k].digest>> \in M
    BY LostAtIs
  <1>6. ASSUME NEW k \in DOMAIN st, st[k].path # R.path
        PROVE  live'[st[k].path] = live[st[k].path]
    <2>1. st[k].path \in Paths
      BY <1>1, EntryPath DEF Known
    <2> QED
      BY <1>1, <1>2, <1>6, <2>1
  <1>7. live'[R.path] = live[R.path] \/ live'[R.path] = Digest
    BY <1>1, <1>2
  <1> QED
    BY <1>4, <1>5, <1>6, <1>7

\* A request that fails, and may have taken effect: the target has the old or the new.
LEMMA RequestFailsLosses ==
    ASSUME BaseInv, Risky(history), Own, at \in Nat, history.maxFaults > 0, NEW L, Losses(L), RequestFails
    PROVE  Through'
  <1>1. /\ TypeInv /\ [Next]_vars /\ AtResource /\ CanResolve(R, mem)
        /\ live' = live \/ live' = [live EXCEPT ![R.path] = Digest]
        /\ mem' = mem /\ stored' = stored /\ (pc' = "failed" \/ ignored')
        /\ Tracked(mem, L) /\ Tracked(stored, L) /\ Behind(stored, mem, L)
    BY DEF BaseInv, RequestFails, NeedsRequest, GiveUpOrSkip, Next, Step, Losses
  <1>2. PICK M : M = L \cup LostAt(mem, R.path, {Digest}) \cup LostAt(stored, R.path, {Digest})
    OBVIOUS
  <1>3. ASSUME NEW st, st = mem \/ st = stored
        PROVE  /\ \A l \in M \ L : Unwanted(L, l[1], l[2])
               /\ \A k \in DOMAIN st : \/ live'[st[k].path] = live[st[k].path]
                                       \/ live'[st[k].path] = st[k].digest
                                       \/ <<st[k].path, st[k].digest>> \in M
    BY <1>1, <1>2, <1>3, RequestLeaves
  <1>4. PICK s, t : s = mem /\ t = stored
    OBVIOUS
  <1>5. Tracked(s, M)' /\ Tracked(t, M)'
    BY <1>1, <1>2, <1>3, <1>4, TrackedStays
  <1>6. Tracked(mem, M)' /\ Tracked(stored, M)'
    BY <1>1, <1>4, <1>5 DEF Tracked
  <1>7. Behind(stored, mem, M)'
    BY <1>1, <1>2 DEF Behind
  <1>8. Fresh(M)'
    BY <1>1, <1>2, FreshKept
  <1> QED
    BY <1>1, <1>2, <1>3, <1>4, <1>6, <1>7, <1>8, LossesGrow

\* The new entry of the resource at hand tells of the resource.
LEMMA RequestTells ==
    ASSUME BaseInv, Risky(history), Own, at \in Nat, AtResource, CanResolve(R, mem),
           NEW L, Losses(L), NEW M, NEW next,
           \A l \in DOMAIN mem : l # R.name => l \in DOMAIN next /\ next[l] = mem[l],
           NEW e, e.path = R.path, e.digest = Digest
    PROVE  Told(next, M, e)
  <1>1. /\ TypeInv /\ InOrder /\ Known(mem) /\ PathsStay(history) /\ RefsAreDeps(history)
        /\ R \in Given(history) /\ at \in Ordered(history) /\ Linted(Commit)
        /\ Head(todo) \in DOMAIN Commit /\ R = Commit[Head(todo)] /\ pc = "create" /\ todo # <<>>
    BY AtHand DEF BaseInv, Risky, AtResource, Resources, R
  <1>2. Seen(R)
    BY <1>1 DEF Seen, Lists, Commit
  <1>3. Digest = <<R.data, Digest[2]>> /\ (R.ref = NoValue => Digest[2] = NoValue)
    BY DEF Digest, Resolve
  <1>4. ASSUME R.ref # NoValue
        PROVE  \E y \in Given(history) :
                  /\ y.name = R.ref /\ y.name # R.name /\ y.name \in DOMAIN mem /\ mem[y.name].path = y.path
                  /\ Digest[2] # NoValue /\ Digest[2] = <<"text", mem[y.name].digest>>
    <2>1. PICK j \in DOMAIN Commit : Commit[j].name = R.ref /\ Commit[j].name \in R.deps
      BY <1>1, <1>4, RefIsGiven
    <2>2. j \in Passed /\ Head(todo) \notin Passed
      BY <1>1, <2>1, DependenciesPassed
    <2> DEFINE y == Commit[j]
    <2>3. y.name # R.name
      BY <1>1, <2>2 DEF Linted
    <2>4. y.name \in DOMAIN mem /\ mem[y.name].response # NoValue /\ Digest[2] = mem[y.name].response
      BY <1>4, <2>1 DEF CanResolve, Digest, Resolve
    <2>5. y \in Given(history)
      BY <1>1, CommitIsGiven
    <2>6. mem[y.name].path = y.path
      BY <1>1, <2>4, <2>5, EntryHasPath
    <2>7. Referred(mem[y.name].path)
      BY <1>1, <2>1, <2>5, <2>6 DEF Referred
    <2>8. mem[y.name].response = <<"text", mem[y.name].digest>>
      BY <2>4, <2>7 DEF Losses, Tracked, Answers
    <2> QED
      BY <2>1, <2>3, <2>4, <2>5, <2>6, <2>8
  <1>5. CASE R.ref = NoValue
    <2>1. \A y \in Given(history) : R.ref # y.name
      BY <1>1, <1>5, GivenIs, ApplyAssumption DEF Resource
    <2> QED
      BY <1>1, <1>2, <1>3, <1>5, <2>1 DEF Told
  <1>6. CASE R.ref # NoValue
    <2>1. PICK y \in Given(history) :
              /\ y.name = R.ref /\ y.name # R.name /\ y.name \in DOMAIN mem /\ mem[y.name].path = y.path
              /\ Digest[2] # NoValue /\ Digest[2] = <<"text", mem[y.name].digest>>
      BY <1>4, <1>6
    <2>2. Digest[2][2] = mem[y.name].digest /\ Digest[2] = <<"text", Digest[2][2]>>
      BY <2>1
    <2>3. ASSUME NEW z \in Given(history), R.ref = z.name
          PROVE  Held(next, M, z.path, Digest[2][2])
      <3>1. z.path = y.path
        BY <1>1, <2>1, <2>3 DEF PathsStay
      <3>2. y.name \in DOMAIN next /\ next[y.name] = mem[y.name]
        BY <2>1
      <3> QED
        BY <2>1, <2>2, <3>1, <3>2 DEF Held
    <2> QED
      BY <1>1, <1>2, <1>3, <1>6, <2>1, <2>2, <2>3 DEF Told
  <1> QED
    BY <1>5, <1>6

\* A template takes what was made of the resource at hand.
LEMMA RequestAnswers ==
    ASSUME BaseInv, Untouched, Risky(history), AtResource,
           NEW e, e.path = R.path, e.digest = Digest, e.response = Response
    PROVE  Answers(e)
  <1> SUFFICES ASSUME Referred(R.path)
               PROVE  e.response = NoValue \/ e.response = <<"text", Digest>>
    BY DEF Answers
  <1>1. R \in Given(history) /\ R \in Resource
    BY AtHand DEF BaseInv, AtResource, Resources
  <1>2. R.path \notin Numeric
    BY <1>1 DEF Referred, Risky, NoNumbers
  <1>3. Answer = NoValue \/ Answer = Digest
    <2>1. R.method = "GET" => ~Written(R.path)
      BY <1>1 DEF Written, MethodsStay, Risky
    <2>2. R.method = "GET" => live[R.path] = NoValue
      BY <1>1, <2>1 DEF Untouched, Resource
    <2> QED
      BY <2>2 DEF Answer
  <1> QED
    BY <1>2, <1>3 DEF Response

\* A request that is answered: the old digests are lost, and the new one is not.
LEMMA RequestLosses ==
    ASSUME BaseInv, Untouched, Risky(history), Own, at \in Nat, history.maxFaults > 0, NEW L, Losses(L), Request
    PROVE  Through'
  <1>1. PICK e : e = Entry(Digest, R.deps, R.ignore, Response, R.path)
    OBVIOUS
  <1>2. PICK t : t = Put(mem, R.name, e)
    OBVIOUS
  <1>3. /\ TypeInv /\ Known(mem) /\ OneEntry(mem) /\ PathsStay(history) /\ RenamesKeepData(history)
        /\ [Next]_vars /\ Step /\ AtResource /\ NeedsRequest /\ CanResolve(R, mem)
        /\ live' = IF R.method = "GET" THEN live ELSE [live EXCEPT ![R.path] = Digest]
        /\ mem' = t /\ stored' = stored /\ pc' = "saveCreate" /\ todo' = todo
        /\ ignored' = ignored /\ history' = history /\ at' = at
        /\ Tracked(mem, L) /\ Tracked(stored, L) /\ Behind(stored, mem, L)
    BY <1>1, <1>2 DEF BaseInv, Own, Risky, Request, NeedsRequest, Next, Step, Losses
  <1>4. e.path = R.path /\ e.digest = Digest /\ e.response = Response
    BY <1>1 DEF Entry
  <1>5. /\ DOMAIN t = DOMAIN mem \cup {R.name} /\ t[R.name] = e
        /\ \A l \in DOMAIN mem : l # R.name => t[l] = mem[l]
    BY <1>2 DEF Put
  <1>6. R \in Given(history) /\ R \in Resource /\ DOMAIN live = Paths
    BY <1>3, AtHand DEF AtResource, Resources, TypeInv
  <1>7. PICK M : M = L \cup LostAt(mem, R.path, {Digest}) \cup LostAt(stored, R.path, {Digest})
    OBVIOUS
  <1>8. ASSUME NEW st, st = mem \/ st = stored
        PROVE  /\ \A l \in M \ L : l[1] = R.path /\ l[2] # Digest /\ Unwanted(L, l[1], l[2])
               /\ \A k \in DOMAIN st :
                     /\ \/ live'[st[k].path] = live[st[k].path]
                        \/ live'[st[k].path] = st[k].digest
                        \/ <<st[k].path, st[k].digest>> \in M
                     /\ st[k].path = R.path => st[k].digest = Digest \/ <<st[k].path, st[k].digest>> \in M
    BY <1>3, <1>7, <1>8, RequestLeaves
  <1>9. \A k \in DOMAIN mem : k # R.name => mem[k].path # R.path
    BY <1>3, PathIsFree DEF SamePath
  <1>10. R.name \in DOMAIN mem => mem[R.name].path = R.path
    BY <1>3, <1>6, EntryHasPath
  <1>11. Told(t, M, e)' /\ Shown(M, e)' /\ Answers(e)
    <2>1. Told(t, M, e)
      BY <1>3, <1>4, <1>5, RequestTells
    <2>2. Told(t, M, e)'
      BY <1>3, <2>1 DEF Told, Seen
    <2>3. Shown(M, e)'
      <3>1. R.method = "GET" => ~Written(e.path)
        BY <1>4, <1>6 DEF Written, MethodsStay, Risky
      <3>2. \A path : Written(path)' <=> Written(path)
        BY <1>3, TimeGoesOn
      <3>3. R.method # "GET" => live'[e.path] = e.digest
        BY <1>3, <1>4, <1>6 DEF Resource
      <3> QED
        BY <3>1, <3>2, <3>3 DEF Shown
    <2> QED
      BY <1>3, <1>4, <2>2, <2>3, RequestAnswers
  <1>12. PICK s : s = stored
    OBVIOUS
  <1>13. Tracked(s, M)'
    BY <1>3, <1>7, <1>8, <1>12, TrackedStays
  <1>14. Tracked(t, M)'
    <2>1. PICK m : m = mem
      OBVIOUS
    <2>2. ASSUME NEW l \in DOMAIN m
          PROVE  \/ <<m[l].path, m[l].digest>> \in M
                 \/ \E k \in DOMAIN t : t[k].path = m[l].path /\ t[k].digest = m[l].digest
      BY <1>4, <1>5, <1>8, <1>10, <2>1
    <2>3. ASSUME NEW k \in DOMAIN t
          PROVE  \/ Told(t, M, t[k])' /\ Shown(M, t[k])' /\ Answers(t[k])
                 \/ \E l \in DOMAIN m :
                       /\ t[k].path = m[l].path /\ t[k].digest = m[l].digest
                       /\ Answers(m[l]) => Answers(t[k])
                       /\ \/ live'[m[l].path] = live[m[l].path]
                          \/ live'[m[l].path] = m[l].digest
                          \/ <<m[l].path, m[l].digest>> \in M
      <3>1. CASE k = R.name
        BY <1>5, <1>11, <3>1
      <3>2. CASE k # R.name
        <4>1. k \in DOMAIN m /\ t[k] = m[k]
          BY <1>5, <2>1, <3>2
        <4> QED
          BY <1>8, <2>1, <4>1
      <3> QED
        BY <3>1, <3>2
    <2>4. Tracked(m, L) /\ L \subseteq M
      BY <1>3, <1>7, <2>1
    <2>5. TypeInv /\ at \in Nat /\ [Next]_vars
      BY <1>3
    <2> QED
      BY ONLY <2>2, <2>3, <2>4, <2>5, TrackedStays
  <1>15. Tracked(mem, M)' /\ Tracked(stored, M)'
    BY <1>3, <1>12, <1>13, <1>14 DEF Tracked
  <1>16. Behind(stored, mem, M)'
    <2> SUFFICES ASSUME NEW k \in DOMAIN stored, NEW l \in DOMAIN t, stored[k].path = t[l].path
                 PROVE  stored[k].digest = t[l].digest \/ <<stored[k].path, stored[k].digest>> \in M
      BY <1>3 DEF Behind
    <2>1. CASE l = R.name
      BY <1>4, <1>5, <1>8, <2>1
    <2>2. CASE l # R.name
      <3>1. l \in DOMAIN mem /\ t[l] = mem[l]
        BY <1>5, <2>2
      <3> QED
        BY <1>3, <1>7, <3>1 DEF Behind
    <2> QED
      BY <2>1, <2>2
  <1>17. Fresh(M)'
    <2>1. \A k \in DOMAIN t : \/ t[k].path = R.path /\ t[k].digest = Digest
                              \/ k \in DOMAIN mem /\ t[k] = mem[k] /\ mem[k].path # R.path
      BY <1>4, <1>5, <1>9
    <2>2. \A l \in M \ L : l[1] = R.path /\ l[2] # Digest
      BY <1>8
    <2> QED
      BY <1>3, <1>7, <2>1, <2>2, FreshGrows
  <1> QED
    BY <1>3, <1>7, <1>8, <1>15, <1>16, <1>17, LossesGrow

\* A deletion, or one that failed: all that the state has at the path is lost.
LEMMA DeleteLosses ==
    ASSUME BaseInv, Risky(history), Own, at \in Nat, history.maxFaults > 0, NEW L, Losses(L),
           NEW k \in Names, Delete(k) \/ DeleteFails(k)
    PROVE  Through'
  <1>1. /\ TypeInv /\ Known(mem) /\ Known(stored) /\ OneEntry(mem) /\ [Next]_vars /\ Step
        /\ pc = "delete" /\ k \in gone /\ k \in DOMAIN mem /\ k \notin CommitNames
        /\ Passed = DOMAIN Commit /\ DOMAIN live = Paths
        /\ NothingReturns(history) /\ OneTemplate(history)
        /\ Tracked(mem, L) /\ Tracked(stored, L) /\ Behind(stored, mem, L)
    <2>1. TypeInv /\ pc = "delete" /\ k \in gone /\ Next /\ Step
      BY DEF BaseInv, Delete, DeleteFails, Deletable, Next, Step
    <2>2. k \in DOMAIN mem /\ k \notin CommitNames
      BY <2>1 DEF BaseInv, Foreign
    <2>3. NothingReturns(history) /\ OneTemplate(history)
      BY <2>1, OrderedIs DEF Risky, Forward, TypeInv
    <2> QED
      BY <2>1, <2>2, <2>3, AllPassed DEF BaseInv, Own, TypeInv, Losses
  <1>2. PICK path : path = mem[k].path
    OBVIOUS
  <1>3. PICK t : t = mem'
    OBVIOUS
  <1>4. /\ live' = live \/ live' = [live EXCEPT ![path] = NoValue]
        /\ stored' = stored /\ (t = mem \/ t = Remove(mem, k)) /\ todo' = todo
        /\ \/ pc' = "failed" \/ ignored'
           \/ pc' = "saveDelete" /\ ignored' = ignored
    BY <1>2, <1>3 DEF Delete, DeleteFails
  <1>5. /\ \A l \in DOMAIN t : l \in DOMAIN mem /\ t[l] = mem[l]
        /\ \A l \in DOMAIN mem : mem[l].path # path => l \in DOMAIN t
    BY <1>1, <1>2, <1>4 DEF Remove
  <1>6. \A i \in DOMAIN Commit : Commit[i].path # path
    BY <1>1, <1>2 DEF Own, CommitNames
  <1>7. PICK M : M = L \cup LostAt(mem, path, {}) \cup LostAt(stored, path, {})
    OBVIOUS
  <1>8. ASSUME NEW st, st = mem \/ st = stored
        PROVE  \A j \in DOMAIN st :
                  IF st[j].path = path THEN <<st[j].path, st[j].digest>> \in M
                  ELSE live'[st[j].path] = live[st[j].path]
    <2> SUFFICES ASSUME NEW j \in DOMAIN st
                 PROVE  /\ st[j].path = path => <<st[j].path, st[j].digest>> \in M
                        /\ st[j].path # path => live'[st[j].path] = live[st[j].path]
      OBVIOUS
    <2>1. st[j].path \in Paths /\ path \in Paths
      BY <1>1, <1>2, <1>8, EntryPath DEF Known
    <2>2. st[j].path = path => <<st[j].path, st[j].digest>> \in M
      BY <1>7, <1>8, LostAtIs
    <2> QED
      BY <1>1, <1>4, <2>1, <2>2
  <1>9. ASSUME NEW st, st = mem \/ st = stored, NEW l \in LostAt(st, path, {})
        PROVE  l[1] = path /\ Unwanted(L, l[1], l[2])
    <2>1. PICK j \in DOMAIN st : st[j].path = path /\ st[j].digest = l[2]
      BY <1>9, LostAtIs
    <2>2. l[1] = path
      BY <1>9, LostAtIs
    <2>3. PICK e : e = st[j]
      OBVIOUS
    <2>4. Told(st, L, e)
      BY <1>1, <1>9, <2>3 DEF Tracked
    <2>5. Unwanted(L, e.path, e.digest)
      BY <1>1, <1>2, <2>1, <2>3, <2>4, DeletedIsUnwanted
    <2> QED
      BY <2>1, <2>2, <2>3, <2>5
  <1>10. \A l \in M \ L : l[1] = path /\ Unwanted(L, l[1], l[2])
    BY <1>7, <1>9
  <1>11. PICK s, m : s = stored /\ m = mem
    OBVIOUS
  <1>12. Tracked(s, M)' /\ Tracked(t, M)'
    <2>1. /\ TypeInv /\ at \in Nat /\ [Next]_vars /\ L \subseteq M
          /\ Tracked(s, L) /\ Tracked(m, L)
      BY <1>1, <1>7, <1>11
    <2>2. /\ \A j \in DOMAIN s : live'[s[j].path] = live[s[j].path] \/ <<s[j].path, s[j].digest>> \in M
          /\ \A j \in DOMAIN m : live'[m[j].path] = live[m[j].path] \/ <<m[j].path, m[j].digest>> \in M
      BY <1>8, <1>11
    <2>3. Tracked(s, M)'
      BY ONLY <2>1, <2>2, TrackedStays
    <2>4. /\ \A j \in DOMAIN m : \/ <<m[j].path, m[j].digest>> \in M
                                 \/ j \in DOMAIN t /\ t[j] = m[j]
          /\ \A j \in DOMAIN t : j \in DOMAIN m /\ t[j] = m[j]
      BY <1>5, <1>8, <1>11
    <2>5. Tracked(t, M)'
      BY ONLY <2>1, <2>2, <2>4, TrackedStays
    <2> QED
      BY <2>3, <2>5
  <1>13. Tracked(stored, M)' /\ Tracked(mem, M)'
    BY <1>3, <1>4, <1>11, <1>12 DEF Tracked
  <1>14. Behind(stored, mem, M)'
    BY <1>1, <1>3, <1>4, <1>5, <1>7 DEF Behind
  <1>15. Fresh(M)'
    <2>1. CASE pc' = "failed" \/ ignored'
      BY <1>7, <2>1, FreshKept
    <2>2. CASE pc' = "saveDelete" /\ ignored' = ignored /\ ~ignored
      <3>1. Commit' = Commit
        BY <1>1, AtStays, HistoryStays DEF Commit
      <3>2. Passed' = Passed
        BY <1>1, <1>4, <2>2, <3>1 DEF Passed, Elements
      <3> QED
        BY <1>1, <1>3, <1>5, <1>6, <1>7, <1>10, <2>2, <3>1, <3>2, FreshKept
    <2> QED
      BY <1>4, <2>1, <2>2
  <1> QED
    BY <1>1, <1>7, <1>10, <1>13, <1>14, <1>15, LossesGrow

LEMMA ThroughStep ==
    ASSUME \A h \in Histories : Risky(h), BaseInv, Own, Untouched, Exact, Through, [Next]_vars
    PROVE  Through'
  <1>1. history' = history /\ Risky(history) /\ at \in Nat
    BY HistoryStays DEF BaseInv, TypeInv, Exact
  <1> SUFFICES ASSUME history.maxFaults > 0 PROVE Through'
    BY <1>1 DEF Through
  <1>2. PICK L : Losses(L)
    BY DEF Through
  <1>3. CASE Begin
    BY <1>1, <1>2, <1>3, BeginLosses
  <1>4. CASE Migrate
    BY <1>1, <1>2, <1>4, MigrateLosses
  <1>5. CASE Request
    BY <1>1, <1>2, <1>5, RequestLosses
  <1>6. CASE RequestFails
    BY <1>1, <1>2, <1>6, RequestFailsLosses
  <1>7. CASE \E k \in Names : Delete(k) \/ DeleteFails(k)
    BY <1>1, <1>2, <1>7, DeleteLosses
  <1>8. CASE \/ LoadFails \/ Crash \/ ResolveFails \/ SkipUnchanged \/ SaveCreate \/ StartDelete
             \/ SaveDelete \/ Finish \/ UNCHANGED vars
    BY <1>1, <1>2, <1>8, StandStillLosses
  <1> QED
    BY <1>3, <1>4, <1>5, <1>6, <1>7, <1>8 DEF Next, Step

\* CommitIsLive, for the histories of DependenciesAreInPlace and DeclaredResourcesStay
\* whose templates take no numbers and in which a path is always written or always read;
\* and if something may fail, what a path has lost does not come back, and the same data
\* has one template: a run that reports success and has ignored no failure has made the
\* target what the commit says, whatever failed before (apply.go:37).
THEOREM SuccessIsTrue ==
    ASSUME \A h \in Histories : /\ PathsStay(h) /\ RefsAreDeps(h) /\ Distinct(h) /\ NoNumbers(h)
                                /\ RenamesKeepData(h) /\ MethodsStay(h) /\ Forward(h)
    PROVE  Spec => []CommitIsLive
  <1> DEFINE Inv == BaseInv /\ Applied /\ Own /\ Untouched /\ Exact /\ Through
  <1>1. Init => Inv
    <2> SUFFICES ASSUME Init PROVE Inv
      OBVIOUS
    <2>1. BaseInv /\ Applied
      BY InitBase DEF Init, Applied
    <2>2. Own
      BY DEF Init, NoState, Own, OneEntry
    <2>3. history.maxFaults \in Nat
      BY OrderedIs DEF Init
    <2>4. Exact
      BY <2>3 DEF Init, NoState, Exact
    <2>5. Untouched
      BY DEF Init, Untouched
    <2>6. Losses({})
      BY DEF Init, NoState, Losses, Tracked, Behind, Fresh
    <2> QED
      BY <2>1, <2>2, <2>4, <2>5, <2>6 DEF Through
  <1>2. Inv /\ [Next]_vars => Inv'
    <2>1. \A h \in Histories : Risky(h)
      BY DEF Risky
    <2> QED
      BY <2>1, BaseStep, AppliedStep, OwnStep, UntouchedStep, ExactStep, ThroughStep
  <1>3. ASSUME Inv PROVE CommitIsLive
    <2> SUFFICES ASSUME Succeeded, NEW i \in DOMAIN Commit
                 PROVE  Matches(Commit[i])
      BY DEF CommitIsLive
    <2> DEFINE x == Commit[i]
    <2>1. /\ TypeInv /\ Known(mem) /\ Known(stored) /\ PathsStay(history) /\ NoNumbers(history)
          /\ pc = "done" /\ ~ignored /\ Loaded(stored) = Loaded(mem)
      BY <1>3 DEF BaseInv, TypeInv, Succeeded, Kept, Clean
    <2>2. x \in Given(history) /\ at \in Ordered(history)
      BY <2>1, CommitIsGiven
    <2>3. InPlace(mem, x)
      BY <1>3, <2>1, AllPassed DEF Applied
    <2> HIDE DEF x
    <2>4. /\ DOMAIN stored = DOMAIN mem
          /\ \A k \in DOMAIN mem : /\ stored[k].digest = mem[k].digest /\ stored[k].path = mem[k].path
                                   /\ mem[k].path \notin Numeric => stored[k] = mem[k]
      <3>1. DOMAIN stored = DOMAIN mem
        BY <2>1, LoadedIs
      <3>2. ASSUME NEW k \in DOMAIN mem
            PROVE  /\ stored[k].digest = mem[k].digest /\ stored[k].path = mem[k].path
                   /\ mem[k].path \notin Numeric => stored[k] = mem[k]
        <4>1. /\ Loaded(mem)[k].digest = mem[k].digest /\ Loaded(mem)[k].path = mem[k].path
              /\ mem[k].path \notin Numeric => Loaded(mem)[k] = mem[k]
          BY <2>1, LoadedIs
        <4>2. /\ Loaded(stored)[k].digest = stored[k].digest /\ Loaded(stored)[k].path = stored[k].path
              /\ stored[k].path \notin Numeric => Loaded(stored)[k] = stored[k]
          BY <2>1, <3>1, LoadedIs
        <4> QED
          BY <2>1, <4>1, <4>2
      <3> QED
        BY <3>1, <3>2
    <2>5. x.name \in DOMAIN mem /\ (x.ref # NoValue => x.ref \in DOMAIN mem)
      BY <2>3 DEF InPlace, CanResolve
    <2>6. ASSUME x.ref # NoValue
          PROVE  mem[x.ref].path \notin Numeric
      <3>1. From(x.ref, mem[x.ref])
        BY <2>1, <2>5, <2>6 DEF Known
      <3>2. PICK y \in Given(history) : y.name = x.ref /\ y.path = mem[x.ref].path
        BY <3>1 DEF From
      <3> QED
        BY <2>1, <2>2, <3>2 DEF NoNumbers
    <2>7. InPlace(stored, x)
      BY <2>3, <2>4, <2>5, <2>6, InPlaceStays
    <2>8. ASSUME x.method = "POST"
          PROVE  live[x.path] = stored[x.name].digest
      <3>1. mem[x.name].path = x.path
        BY <2>1, <2>2, <2>5, EntryHasPath
      <3>2. Written(x.path)
        BY <2>2, <2>8 DEF Written
      <3>3. history.maxFaults = 0 \/ history.maxFaults > 0
        BY <2>1, OrderedIs DEF TypeInv
      <3>4. CASE history.maxFaults = 0
        BY <1>3, <2>4, <2>5, <3>1, <3>2, <3>4 DEF Exact, Shows
      <3>5. CASE history.maxFaults > 0
        <4>1. PICK L : Losses(L)
          BY <1>3, <3>5 DEF Through
        <4>2. <<x.path, mem[x.name].digest>> \notin L
          BY <2>1, <2>5, <3>1, <4>1, AllPassed DEF Losses, Fresh, x
        <4>3. Shown(L, mem[x.name])
          BY <2>5, <4>1 DEF Losses, Tracked
        <4> QED
          BY <2>4, <2>5, <3>1, <3>2, <4>2, <4>3 DEF Shown
      <3> QED
        BY <3>3, <3>4, <3>5
    <2> QED
      BY <2>7, <2>8 DEF Matches, InPlace, x
  <1> QED
    BY <1>1, <1>2, <1>3, PTL DEF Spec
=============================================================================
