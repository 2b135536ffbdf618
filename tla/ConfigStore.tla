---------------------------- MODULE ConfigStore ----------------------------
(***************************************************************************)
(* The stored configurations: of the repository (pkg/git_repository), the  *)
(* credentials (pkg/git), terraform and the declarative engine.  All four  *)
(* are written the same way: Vault asks whether there is one and makes the *)
(* request a create or an update, an update reads what is there, the given *)
(* fields go over it, the whole is validated and stored.  Nothing holds    *)
(* other requests off in between.                                          *)
(*                                                                         *)
(* The four do not touch each other, so a behaviour is about one of them.  *)
(* A string is Empty, Good or Bad, as its own validation sees it; of the   *)
(* binaries there are two that are good, Good and Other, each the checksum *)
(* of itself.  Branch, CA certificate, poll period and required            *)
(* signatures, which nothing validates, are one field, other.              *)
(***************************************************************************)
EXTENDS Integers, FiniteSets

CONSTANTS
    Empty, Good, Bad,
    Other,          \* a second good binary, and its checksum
    NoConfig,       \* no entry in storage
    Limits,         \* values of max_clone_size_bytes in requests
    Requests,       \* requests that may be under way together
    MaxRequests,    \* bound on all requests
    MaxFaults       \* bound on failures of the storage

ASSUME ConfigAssumption ==
    /\ Limits \subseteq Int /\ MaxRequests \in Nat /\ MaxFaults \in Nat

FieldsOf ==
    [repository |-> {"url", "limit", "other"},
     terraform  |-> {"path", "binary", "sha"},
     gitops     |-> {"path"},
     credential |-> {"username", "password"}]

VARIABLES
    kind,       \* which of the configurations
    conf,       \* what is stored
    at,         \* where each request is: "idle", "read", "put"
    op,         \* "create" or "update"
    base,       \* what its fields are put over
    seen,       \* history: what was stored while each request has been under way
    sent, faults

requests   == <<at, op, base, seen, sent>>
configVars == <<kind, conf, requests, faults>>

Fields == FieldsOf[kind]
Values(f) ==
    CASE f = "limit"             -> Limits
      [] f = "other"             -> {Empty, Good}
      [] f \in {"binary", "sha"} -> {Empty, Good, Other, Bad}
      [] OTHER                   -> {Empty, Good, Bad}
Zero == [f \in Fields |-> IF f = "limit" THEN 0 ELSE Empty]
Nothing == [f \in {} |-> Empty]

\* The fields that a request gives, some or all of them.
GivenOf ==
    [k \in DOMAIN FieldsOf |->
        UNION {{g \in [F -> Limits \cup {Empty, Good, Other, Bad}] : \A f \in F : g[f] \in Values(f)} :
                  F \in SUBSET FieldsOf[k]}]
Given == GivenOf[kind]

ConfigInit ==
    /\ kind \in DOMAIN FieldsOf
    /\ conf = NoConfig
    /\ at = [p \in Requests |-> "idle"] /\ op = [p \in Requests |-> "create"]
    /\ base = [p \in Requests |-> Nothing]
    /\ seen = [p \in Requests |-> {}]
    /\ sent = 0 /\ faults = 0
-----------------------------------------------------------------------------
\* The outcome of one access to the storage.
Works == UNCHANGED faults
Fault == faults < MaxFaults /\ faults' = faults + 1

\* conf becomes c, in sight of the other requests under way.
Write(p, c) ==
    /\ conf' = c
    /\ seen' = [q \in Requests |-> IF q = p \/ at[q] = "idle" THEN {} ELSE seen[q] \cup {c}]

Leave(p) == UNCHANGED conf /\ seen' = [seen EXCEPT ![p] = {}]

\* The request is answered, with an error or not.
Answer(p) ==
    /\ at' = [at EXCEPT ![p] = "idle"] /\ op' = [op EXCEPT ![p] = "create"]
    /\ base' = [base EXCEPT ![p] = Nothing]
    /\ UNCHANGED <<kind, sent>>

\* pathConfigExistenceCheck.
Receive(p) ==
    /\ at[p] = "idle" /\ sent < MaxRequests /\ sent' = sent + 1
    /\ op' = [op EXCEPT ![p] = IF conf = NoConfig THEN "create" ELSE "update"]
    /\ at' = [at EXCEPT ![p] = "read"]
    /\ seen' = [seen EXCEPT ![p] = {conf}]
    /\ UNCHANGED <<kind, conf, base, faults>>

\* A request that only gives and never merges: that of the credentials.
Replaces == kind = "credential"

\* Faulty: an update starts from nothing, like a create.
ReadNothing(p) ==
    /\ at[p] = "read"
    /\ at' = [at EXCEPT ![p] = "put"] /\ base' = [base EXCEPT ![p] = Zero]
    /\ UNCHANGED <<kind, conf, op, seen, sent, faults>>

\* An update of a configuration that has been deleted meanwhile is refused.
ReadExisting(p) ==
    /\ at[p] = "read"
    /\ \/ /\ Works
          /\ op[p] = "create" \/ Replaces \/ conf # NoConfig
          /\ at' = [at EXCEPT ![p] = "put"]
          /\ base' = [base EXCEPT ![p] = IF op[p] = "create" \/ Replaces THEN Zero ELSE conf]
          /\ UNCHANGED <<kind, conf, op, seen, sent>>
       \/ /\ op[p] = "update" /\ ~Replaces
          /\ (conf = NoConfig /\ Works) \/ Fault
          /\ Answer(p) /\ Leave(p)

\* A negative size is passed over in silence.
Merged(p, g) ==
    [f \in Fields |->
        IF f \in DOMAIN g /\ (f = "limit" => g[f] >= 0) THEN g[f] ELSE base[p][f]]

\* What a configuration must be to be stored.  ResolveAndValidateTfBinary: the
\* binary is there, and the checksum, if any, is its own.
Valid(c) ==
    /\ kind = "repository" => c.url # Bad
    /\ kind \in {"terraform", "gitops"} => c.path # Bad
    /\ kind = "terraform" =>
          c.binary = Empty \/ (c.binary \in {Good, Other} /\ c.sha \in {Empty, c.binary})
    /\ kind = "credential" => c.username # Empty /\ c.password # Empty

\* Faulty: only what the request gives is looked at.
AcceptedAlone(p, g) ==
    /\ Valid([f \in Fields |-> IF f \in DOMAIN g THEN g[f] ELSE Zero[f]])
    /\ kind = "repository" /\ op[p] = "create" => Merged(p, g).url # Empty

Accepted(p, g) ==
    /\ Valid(Merged(p, g))
    /\ kind = "repository" /\ op[p] = "create" => Merged(p, g).url # Empty

\* The fields of the request are chosen here, where they are first looked at.  The
\* put may fail, with or without having stored the configuration.
Put(p, g) ==
    /\ at[p] = "put"
    /\ \/ Accepted(p, g) /\ (Works \/ Fault) /\ Write(p, Merged(p, g))
       \/ (IF Accepted(p, g) THEN Fault ELSE Works) /\ Leave(p)
    /\ Answer(p)

\* pathConfigureDelete.
Delete(p) ==
    /\ at[p] = "idle" /\ sent < MaxRequests /\ sent' = sent + 1
    /\ Works \/ Fault
    /\ Write(p, NoConfig)
    /\ UNCHANGED <<kind, at, op, base>>

Request(p) ==
    Receive(p) \/ ReadExisting(p) \/ (\E g \in Given : Put(p, g)) \/ Delete(p)
-----------------------------------------------------------------------------
\* Whatever requests are under way together, what is stored has been validated as
\* a whole: no combination of fields from several requests comes about that the
\* handler would have refused, such as one good binary with the checksum of another.
StoredWasValidated == conf # NoConfig => Valid(conf)

\* Whatever is written and deleted meanwhile, an update keeps the fields that it
\* does not give, and the size if the one that it gives is below zero, as they were
\* in one configuration that was stored while it was under way: never some of one
\* and some of another, nor what has been replaced before it came in.
UpdateKeepsTheRest ==
    [][\A p \in Requests :
          conf' # conf /\ at'[p] # at[p] /\ op[p] = "update" /\ ~Replaces =>
              \A g \in Given : Put(p, g) =>
                  \E c \in seen[p] \ {NoConfig} : \A f \in Fields :
                      f \notin DOMAIN g \/ (f = "limit" /\ g[f] < 0) => conf'[f] = c[f]]_configVars
=============================================================================
