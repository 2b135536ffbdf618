----------------------------- MODULE VaultToken -----------------------------
(***************************************************************************)
(* The token that the plugin talks to the target Vault with: how it is     *)
(* configured and rotated (pkg/vault_client/backend.go) and how every call *)
(* of PeriodicTask keeps it from expiring (backend.go).                    *)
(*                                                                         *)
(* A check is a goroutine of its own, outside the guard of the periodic    *)
(* task, so several may run together, and beside any number of requests    *)
(* that configure the client: each is a process here.  The time to live of *)
(* the last renewal is kept in plugin memory, the token in Vault storage.  *)
(*                                                                         *)
(* A time unit is a part of a day.  Vault ticks every minute, a check has  *)
(* 30 seconds and a request 90, so none of them lasts a unit, and at least *)
(* one check runs in a unit after the last change of the configuration.    *)
(***************************************************************************)
EXTENDS Integers, FiniteSets

CONSTANTS
    Tokens,         \* tokens of the target Vault, present and future
    NoToken,        \* the empty string
    Absent,         \* no entry in storage, nil
    Period,         \* Period[t]: units a renewal is worth, 0: never expires
    Issued,         \* the tokens that exist at the start
    Kinds,          \* requests: [does, token]
    Checks,         \* checks that may be under way together
    Requests,       \* requests that may be under way together
    Day,            \* units in 24 hours
    MaxFaults,      \* bound on failures and restarts
    FailingOps      \* operations that may fail

Ops == {"getConfig", "renew", "getExisting", "unwrap", "create", "put", "revoke",
        "delete", "restart"}

ASSUME TokenAssumption ==
    /\ NoToken \notin Tokens /\ Absent \notin Tokens /\ NoToken # Absent
    /\ Period \in [Tokens -> Nat] /\ Issued \subseteq Tokens
    /\ Kinds \subseteq [does : {"write", "rotate", "delete"}, token : Tokens \cup {NoToken}]
    /\ Day \in Nat \ {0} /\ MaxFaults \in Nat /\ FailingOps \subseteq Ops

VARIABLES
    stored,     \* the stored configuration: Absent, or its token
    ttl,        \* vaultTokenTTL: Absent, or what the last renewal was worth
                \* and what is left of it
    state,      \* of every token: "none", "live" or "dead"
    left,       \* units until a live token expires
    checkAt,    \* where each check is
    checkToken, \* the token it has read
    worth,      \* the lease duration of the renewal it has made
    requestAt,  \* where each request is
    kind,       \* what it asks for
    update,     \* the existence check has made it an update
    token,      \* config.VaultToken of the request
    old,        \* oldToken
    checked,    \* since time last passed, a check of the stored token has ended
    faults

checks   == <<checkAt, checkToken, worth>>
requests == <<requestAt, kind, update, token, old>>
vault    == <<state, left>>
vars     == <<stored, ttl, vault, checks, requests, checked, faults>>

NoKind == [does |-> "write", token |-> NoToken]
Live(t) == t \in Tokens /\ state[t] = "live"

Init ==
    /\ stored \in Issued \cup {Absent}
    /\ ttl = Absent
    /\ state = [t \in Tokens |-> IF t \in Issued THEN "live" ELSE "none"]
    /\ left = [t \in Tokens |-> IF t \in Issued THEN Period[t] ELSE 0]
    /\ checkAt = [c \in Checks |-> "idle"]
    /\ checkToken = [c \in Checks |-> NoToken]
    /\ worth = [c \in Checks |-> 0]
    /\ requestAt = [r \in Requests |-> "idle"]
    /\ kind = [r \in Requests |-> NoKind]
    /\ update = [r \in Requests |-> FALSE]
    /\ token = [r \in Requests |-> NoToken]
    /\ old = [r \in Requests |-> NoToken]
    /\ checked = FALSE /\ faults = 0
-----------------------------------------------------------------------------
Works == UNCHANGED faults
Fails(op) == op \in FailingOps /\ faults < MaxFaults /\ faults' = faults + 1

\* GetConfig turns a missing configuration into one with an empty token.
StoredToken == IF stored = Absent THEN NoToken ELSE stored

GoOn(c, label) == checkAt' = [checkAt EXCEPT ![c] = label] /\ UNCHANGED checked

\* The goroutine ends, having looked after token t.
EndCheck(c, t) ==
    /\ checkAt' = [checkAt EXCEPT ![c] = "idle"]
    /\ checkToken' = [checkToken EXCEPT ![c] = NoToken]
    /\ worth' = [worth EXCEPT ![c] = 0]
    /\ checked' = (checked \/ t = StoredToken)

\* checkAndUpdateVaultTokenExpireTime reads the configuration; without a token
\* there is nothing to do.
StartCheck(c) ==
    /\ checkAt[c] = "idle"
    /\ \/ /\ Works /\ StoredToken # NoToken
          /\ checkToken' = [checkToken EXCEPT ![c] = stored]
          /\ GoOn(c, "ttl") /\ UNCHANGED worth
       \/ /\ (Works /\ StoredToken = NoToken) \/ Fails("getConfig")
          /\ EndCheck(c, StoredToken)
    /\ UNCHANGED <<stored, ttl, vault, requests>>

Expiring == ttl.worth > 0 /\ ttl.left > 0 /\ ttl.left < Day

\* Faulty: the comparison with 24 hours is the wrong way round.
ReadTTLReversed(c) ==
    /\ checkAt[c] = "ttl"
    /\ IF ttl # Absent /\ ~(ttl.worth > 0 /\ ttl.left > Day) THEN EndCheck(c, checkToken[c])
       ELSE GoOn(c, IF ttl = Absent THEN "config" ELSE "renew") /\ UNCHANGED <<checkToken, worth>>
    /\ UNCHANGED <<stored, ttl, vault, requests, faults>>

\* Nothing is renewed when the time to live is 0, has run out, or is a day or more.
ReadTTL(c) ==
    /\ checkAt[c] = "ttl"
    /\ IF ttl # Absent /\ ~Expiring THEN EndCheck(c, checkToken[c])
       ELSE GoOn(c, IF ttl = Absent THEN "config" ELSE "renew") /\ UNCHANGED <<checkToken, worth>>
    /\ UNCHANGED <<stored, ttl, vault, requests, faults>>

\* initializeVaultTokenTTL reads the configuration once more.
ReadConfigAgain(c) ==
    /\ checkAt[c] = "config"
    /\ \/ /\ Works
          /\ checkToken' = [checkToken EXCEPT ![c] = StoredToken]
          /\ GoOn(c, "renew") /\ UNCHANGED worth
       \/ Fails("getConfig") /\ EndCheck(c, checkToken[c])
    /\ UNCHANGED <<stored, ttl, vault, requests>>

Renewed(t) == IF Live(t) THEN [left EXCEPT ![t] = Period[t]] ELSE left

\* Faulty: the answer is taken for granted.
RenewAssumes(c) ==
    /\ checkAt[c] = "renew"
    /\ GoOn(c, "update")
    /\ worth' = [worth EXCEPT ![c] = IF checkToken[c] = NoToken THEN 0 ELSE Period[checkToken[c]]]
    /\ (Works /\ left' = Renewed(checkToken[c])) \/ (Fails("renew") /\ UNCHANGED left)
    /\ UNCHANGED <<stored, ttl, state, checkToken, requests>>

\* renew-self, for the first time (LookupTokenSelf) as for the next ones
\* (RenewTokenSelf).  Its answer may get lost.
Renew(c) ==
    /\ checkAt[c] = "renew"
    /\ \/ /\ Works /\ Live(checkToken[c])
          /\ left' = Renewed(checkToken[c])
          /\ worth' = [worth EXCEPT ![c] = Period[checkToken[c]]]
          /\ GoOn(c, "update") /\ UNCHANGED checkToken
       \/ /\ Works /\ ~Live(checkToken[c])
          /\ EndCheck(c, checkToken[c]) /\ UNCHANGED left
       \/ /\ Fails("renew")
          /\ left' \in {left, Renewed(checkToken[c])}
          /\ EndCheck(c, checkToken[c])
    /\ UNCHANGED <<stored, ttl, state, requests>>

UpdateTTL(c) ==
    /\ checkAt[c] = "update"
    /\ ttl' = [worth |-> worth[c], left |-> worth[c]]
    /\ EndCheck(c, checkToken[c])
    /\ UNCHANGED <<stored, vault, requests, faults>>

Check(c) == StartCheck(c) \/ ReadTTL(c) \/ ReadConfigAgain(c) \/ Renew(c) \/ UpdateTTL(c)
-----------------------------------------------------------------------------
Answer(r) ==
    /\ requestAt' = [requestAt EXCEPT ![r] = "idle"]
    /\ kind' = [kind EXCEPT ![r] = NoKind]
    /\ update' = [update EXCEPT ![r] = FALSE]
    /\ token' = [token EXCEPT ![r] = NoToken]
    /\ old' = [old EXCEPT ![r] = NoToken]

Proceed(r, label) == requestAt' = [requestAt EXCEPT ![r] = label]

\* The operator brings tokens made for the plugin, a rotation makes others.
Brought == {k.token : k \in Kinds}
Fresh   == {t \in Tokens : state[t] = "none"}
Orphans == Fresh \ Brought

\* A request comes in.  The existence check decides between create and update.
\* A token that comes with it has just been made; the tokens of the model must not
\* run out.
Receive(r) ==
    /\ requestAt[r] = "idle"
    /\ \E k \in Kinds :
        /\ k.token \in Fresh \cup {NoToken}
        /\ k.does = "rotate" =>
              Cardinality(Orphans) > Cardinality({q \in Requests : kind[q].does = "rotate"})
        /\ kind' = [kind EXCEPT ![r] = k]
        /\ IF k.token \in Fresh
           THEN /\ state' = [state EXCEPT ![k.token] = "live"]
                /\ left' = [left EXCEPT ![k.token] = Period[k.token]]
           ELSE UNCHANGED vault
        /\ Proceed(r, IF k.does = "delete" THEN "delete" ELSE "existing")
    /\ update' = [update EXCEPT ![r] = (stored # Absent)]
    /\ UNCHANGED <<stored, ttl, checks, token, old, checked, faults>>

\* Faulty: the existing configuration is not consulted.
ReadExistingSkipped(r) ==
    /\ requestAt[r] = "existing"
    /\ token' = [token EXCEPT ![r] = kind[r].token]
    /\ Proceed(r, IF kind[r].does = "rotate" /\ token'[r] # NoToken THEN "create" ELSE "put")
    /\ UNCHANGED <<stored, ttl, vault, checks, kind, update, old, checked, faults>>

\* A token that the request brings replaces the existing one, which only an update
\* has read; the error of that read is dropped.  A wrapped token has to be
\* unwrapped first.
ReadExisting(r) ==
    LET Keeps(existing) ==
            /\ token' = [token EXCEPT ![r] =
                   IF kind[r].token # NoToken THEN kind[r].token ELSE existing]
            /\ Proceed(r, IF kind[r].does = "rotate" /\ token'[r] # NoToken THEN "create" ELSE "put")
    IN  /\ requestAt[r] = "existing"
        /\ \/ Works /\ Keeps(IF update[r] THEN StoredToken ELSE NoToken)
              /\ UNCHANGED <<kind, update, old>>
           \/ update[r] /\ Fails("getExisting") /\ Keeps(NoToken)
              /\ UNCHANGED <<kind, update, old>>
           \/ kind[r].token # NoToken /\ Fails("unwrap") /\ Answer(r)
        /\ UNCHANGED <<stored, ttl, vault, checks, checked>>

\* A token with the parameters of the one that request r has.
MakeOrphan(r, t) ==
    /\ Live(token[r]) /\ Period[t] = Period[token[r]]
    /\ state' = [state EXCEPT ![t] = "live"]
    /\ left' = [left EXCEPT ![t] = Period[t]]

\* Faulty: the token is revoked as soon as there is another one.
CreateOrphanRevokes(r) ==
    /\ requestAt[r] = "create"
    /\ Works
    /\ Live(token[r])
    /\ \E t \in Orphans :
        /\ Period[t] = Period[token[r]]
        /\ state' = [state EXCEPT ![t] = "live", ![token[r]] = "dead"]
        /\ left' = [left EXCEPT ![t] = Period[t]]
        /\ token' = [token EXCEPT ![r] = t]
    /\ old' = [old EXCEPT ![r] = token[r]]
    /\ Proceed(r, "put")
    /\ UNCHANGED <<stored, ttl, checks, kind, update, checked>>

\* createOrphanToken looks the token up and has another one made with its
\* parameters.  If the call fails, the orphan may exist all the same.
CreateOrphan(r) ==
    /\ requestAt[r] = "create"
    /\ \/ /\ Works
          /\ \E t \in Orphans :
              /\ MakeOrphan(r, t)
              /\ token' = [token EXCEPT ![r] = t]
          /\ old' = [old EXCEPT ![r] = token[r]]
          /\ Proceed(r, "put")
          /\ UNCHANGED <<kind, update>>
       \/ /\ Works
          /\ ~Live(token[r])
          /\ Answer(r)
          /\ UNCHANGED vault
       \/ /\ Fails("create")
          /\ UNCHANGED vault \/ (\E t \in Orphans : MakeOrphan(r, t))
          /\ Answer(r)
    /\ UNCHANGED <<stored, ttl, checks, checked>>

\* putConfiguration.  The time to live in memory stays as it is.
Put(r) ==
    /\ requestAt[r] = "put"
    /\ \/ /\ Works
          /\ stored' = token[r]
          /\ IF old[r] # NoToken THEN Proceed(r, "revoke") /\ UNCHANGED <<kind, update, token, old>>
             ELSE Answer(r)
       \/ /\ Fails("put")
          /\ stored' \in {stored, token[r]}
          /\ Answer(r)
    /\ checked' = FALSE
    /\ UNCHANGED <<ttl, vault, checks>>

\* revokeTokenSelf: a failure is logged.
RevokeOld(r) ==
    /\ requestAt[r] = "revoke"
    /\ \/ Works /\ state' = [state EXCEPT ![old[r]] = "dead"]
       \/ Fails("revoke") /\ UNCHANGED state
    /\ Answer(r)
    /\ UNCHANGED <<stored, ttl, left, checks, checked>>

\* pathConfigureDelete
DeleteConfiguration(r) ==
    /\ requestAt[r] = "delete"
    /\ \/ Works /\ stored' = Absent
       \/ Fails("delete") /\ stored' \in {stored, Absent}
    /\ Answer(r)
    /\ checked' = FALSE
    /\ UNCHANGED <<ttl, vault, checks>>

Request(r) ==
    ReadExisting(r) \/ CreateOrphan(r) \/ Put(r) \/ RevokeOld(r) \/ DeleteConfiguration(r)
-----------------------------------------------------------------------------
\* The plugin process stops and starts again.
Restart ==
    /\ Fails("restart")
    /\ ttl' = Absent
    /\ checkAt' = [c \in Checks |-> "idle"]
    /\ checkToken' = [c \in Checks |-> NoToken]
    /\ worth' = [c \in Checks |-> 0]
    /\ requestAt' = [r \in Requests |-> "idle"]
    /\ kind' = [r \in Requests |-> NoKind]
    /\ update' = [r \in Requests |-> FALSE]
    /\ token' = [r \in Requests |-> NoToken]
    /\ old' = [r \in Requests |-> NoToken]
    /\ UNCHANGED <<stored, vault, checked>>

Quiet ==
    /\ \A c \in Checks : checkAt[c] = "idle"
    /\ \A r \in Requests : requestAt[r] = "idle"

\* A unit passes; a token whose time is over dies.
TimePasses ==
    /\ Quiet /\ checked
    /\ left' = [t \in Tokens |-> IF left[t] > 0 THEN left[t] - 1 ELSE 0]
    /\ state' = [t \in Tokens |-> IF left[t] = 1 THEN "dead" ELSE state[t]]
    /\ ttl' = IF ttl # Absent /\ ttl.left > 0 THEN [ttl EXCEPT !.left = @ - 1] ELSE ttl
    /\ checked' = FALSE
    /\ UNCHANGED <<stored, checks, requests, faults>>

Next ==
    \/ \E c \in Checks : Check(c)
    \/ \E r \in Requests : Receive(r) \/ Request(r)
    \/ Restart \/ TimePasses

\* Vault keeps calling, and what it has called comes to an end.
Fairness ==
    /\ \A c \in Checks : WF_vars(Check(c))
    /\ \A r \in Requests : WF_vars(Request(r))
    /\ WF_vars(TimePasses)

Spec == Init /\ [][Next]_vars /\ Fairness
-----------------------------------------------------------------------------
Units == {Period[t] : t \in Tokens} \cup {0}
Longest == CHOOSE n \in Units : \A m \in Units : m <= n

\* The token that the plugin is configured with can be used: it is renewed before
\* it expires ("a renewable periodic token that will be automatically renewed 24
\* hours before expiration", README.md:12), and a rotation revokes the old one
\* "only after successful save" of the new one (pkg/vault_client/backend.go:190).
ConfiguredIsLive == stored \in Tokens => Live(stored)

\* The plugin never takes the time left to its token for longer than it is, else a
\* renewal would come too late.
CacheIsCautious ==
    ttl # Absent /\ stored \in Tokens /\ Period[stored] > 0 =>
        ttl.worth > 0 /\ ttl.left <= left[stored]

\* "For UPDATE: preserve existing values if not provided in request"
\* (pkg/vault_client/backend.go:127): an update that says nothing of the token
\* does not change the stored one.
UpdatePreservesToken ==
    [][\A r \in Requests :
          Put(r) /\ update[r] /\ kind[r] = NoKind => stored' = stored]_vars

\* A token with less than a day to live is renewed, or is not the configured one
\* any more.
TokenIsRenewed ==
    \A t \in Tokens :
        (stored = t /\ Period[t] > Day /\ left[t] < Day) ~> (stored # t \/ left[t] >= Day)
=============================================================================
