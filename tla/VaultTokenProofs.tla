-------------------------- MODULE VaultTokenProofs --------------------------
(***************************************************************************)
(* Theorems about the token of the target Vault, for any tokens, any       *)
(* number of checks and any pattern of failures and restarts: the token    *)
(* that the plugin is configured with lives, the cached time to live never *)
(* promises too much, and an update keeps the token.                       *)
(*                                                                         *)
(* The argument: all tokens that are made are worth the same (Alike); the  *)
(* token that a request is about to store is the stored one or has been    *)
(* made since time last passed (InHand), and therefore a check that        *)
(* renews a token which is replaced meanwhile does not mistake the time of *)
(* the new one (InUse).  A unit that passes without a renewal, while there *)
(* is less than a day left, has used up a failure (Lasting).               *)
(***************************************************************************)
EXTENDS VaultToken, TLAPS

\* What the behaviours must be like for the configured token to live (the README says
\* what happens otherwise).  Requests come one at a time.
OneRequest == \A r, s \in Requests : r = s

\* A day, and the life of a token, are longer than failures can hold up a renewal.
Patient ==
    /\ MaxFaults + 2 <= Day
    /\ \A t \in Tokens : Period[t] > 0 => MaxFaults + 2 <= Period[t]

\* The tokens of the operator are worth the same.
Own == Issued \cup (Brought \ {NoToken})
SameWorth == \A t, u \in Own : Period[t] = Period[u]

\* The configuration is never deleted, unless the operator has no other token.
OnlyOne == \A t, u \in Own : t = u
DeletedForGood ==
    \/ \A k \in Kinds : k.does # "delete"
    \/ OnlyOne

\* The error of the read of the existing configuration is dropped.
ReadsExisting == "getExisting" \notin FailingOps

WellRun == OneRequest /\ Patient /\ SameWorth /\ DeletedForGood /\ ReadsExisting
-----------------------------------------------------------------------------
Labels == {"idle", "existing", "create", "put", "revoke", "delete"}

VaultType ==
    /\ stored \in Tokens \cup {NoToken, Absent}
    /\ ttl # Absent => ttl \in [worth : Nat, left : Nat]
    /\ state \in [Tokens -> {"none", "live", "dead"}]
    /\ left \in [Tokens -> Nat] /\ \A t \in Tokens : left[t] <= Period[t]
    /\ faults \in 0..MaxFaults

CheckType ==
    /\ checkAt \in [Checks -> {"idle", "ttl", "config", "renew", "update"}]
    /\ checkToken \in [Checks -> Tokens \cup {NoToken}]
    /\ worth \in [Checks -> Nat]

RequestType ==
    /\ requestAt \in [Requests -> Labels]
    /\ kind \in [Requests -> Kinds \cup {NoKind}]
    /\ token \in [Requests -> Tokens \cup {NoToken}]
    /\ old \in [Requests -> Tokens \cup {NoToken}]

Flags == checked \in BOOLEAN /\ update \in [Requests -> BOOLEAN]

TypeOK == VaultType /\ CheckType /\ RequestType /\ Flags

Configured == stored \in Tokens

\* Tokens that have been made, or that the operator will bring.
Made == {t \in Tokens : state[t] # "none"}

\* They are worth the same, and the cached time to live is that of one of them.
Alike ==
    /\ \A t, u \in Made \cup Own : Period[t] = Period[u]
    /\ ttl # Absent => \E t \in Made : ttl.worth = Period[t] /\ ttl.left <= Period[t]
    /\ Issued \subseteq Made

\* A token has no time left before it is made.
Unmade == \A t \in Tokens \ Made : left[t] = 0

\* Live, and as good as new.
Full(t) == Live(t) /\ left[t] = Period[t]

\* The token in the hands of a request.
InHand(r) ==
    /\ requestAt[r] \in {"existing", "create", "put"} =>
          /\ update[r] = (stored # Absent)
          /\ old[r] # NoToken => requestAt[r] = "put"
    /\ requestAt[r] = "existing" /\ kind[r].token # NoToken => Full(kind[r].token)
    /\ requestAt[r] \in {"create", "put"} =>
          /\ token[r] \in Tokens => token[r] = stored \/ Full(token[r])
          /\ token[r] = NoToken => ~Configured
          /\ kind[r] = NoKind /\ update[r] => token[r] = StoredToken
    /\ requestAt[r] = "put" => old[r] = NoToken \/ old[r] # token[r]
    /\ requestAt[r] = "revoke" => old[r] \in Tokens /\ old[r] # stored
    /\ requestAt[r] \in {"idle", "delete"} => old[r] = NoToken
    /\ old[r] \in Tokens => old[r] \in Made
    /\ requestAt[r] = "create" => kind[r].does = "rotate"
    /\ requestAt[r] = "delete" => kind[r].does = "delete"

\* A request that stores a token, where there is none, has it from the operator.
Holds(r) ==
    \/ requestAt[r] = "existing" /\ kind[r].token # NoToken
    \/ requestAt[r] \in {"create", "put"} /\ token[r] # NoToken

\* The token that a check works with.
InUse(c) ==
    /\ checkToken[c] \in Tokens => checkToken[c] \in Made
    /\ checkAt[c] = "idle" => checkToken[c] = NoToken
    /\ checkAt[c] \in {"ttl", "config", "renew"} =>
          (Configured => checkToken[c] = stored \/ Full(stored))
    /\ checkAt[c] = "update" =>
          /\ checkToken[c] \in Tokens /\ worth[c] = Period[checkToken[c]]
          /\ Configured => Full(stored)

\* Where something is left of a token that is configured no more, none will be.
Stale == ~Configured /\ (ttl # Absent \/ \E c \in Checks : checkToken[c] \in Tokens)
Settled ==
    /\ OnlyOne /\ Made # {} => Own \subseteq Made
    /\ Stale => /\ \E k \in Kinds : k.does = "delete"
                /\ \A r \in Requests : ~Holds(r)

\* Failures that are left can be made up for.
Enough(n) == n + faults >= MaxFaults + (IF checked THEN 2 ELSE 1)
Lasting ==
    Configured /\ Period[stored] > 0 =>
        Enough(left[stored]) /\ (ttl # Absent => Enough(ttl.left))

TokenInv ==
    /\ TypeOK /\ Alike /\ Unmade /\ Settled /\ Lasting /\ ConfiguredIsLive /\ CacheIsCautious
    /\ \A r \in Requests : InHand(r)
    /\ \A c \in Checks : InUse(c)
-----------------------------------------------------------------------------
USE TokenAssumption

LEMMA InitToken == WellRun /\ Init => TokenInv
  <1> SUFFICES ASSUME WellRun, Init PROVE TokenInv
    OBVIOUS
  <1> USE DEF Init
  <1>1. TypeOK
    <2>1. VaultType
      BY DEF VaultType
    <2>2. CheckType /\ RequestType
      BY DEF CheckType, RequestType, Labels
    <2>3. Flags
      BY Zenon DEF Flags
    <2> QED
      BY <2>1, <2>2, <2>3 DEF TypeOK
  <1>2. Made = Issued
    BY DEF Made
  <1>3. Alike
    BY <1>2 DEF Alike, WellRun, SameWorth, Own
  <1>4. Unmade
    BY <1>2 DEF Unmade
  <1>5. Settled
    BY <1>2 DEF Settled, OnlyOne, Own, Stale
  <1>6. ConfiguredIsLive /\ CacheIsCautious
    BY DEF ConfiguredIsLive, Live, CacheIsCautious
  <1>7. Lasting
    BY DEF Lasting, Configured, Enough, WellRun, Patient
  <1>8. \A r \in Requests : InHand(r)
    BY DEF InHand
  <1>9. \A c \in Checks : InUse(c)
    BY DEF InUse
  <1> QED
    BY <1>1, <1>3, <1>4, <1>5, <1>6, <1>7, <1>8, <1>9 DEF TokenInv
-----------------------------------------------------------------------------
\* What a check leaves as it was, or renews.
OnlyRenews ==
    /\ stored' = stored /\ state' = state /\ requests' = requests
    /\ \A t \in Tokens : left'[t] = left[t] \/ (Live(t) /\ left'[t] = Period[t])

LEMMA CheckFrame ==
    ASSUME TokenInv, OnlyRenews
    PROVE  /\ Made' = Made /\ Configured' = Configured
           /\ ConfiguredIsLive' /\ Unmade'
           /\ \A t \in Tokens : Full(t) => Full(t)'
           /\ \A r \in Requests : InHand(r)' /\ (Holds(r)' <=> Holds(r))
           /\ Configured => left'[stored] >= left[stored]
  <1> USE DEF TokenInv, OnlyRenews, requests
  <1>1. Made' = Made /\ Configured' = Configured
    BY DEF Made, Configured
  <1>2. ConfiguredIsLive' /\ Unmade'
    BY <1>1 DEF ConfiguredIsLive, Live, Unmade, Made
  <1>3. \A t \in Tokens : Full(t) => Full(t)'
    BY DEF Full, Live
  <1>4. Configured => left'[stored] >= left[stored]
    BY DEF Configured, TypeOK, VaultType
  <1>5. ASSUME NEW r \in Requests
        PROVE  InHand(r)' /\ (Holds(r)' <=> Holds(r))
    <2>1. Holds(r)' <=> Holds(r)
      BY DEF Holds
    <2>2. kind[r].token \in Tokens \cup {NoToken} /\ token[r] \in Tokens \cup {NoToken}
      BY DEF TypeOK, RequestType, NoKind
    <2>3. InHand(r)'
      BY <1>1, <1>3, <2>2 DEF InHand, StoredToken
    <2> QED
      BY <2>1, <2>3
  <1> QED
    BY <1>1, <1>2, <1>3, <1>4, <1>5

\* The other checks are where they were.
Others(c) == \A d \in Checks \ {c} :
    checkAt'[d] = checkAt[d] /\ checkToken'[d] = checkToken[d] /\ worth'[d] = worth[d]

LEMMA OtherChecks ==
    ASSUME TokenInv, OnlyRenews, NEW c \in Checks, Others(c)
    PROVE  \A d \in Checks \ {c} : InUse(d)'
  <1> SUFFICES ASSUME NEW d \in Checks \ {c} PROVE InUse(d)'
    OBVIOUS
  <1>1. InUse(d)
    BY DEF TokenInv
  <1>2. Made' = Made /\ Configured' = Configured /\ stored' = stored
        /\ (Configured /\ Full(stored) => Full(stored)')
    BY CheckFrame DEF OnlyRenews, Configured, Full
  <1> QED
    BY <1>1, <1>2 DEF InUse, Others

\* A check that ends without a renewal has failed, or there is nothing to renew.
LEMMA LastingStays ==
    ASSUME TokenInv, OnlyRenews, ttl' = ttl,
           \/ faults' = faults /\ checked' = checked
           \/ faults' = faults + 1
           \/ ~Configured
    PROVE  Lasting'
  <1> SUFFICES ASSUME Configured, Period[stored] > 0
               PROVE  /\ Enough(left[stored])'
                      /\ ttl # Absent => Enough(ttl.left)'
    BY DEF Lasting, OnlyRenews, Configured
  <1> USE DEF TokenInv
  <1>1. /\ left'[stored] >= left[stored] /\ left[stored] \in Nat /\ left'[stored] \in Nat
        /\ faults \in Nat /\ (ttl # Absent => ttl.left \in Nat)
    BY CheckFrame DEF Configured, OnlyRenews, TypeOK, VaultType
  <1>2. Enough(left[stored]) /\ (ttl # Absent => Enough(ttl.left))
    BY DEF Lasting
  <1> QED
    BY <1>1, <1>2 DEF Enough, OnlyRenews

\* The steps of a check up to the one that writes the cache.
LEMMA CheckKeeps ==
    ASSUME TokenInv, NEW c \in Checks, OnlyRenews, Others(c), ttl' = ttl,
           TypeOK', Lasting', InUse(c)',
           checkToken'[c] \in Tokens => checkToken[c] \in Tokens \/ Configured
    PROVE  TokenInv'
  <1>1. /\ Made' = Made /\ Configured' = Configured /\ stored' = stored
        /\ ConfiguredIsLive' /\ Unmade'
        /\ \A r \in Requests : InHand(r)' /\ (Holds(r)' <=> Holds(r))
        /\ Configured => left'[stored] >= left[stored]
    BY CheckFrame DEF OnlyRenews
  <1>2. Alike'
    BY <1>1 DEF TokenInv, Alike
  <1>3. Stale' => Stale
    BY <1>1 DEF Stale, Others
  <1>4. Settled'
    BY <1>1, <1>3 DEF TokenInv, Settled
  <1>5. CacheIsCautious'
    BY <1>1 DEF TokenInv, CacheIsCautious, Configured, TypeOK, VaultType
  <1>6. \A d \in Checks : InUse(d)'
    BY OtherChecks
  <1> QED
    BY <1>1, <1>2, <1>4, <1>5, <1>6 DEF TokenInv

\* A check that ends keeps no token.
LEMMA EndCheckFrees ==
    ASSUME TypeOK, NEW c \in Checks, NEW t, EndCheck(c, t)
    PROVE  /\ CheckType' /\ Others(c) /\ InUse(c)'
           /\ checkToken'[c] = NoToken /\ checked' \in BOOLEAN
           /\ t # StoredToken => checked' = checked
  <1>1. CheckType' /\ Others(c) /\ checkToken'[c] = NoToken /\ checkAt'[c] = "idle"
    BY DEF TypeOK, CheckType, Others, EndCheck
  <1>2. checked' \in BOOLEAN /\ (t # StoredToken => checked' = checked)
    BY Zenon DEF TypeOK, Flags, EndCheck
  <1> QED
    BY <1>1, <1>2 DEF InUse

LEMMA StartCheckStep ==
    ASSUME TokenInv, NEW c \in Checks, StartCheck(c)
    PROVE  TokenInv'
  <1>1. OnlyRenews /\ ttl' = ttl /\ TypeOK /\ requests' = requests
    BY DEF TokenInv, StartCheck, OnlyRenews, vault
  <1>2. VaultType' /\ RequestType'
    BY DEF TokenInv, StartCheck, vault, requests, TypeOK, VaultType, RequestType, Works, Fails
  <1>3. CASE /\ Works /\ StoredToken # NoToken
             /\ checkToken' = [checkToken EXCEPT ![c] = stored]
             /\ GoOn(c, "ttl") /\ UNCHANGED worth
    <2>1. stored \in Tokens
      BY <1>1, <1>3 DEF StoredToken, TypeOK, VaultType
    <2>2. /\ checkAt'[c] = "ttl" /\ checkToken'[c] = stored /\ checked' = checked
          /\ faults' = faults /\ CheckType' /\ Others(c)
      BY <1>1, <1>3, <2>1 DEF TypeOK, CheckType, GoOn, Works, Others
    <2>3. TypeOK'
      BY <1>1, <1>2, <2>2 DEF TypeOK, Flags, requests
    <2>4. InUse(c)'
      BY <1>1, <2>1, <2>2 DEF TokenInv, InUse, OnlyRenews, ConfiguredIsLive, Live, Made
    <2> QED
      BY <1>1, <2>1, <2>2, <2>3, <2>4, LastingStays, CheckKeeps DEF Configured
  <1>4. CASE /\ (Works /\ StoredToken = NoToken) \/ Fails("getConfig")
             /\ EndCheck(c, StoredToken)
    <2>1. ~Configured \/ faults' = faults + 1
      BY <1>4 DEF StoredToken, Configured, Fails
    <2>2. TypeOK' /\ Others(c) /\ InUse(c)' /\ checkToken'[c] \notin Tokens
      BY <1>1, <1>2, <1>4, EndCheckFrees DEF TypeOK, Flags, requests
    <2> QED
      BY <1>1, <2>1, <2>2, LastingStays, CheckKeeps
  <1> QED
    BY <1>3, <1>4 DEF StartCheck

\* Nothing is renewed only if what is left is a day or more.
LEMMA ReadTTLStep ==
    ASSUME WellRun, TokenInv, NEW c \in Checks, ReadTTL(c)
    PROVE  TokenInv'
  <1>1. OnlyRenews /\ ttl' = ttl /\ TypeOK /\ requests' = requests /\ faults' = faults
    BY DEF TokenInv, ReadTTL, OnlyRenews, vault
  <1>2. VaultType' /\ RequestType'
    BY DEF TokenInv, ReadTTL, vault, requests, TypeOK, VaultType, RequestType
  <1>3. CASE ttl # Absent /\ ~Expiring
    <2>1. EndCheck(c, checkToken[c])
      BY <1>3 DEF ReadTTL
    <2>2. TypeOK' /\ Others(c) /\ InUse(c)' /\ checkToken'[c] \notin Tokens
      BY <1>1, <1>2, <2>1, EndCheckFrees DEF TypeOK, Flags, requests
    <2>3. ASSUME Configured, Period[stored] > 0
          PROVE  ttl.left + faults >= MaxFaults + 2 /\ left[stored] + faults >= MaxFaults + 2
      <3>1. /\ ttl.left \in Nat /\ ttl.worth \in Nat /\ left[stored] \in Nat /\ faults \in 0..MaxFaults
        BY <1>3, <2>3 DEF TokenInv, TypeOK, VaultType, Configured
      <3>2. ttl.worth > 0 /\ ttl.left <= left[stored]
        BY <1>3, <2>3 DEF TokenInv, CacheIsCautious, Configured
      <3>3. Enough(ttl.left)
        BY <1>3, <2>3 DEF TokenInv, Lasting
      <3>4. ttl.left > 0
        BY <3>1, <3>3 DEF Enough
      <3>5. ttl.left >= Day
        BY <1>3, <3>1, <3>2, <3>4 DEF Expiring
      <3> QED
        BY <3>1, <3>2, <3>5 DEF WellRun, Patient
    <2>4. Lasting'
      BY <1>1, <2>3 DEF Lasting, Enough, OnlyRenews, Configured, ReadTTL, vault,
                        TokenInv, TypeOK, VaultType
    <2> QED
      BY <1>1, <2>2, <2>4, CheckKeeps
  <1>4. CASE ~(ttl # Absent /\ ~Expiring)
    <2>1. /\ checkAt[c] = "ttl" /\ checkToken' = checkToken /\ worth' = worth
          /\ GoOn(c, IF ttl = Absent THEN "config" ELSE "renew")
      BY <1>4 DEF ReadTTL
    <2>2. /\ checkAt'[c] \in {"config", "renew"} /\ checked' = checked
          /\ CheckType' /\ Others(c)
      BY <1>1, <2>1 DEF TypeOK, CheckType, GoOn, Others
    <2>3. TypeOK'
      BY <1>1, <1>2, <2>2 DEF TypeOK, Flags, requests
    <2>4. InUse(c)'
      BY <1>1, <2>1, <2>2, CheckFrame DEF TokenInv, InUse, OnlyRenews, Configured
    <2> QED
      BY <1>1, <2>1, <2>2, <2>3, <2>4, LastingStays, CheckKeeps
  <1> QED
    BY <1>3, <1>4

LEMMA ReadConfigAgainStep ==
    ASSUME TokenInv, NEW c \in Checks, ReadConfigAgain(c)
    PROVE  TokenInv'
  <1>1. OnlyRenews /\ ttl' = ttl /\ TypeOK /\ requests' = requests
    BY DEF TokenInv, ReadConfigAgain, OnlyRenews, vault
  <1>2. VaultType' /\ RequestType'
    BY DEF TokenInv, ReadConfigAgain, vault, requests, TypeOK, VaultType, RequestType, Works, Fails
  <1>3. CASE /\ Works
             /\ checkToken' = [checkToken EXCEPT ![c] = StoredToken]
             /\ GoOn(c, "renew") /\ UNCHANGED worth
    <2>1. StoredToken \in Tokens \cup {NoToken} /\ (StoredToken \in Tokens <=> Configured)
          /\ (Configured => StoredToken = stored)
      BY <1>1 DEF StoredToken, TypeOK, VaultType, Configured
    <2>2. /\ checkAt'[c] = "renew" /\ checkToken'[c] = StoredToken /\ checked' = checked
          /\ faults' = faults /\ CheckType' /\ Others(c)
      BY <1>1, <1>3, <2>1 DEF TypeOK, CheckType, GoOn, Works, Others
    <2>3. TypeOK'
      BY <1>1, <1>2, <2>2 DEF TypeOK, Flags, requests
    <2>4. InUse(c)'
      BY <1>1, <2>1, <2>2 DEF TokenInv, InUse, OnlyRenews, ConfiguredIsLive, Live, Made, Configured
    <2> QED
      BY <1>1, <2>1, <2>2, <2>3, <2>4, LastingStays, CheckKeeps
  <1>4. CASE Fails("getConfig") /\ EndCheck(c, checkToken[c])
    <2>1. faults' = faults + 1
      BY <1>4 DEF Fails
    <2>2. TypeOK' /\ Others(c) /\ InUse(c)' /\ checkToken'[c] \notin Tokens
      BY <1>1, <1>2, <1>4, EndCheckFrees DEF TypeOK, Flags, requests
    <2> QED
      BY <1>1, <2>1, <2>2, LastingStays, CheckKeeps
  <1> QED
    BY <1>3, <1>4 DEF ReadConfigAgain

LEMMA RenewStep ==
    ASSUME TokenInv, NEW c \in Checks, Renew(c)
    PROVE  TokenInv'
  <1> DEFINE t == checkToken[c]
  <1>1. /\ OnlyRenews /\ ttl' = ttl /\ requests' = requests
        /\ left' = left \/ left' = Renewed(t)
    BY DEF Renew, OnlyRenews, Renewed, TokenInv, TypeOK, VaultType
  <1>2. TypeOK /\ t \in Tokens \cup {NoToken} /\ checkAt[c] = "renew"
    BY DEF TokenInv, TypeOK, CheckType, Renew
  <1>3. left' \in [Tokens -> Nat] /\ \A u \in Tokens : left'[u] <= Period[u]
    BY <1>1, <1>2 DEF Renewed, TypeOK, VaultType
  <1>4. VaultType' /\ RequestType'
    BY <1>1, <1>2, <1>3 DEF Renew, requests, TypeOK, VaultType, RequestType, Works, Fails
  <1>5. CASE /\ Works /\ Live(t) /\ left' = Renewed(t)
             /\ worth' = [worth EXCEPT ![c] = Period[t]]
             /\ GoOn(c, "update") /\ UNCHANGED checkToken
    <2>1. /\ checkAt'[c] = "update" /\ checkToken'[c] = t /\ worth'[c] = Period[t]
          /\ checked' = checked /\ faults' = faults /\ CheckType' /\ Others(c)
          /\ t \in Tokens
      BY <1>2, <1>5 DEF TypeOK, CheckType, GoOn, Works, Others, Live
    <2>2. TypeOK'
      BY <1>1, <1>2, <1>4, <2>1 DEF TypeOK, Flags, requests
    <2>3. Full(t)' /\ t \in Made'
      BY <1>1, <1>2, <1>5, <2>1 DEF Full, Live, OnlyRenews, Renewed, TypeOK, VaultType, Made
    <2>4. Configured' => Full(stored)'
      <3>1. Configured' = Configured /\ stored' = stored
        BY <1>1 DEF OnlyRenews, Configured
      <3>2. Configured => t = stored \/ Full(stored)
        BY <1>2 DEF TokenInv, InUse
      <3>3. Configured /\ Full(stored) => Full(stored)'
        BY <1>1, <3>1, CheckFrame DEF Configured, Full
      <3>4. Configured /\ t = stored => Full(stored)'
        BY <2>1, <2>3, <3>1 DEF Full, Live
      <3> QED
        BY <3>1, <3>2, <3>3, <3>4
    <2>5. InUse(c)'
      BY <2>1, <2>3, <2>4 DEF InUse
    <2> QED
      BY <1>1, <2>1, <2>2, <2>5, LastingStays, CheckKeeps
  <1>6. CASE Works /\ ~Live(t) /\ EndCheck(c, t)
    <2>1. ~Configured \/ t # StoredToken
      BY <1>6 DEF TokenInv, ConfiguredIsLive, Configured, StoredToken
    <2>2. ~Configured \/ (checked' = checked /\ faults' = faults)
      BY <1>2, <1>6, <2>1, EndCheckFrees DEF Works
    <2>3. TypeOK' /\ Others(c) /\ InUse(c)' /\ checkToken'[c] \notin Tokens
      BY <1>1, <1>2, <1>4, <1>6, EndCheckFrees DEF TypeOK, Flags, requests
    <2> QED
      BY <1>1, <2>2, <2>3, LastingStays, CheckKeeps
  <1>7. CASE Fails("renew") /\ EndCheck(c, t)
    <2>1. faults' = faults + 1
      BY <1>7 DEF Fails
    <2>2. TypeOK' /\ Others(c) /\ InUse(c)' /\ checkToken'[c] \notin Tokens
      BY <1>1, <1>2, <1>4, <1>7, EndCheckFrees DEF TypeOK, Flags, requests
    <2> QED
      BY <1>1, <2>1, <2>2, LastingStays, CheckKeeps
  <1> QED
    BY <1>5, <1>6, <1>7 DEF Renew

\* What is put into the cache is what the configured token is worth by now.
LEMMA UpdateTTLStep ==
    ASSUME WellRun, TokenInv, NEW c \in Checks, UpdateTTL(c)
    PROVE  TokenInv'
  <1> DEFINE t == checkToken[c]
  <1>1. /\ OnlyRenews /\ requests' = requests /\ left' = left /\ faults' = faults /\ TypeOK
        /\ checkAt[c] = "update" /\ ttl' = [worth |-> worth[c], left |-> worth[c]]
        /\ EndCheck(c, t)
    BY DEF UpdateTTL, OnlyRenews, vault, TokenInv
  <1>2. /\ t \in Made /\ t \in Tokens /\ worth[c] = Period[t] /\ Period[t] \in Nat
        /\ Configured => Full(stored)
    BY <1>1 DEF TokenInv, InUse
  <1>3. /\ TypeOK' /\ Others(c) /\ InUse(c)' /\ checkToken'[c] \notin Tokens
    <2>1. ttl' \in [worth : Nat, left : Nat]
      BY <1>1, <1>2
    <2>2. VaultType' /\ RequestType'
      BY <1>1, <2>1 DEF UpdateTTL, vault, requests, TypeOK, VaultType, RequestType
    <2> QED
      BY <1>1, <2>2, EndCheckFrees DEF TypeOK, Flags, requests
  <1>4. /\ Made' = Made /\ Configured' = Configured /\ stored' = stored
        /\ ConfiguredIsLive' /\ Unmade'
        /\ \A r \in Requests : InHand(r)' /\ (Holds(r)' <=> Holds(r))
    BY <1>1, CheckFrame DEF OnlyRenews, TokenInv
  <1>5. ttl'.worth = Period[t] /\ ttl'.left = Period[t]
    BY <1>1, <1>2
  <1>6. Alike'
    BY <1>2, <1>4, <1>5 DEF TokenInv, Alike
  <1>7. Settled'
    <2>1. Stale' => Stale
      BY <1>2, <1>4 DEF Stale
    <2> QED
      BY <1>4, <2>1 DEF TokenInv, Settled
  <1>8. ASSUME Configured
        PROVE  Period[t] = Period[stored] /\ left[stored] = Period[stored]
    <2>1. stored \in Made
      BY <1>8 DEF TokenInv, ConfiguredIsLive, Configured, Live, Made
    <2> QED
      BY <1>2, <1>8, <2>1 DEF TokenInv, Alike, Full
  <1>9. CacheIsCautious'
    BY <1>1, <1>2, <1>4, <1>5, <1>8 DEF CacheIsCautious, Configured
  <1>10. Lasting'
    <2> SUFFICES ASSUME Configured, Period[stored] > 0
                 PROVE  Enough(left[stored])' /\ Enough(ttl.left)'
      BY <1>4 DEF Lasting
    <2>1. Period[stored] >= MaxFaults + 2 /\ Period[stored] \in Nat /\ faults \in Nat
      BY <1>1 DEF Configured, WellRun, Patient, TypeOK, VaultType
    <2> QED
      BY <1>1, <1>4, <1>5, <1>8, <2>1 DEF Enough
  <1>11. \A d \in Checks : InUse(d)'
    BY <1>1, <1>3, OtherChecks
  <1> QED
    BY <1>3, <1>4, <1>6, <1>7, <1>9, <1>10, <1>11 DEF TokenInv

LEMMA CheckStep ==
    ASSUME WellRun, TokenInv, NEW c \in Checks, Check(c)
    PROVE  TokenInv'
  BY StartCheckStep, ReadTTLStep, ReadConfigAgainStep, RenewStep, UpdateTTLStep DEF Check
-----------------------------------------------------------------------------
\* What a request changes before it stores its token: a token may be made.
MakesOne(t) ==
    /\ state[t] = "none" /\ \A u \in Made \cup Own : Period[t] = Period[u]
    /\ state' = [state EXCEPT ![t] = "live"]
    /\ left' = [left EXCEPT ![t] = Period[t]]

Grows ==
    /\ stored' = stored /\ ttl' = ttl /\ checks' = checks /\ checked' = checked
    /\ faults' = faults \/ (faults < MaxFaults /\ faults' = faults + 1)
    /\ vault' = vault \/ \E t \in Tokens : MakesOne(t)

LEMMA GrowsFrame ==
    ASSUME TokenInv, Grows
    PROVE  /\ VaultType' /\ CheckType' /\ Alike' /\ Unmade' /\ Lasting'
           /\ ConfiguredIsLive' /\ CacheIsCautious'
           /\ Made \subseteq Made' /\ Configured' = Configured /\ Stale' = Stale
           /\ \A u \in Tokens : Full(u) => Full(u)'
           /\ \A c \in Checks : InUse(c)'
  <1> USE DEF TokenInv, Grows
  <1>1. /\ VaultType' /\ CheckType'
    BY DEF TypeOK, VaultType, CheckType, checks, vault, MakesOne
  <1>2. /\ Configured' = Configured /\ stored' = stored /\ Stale' = Stale
        /\ checkToken' = checkToken /\ checkAt' = checkAt /\ worth' = worth
    BY DEF Configured, Stale, checks
  <1>3. \A u \in Made : u \in Made' /\ state'[u] = state[u] /\ left'[u] = left[u]
    BY DEF Made, vault, MakesOne, TypeOK, VaultType
  <1>4. \A u \in Tokens : Full(u) => Full(u)'
    BY <1>3 DEF Full, Live, Made
  <1>5. Configured => stored \in Made
    BY DEF ConfiguredIsLive, Configured, Live, Made
  <1>6. ConfiguredIsLive' /\ CacheIsCautious'
    BY <1>3, <1>5 DEF ConfiguredIsLive, CacheIsCautious, Configured, Live
  <1>7. Lasting'
    BY <1>3, <1>5 DEF Lasting, Configured, Enough, TypeOK, VaultType
  <1>8. Alike' /\ Unmade'
    <2>1. CASE vault' = vault
      BY <2>1 DEF Alike, Unmade, Made, vault
    <2>2. CASE \E t \in Tokens : MakesOne(t)
      <3>1. PICK t \in Tokens : MakesOne(t)
        BY <2>2
      <3>2. Made' = Made \cup {t}
        BY <3>1 DEF Made, MakesOne, TypeOK, VaultType
      <3>3. Alike'
        BY <3>1, <3>2 DEF Alike, MakesOne
      <3>4. Unmade'
        BY <3>1, <3>2 DEF Unmade, MakesOne, TypeOK, VaultType
      <3> QED
        BY <3>3, <3>4
    <2> QED
      BY <2>1, <2>2
  <1>9. ASSUME NEW c \in Checks PROVE InUse(c)'
    BY <1>2, <1>3, <1>4 DEF InUse, Configured
  <1> QED
    BY <1>1, <1>2, <1>3, <1>4, <1>6, <1>7, <1>8, <1>9

LEMMA GrowsKeeps ==
    ASSUME WellRun, TokenInv, Grows, NEW r \in Requests,
           RequestType', update' \in [Requests -> BOOLEAN],
           InHand(r)', Stale => ~Holds(r)',
           OnlyOne /\ Made' # {} => Own \subseteq Made'
    PROVE  TokenInv'
  <1>1. TypeOK'
    BY GrowsFrame DEF TypeOK, Flags, TokenInv, Grows
  <1>2. (\A s \in Requests : InHand(s)') /\ (Stale' => \A s \in Requests : ~Holds(s)')
    BY GrowsFrame DEF WellRun, OneRequest
  <1>3. Settled'
    BY <1>2, GrowsFrame DEF TokenInv, Settled
  <1> QED
    BY <1>1, <1>2, <1>3, GrowsFrame DEF TokenInv

\* Nothing is left of a token if the operator still has another one.
LEMMA StaleKnowsAll ==
    ASSUME WellRun, TokenInv, Stale
    PROVE  Own \subseteq Made
  <1>1. OnlyOne
    BY DEF WellRun, DeletedForGood, TokenInv, Settled
  <1>2. Made # {}
    BY DEF TokenInv, Stale, Alike, InUse
  <1> QED
    BY <1>1, <1>2 DEF TokenInv, Settled

\* A request that is answered holds nothing.
LEMMA AnswerFrees ==
    ASSUME TypeOK, NEW r \in Requests, Answer(r)
    PROVE  /\ RequestType' /\ update' \in [Requests -> BOOLEAN]
           /\ InHand(r)' /\ ~Holds(r)'
  <1>1. update' \in [Requests -> BOOLEAN]
    BY Zenon DEF TypeOK, Flags, Answer
  <1>2. RequestType' /\ requestAt'[r] = "idle" /\ old'[r] = NoToken
    BY DEF TypeOK, RequestType, Answer, Labels, NoKind
  <1> QED
    BY <1>1, <1>2 DEF InHand, Holds

LEMMA ReceiveStep ==
    ASSUME WellRun, TokenInv, NEW r \in Requests, Receive(r)
    PROVE  TokenInv'
  <1>1. PICK k \in Kinds :
            /\ k.token \in Fresh \cup {NoToken}
            /\ kind' = [kind EXCEPT ![r] = k]
            /\ IF k.token \in Fresh
               THEN /\ state' = [state EXCEPT ![k.token] = "live"]
                    /\ left' = [left EXCEPT ![k.token] = Period[k.token]]
               ELSE UNCHANGED vault
            /\ Proceed(r, IF k.does = "delete" THEN "delete" ELSE "existing")
    BY DEF Receive
  <1>2. requestAt[r] = "idle" /\ old[r] = NoToken /\ TypeOK
    BY DEF Receive, TokenInv, InHand
  <1>3. k.token \in Fresh => k.token \in Tokens /\ k.token \in Own /\ MakesOne(k.token)
    <2>1. k.token # NoToken => k.token \in Own
      BY DEF Own, Brought
    <2>2. k.token \in Fresh => k.token \in Tokens /\ k.token # NoToken /\ state[k.token] = "none"
      BY DEF Fresh
    <2> QED
      BY <1>1, <2>1, <2>2 DEF MakesOne, TokenInv, Alike
  <1>4. Grows
    BY <1>1, <1>3 DEF Receive, Grows, vault
  <1>5. /\ requestAt'[r] = (IF k.does = "delete" THEN "delete" ELSE "existing")
        /\ kind'[r] = k /\ update'[r] = (stored # Absent) /\ old' = old /\ stored' = stored
    BY <1>1, <1>2 DEF TypeOK, RequestType, Flags, Proceed, Receive
  <1>6. RequestType'
    BY <1>1, <1>2 DEF TypeOK, RequestType, Proceed, Receive, Labels
  <1>7. update' \in [Requests -> BOOLEAN]
    BY <1>2, Zenon DEF TypeOK, Flags, Receive
  <1>8. InHand(r)'
    <2>1. k.token # NoToken => Full(k.token)'
      BY <1>1, <1>2, <1>3 DEF Full, Live, TypeOK, VaultType
    <2> QED
      BY <1>2, <1>5, <2>1 DEF InHand, Full, Live
  <1>9. Stale => ~Holds(r)'
    BY <1>1, <1>3, <1>5, StaleKnowsAll DEF Holds, Fresh, Made
  <1>10. OnlyOne /\ Made' # {} => Own \subseteq Made'
    <2>1. CASE k.token \in Fresh
      <3>1. k.token \in Made'
        BY <1>1, <1>2, <1>3, <2>1 DEF Made, TypeOK, VaultType
      <3> QED
        BY <1>3, <2>1, <3>1 DEF OnlyOne
    <2>2. CASE k.token \notin Fresh
      BY <1>1, <2>2 DEF TokenInv, Settled, Made, vault
    <2> QED
      BY <2>1, <2>2
  <1> QED
    BY <1>4, <1>6, <1>7, <1>8, <1>9, <1>10, GrowsKeeps

LEMMA ReadExistingStep ==
    ASSUME WellRun, TokenInv, NEW r \in Requests, ReadExisting(r)
    PROVE  TokenInv'
  <1> DEFINE existing == IF update[r] THEN StoredToken ELSE NoToken
  <1>1. requestAt[r] = "existing" /\ old[r] = NoToken /\ TypeOK /\ InHand(r)
    BY DEF ReadExisting, TokenInv, InHand
  <1>2. Grows
    BY DEF ReadExisting, Grows, Works, Fails
  <1>3. OnlyOne /\ Made' # {} => Own \subseteq Made'
    BY DEF ReadExisting, TokenInv, Settled, Made, vault
  <1>4. CASE /\ Works /\ UNCHANGED <<kind, update, old>>
             /\ token' = [token EXCEPT ![r] =
                    IF kind[r].token # NoToken THEN kind[r].token ELSE existing]
             /\ Proceed(r, IF kind[r].does = "rotate" /\ token'[r] # NoToken
                           THEN "create" ELSE "put")
    <2>1. /\ existing \in Tokens \cup {NoToken} /\ (existing \in Tokens => existing = stored)
          /\ existing = NoToken => ~Configured
          /\ update[r] => existing = StoredToken
      BY <1>1 DEF TypeOK, VaultType, StoredToken, InHand, Configured
    <2>2. kind[r].token \in Tokens \cup {NoToken}
      BY <1>1 DEF TypeOK, RequestType, NoKind
    <2>3. RequestType'
      BY <1>1, <1>4, <2>1, <2>2 DEF TypeOK, RequestType, Proceed, Labels
    <2>4. token'[r] = IF kind[r].token # NoToken THEN kind[r].token ELSE existing
      BY <1>1, <1>4 DEF TypeOK, RequestType
    <2>5. /\ requestAt'[r] \in {"create", "put"}
          /\ requestAt'[r] = "create" => kind[r].does = "rotate"
      BY <1>1, <1>4 DEF TypeOK, RequestType, Proceed
    <2>6. /\ \A u \in Tokens : Full(u) => Full(u)'
          /\ Configured' = Configured /\ stored' = stored /\ StoredToken' = StoredToken
      BY <1>2, GrowsFrame DEF Grows, StoredToken
    <2>7. token'[r] \in Tokens => token'[r] = stored \/ Full(token[r])'
      BY <1>1, <2>1, <2>4, <2>6 DEF InHand, Full
    <2>8. InHand(r)'
      BY <1>1, <1>4, <2>1, <2>4, <2>5, <2>6, <2>7 DEF InHand, NoKind
    <2>9. Stale => ~Holds(r)'
      BY <1>1, <2>1, <2>4, <2>5 DEF Holds, Stale, Configured, TokenInv, Settled
    <2> QED
      BY <1>1, <1>2, <1>3, <1>4, <2>3, <2>8, <2>9, GrowsKeeps DEF TypeOK, Flags
  <1>5. CASE Answer(r)
    BY <1>1, <1>2, <1>3, <1>5, AnswerFrees, GrowsKeeps
  <1> QED
    BY <1>4, <1>5 DEF ReadExisting, Fails, WellRun, ReadsExisting
-----------------------------------------------------------------------------

LEMMA CreateOrphanStep ==
    ASSUME WellRun, TokenInv, NEW r \in Requests, CreateOrphan(r)
    PROVE  TokenInv'
  <1>1. /\ requestAt[r] = "create" /\ old[r] = NoToken /\ TypeOK /\ InHand(r)
        /\ kind[r].does = "rotate"
    BY DEF CreateOrphan, TokenInv, InHand
  <1>2. ASSUME NEW t \in Orphans, MakeOrphan(r, t)
        PROVE  /\ MakesOne(t) /\ t \in Tokens
               /\ token[r] \in Made /\ token[r] \in Tokens /\ token[r] # t
               /\ OnlyOne => Own \subseteq Made'
    <2>1. token[r] \in Made /\ token[r] \in Tokens /\ t \in Tokens /\ state[t] = "none"
      BY <1>2 DEF MakeOrphan, Live, Made, Orphans, Fresh
    <2>2. Made \subseteq Made'
      BY <1>1, <1>2 DEF MakeOrphan, Made, TypeOK, VaultType
    <2> QED
      BY <1>2, <2>1, <2>2 DEF MakesOne, MakeOrphan, TokenInv, Alike, Settled, Made
  <1>3. Grows
    BY <1>2 DEF CreateOrphan, Grows, Works, Fails
  <1>4. OnlyOne /\ Made' # {} => Own \subseteq Made'
    <2>1. CASE vault' = vault
      BY <2>1 DEF TokenInv, Settled, Made, vault
    <2>2. CASE \E t \in Orphans : MakeOrphan(r, t)
      BY <1>2, <2>2
    <2> QED
      BY <2>1, <2>2 DEF CreateOrphan
  <1>5. ASSUME NEW t \in Orphans, MakeOrphan(r, t), UNCHANGED <<kind, update>>,
               token' = [token EXCEPT ![r] = t], old' = [old EXCEPT ![r] = token[r]],
               Proceed(r, "put")
        PROVE  TokenInv'
    <2>1. t \in Tokens /\ token[r] \in Made /\ token[r] \in Tokens /\ token[r] # t
      BY <1>2, <1>5
    <2>2. /\ requestAt'[r] = "put" /\ token'[r] = t /\ old'[r] = token[r]
          /\ kind'[r].does = "rotate" /\ update' = update /\ RequestType'
      BY <1>1, <1>5, <2>1 DEF TypeOK, RequestType, Proceed, Labels
    <2>3. Full(t)'
      BY <1>1, <1>5, <2>1 DEF MakeOrphan, Full, Live, TypeOK, VaultType
    <2>4. Full(token[r])'
      BY <2>2, <2>3 DEF Full, Live
    <2>5. update'[r] = (stored' # Absent) /\ Made \subseteq Made'
      BY <1>1, <1>3, <2>2, GrowsFrame DEF InHand, Grows
    <2>6. InHand(r)'
      BY <2>1, <2>2, <2>4, <2>5 DEF InHand, NoKind
    <2>7. Stale => ~Holds(r)'
      BY <1>1, <2>1 DEF TokenInv, Settled, Holds
    <2>8. update' \in [Requests -> BOOLEAN]
      BY <1>1, <2>2 DEF TypeOK, Flags
    <2> QED
      BY <1>3, <1>4, <2>2, <2>6, <2>7, <2>8, GrowsKeeps
  <1>6. CASE Answer(r)
    BY <1>1, <1>3, <1>4, <1>6, AnswerFrees, GrowsKeeps
  <1> QED
    BY <1>5, <1>6 DEF CreateOrphan

\* What a request stores is as good as what it replaces, or as good as new.
Stores(t) ==
    /\ stored' = t /\ t \in Tokens \cup {NoToken, Absent}
    /\ t \in Tokens => ~Stale /\ (t = stored \/ Full(t))
    /\ UNCHANGED <<ttl, vault, checks>> /\ checked' = FALSE
    /\ faults' = faults \/ (faults < MaxFaults /\ faults' = faults + 1)

LEMMA StoresFrame ==
    ASSUME WellRun, TokenInv, NEW t, Stores(t)
    PROVE  /\ VaultType' /\ CheckType' /\ checked' \in BOOLEAN
           /\ Made' = Made /\ Alike' /\ Unmade' /\ Lasting'
           /\ ConfiguredIsLive' /\ CacheIsCautious'
           /\ \A c \in Checks : InUse(c)'
  <1> USE DEF TokenInv, Stores
  <1>1. VaultType' /\ CheckType'
    BY DEF TypeOK, VaultType, CheckType, vault, checks
  <1>2. /\ Made' = Made /\ state' = state /\ left' = left
        /\ checkToken' = checkToken /\ checkAt' = checkAt /\ worth' = worth
    BY DEF Made, vault, checks
  <1>3. Alike' /\ Unmade'
    BY <1>2 DEF Alike, Unmade
  <1>4. t \in Tokens => t \in Made /\ Live(t)
    BY DEF Full, Live, Made, ConfiguredIsLive
  <1>5. ConfiguredIsLive'
    BY <1>2, <1>4 DEF ConfiguredIsLive, Live
  <1>6. ASSUME t \in Tokens, ttl # Absent
        PROVE  t # stored => ttl.worth = Period[t] /\ ttl.left <= left[t]
    <2>1. CASE Full(t)
      BY <1>4, <1>6, <2>1 DEF Alike, Full
    <2> QED
      BY <1>6, <2>1
  <1>7. CacheIsCautious'
    BY <1>2, <1>6 DEF CacheIsCautious
  <1>8. Lasting'
    <2> SUFFICES ASSUME t \in Tokens, Period[t] > 0
                 PROVE  /\ left[t] + faults' >= MaxFaults + 1
                        /\ ttl # Absent => ttl.left + faults' >= MaxFaults + 1
      BY <1>2 DEF Lasting, Enough, Configured
    <2>1. /\ faults \in Nat /\ faults' \in Nat /\ faults' >= faults /\ MaxFaults \in Nat
          /\ left[t] \in Nat /\ (ttl # Absent => ttl.left \in Nat)
      BY DEF TypeOK, VaultType
    <2>2. Full(t) => left[t] >= MaxFaults + 2
      BY <2>1 DEF Full, WellRun, Patient
    <2>3. t = stored => left[t] + faults >= MaxFaults + 1
      BY <2>1 DEF Lasting, Configured, Enough
    <2>4. ttl # Absent => Configured /\ Period[stored] > 0
      BY <1>4 DEF Stale, Configured, Alike, ConfiguredIsLive, Live, Made
    <2>5. ttl # Absent => ttl.left + faults >= MaxFaults + 1
      BY <2>1, <2>4 DEF Lasting, Enough
    <2> QED
      BY <2>1, <2>2, <2>3, <2>5
  <1>9. ASSUME NEW c \in Checks PROVE InUse(c)'
    <2>1. stored' \in Tokens => stored' = stored \/ Full(stored)'
      BY <1>2 DEF Full, Live
    <2>2. Full(stored) /\ stored' = stored => Full(stored)'
      BY <1>2 DEF Full, Live
    <2>3. stored' = stored => Configured' = Configured
      BY DEF Configured
    <2> QED
      BY <1>2, <2>1, <2>2, <2>3 DEF InUse, Configured
  <1> QED
    BY <1>1, <1>2, <1>3, <1>5, <1>7, <1>8, <1>9

LEMMA StoresKeeps ==
    ASSUME WellRun, TokenInv, NEW t, Stores(t), NEW r \in Requests,
           RequestType', update' \in [Requests -> BOOLEAN], InHand(r)', ~Holds(r)',
           Stale' => \E k \in Kinds : k.does = "delete"
    PROVE  TokenInv'
  <1>1. TypeOK'
    BY StoresFrame DEF TypeOK, Flags
  <1>2. \A s \in Requests : InHand(s)' /\ ~Holds(s)'
    BY DEF WellRun, OneRequest
  <1>3. Settled'
    BY <1>2, StoresFrame DEF TokenInv, Settled
  <1> QED
    BY <1>1, <1>2, <1>3, StoresFrame DEF TokenInv

LEMMA PutStep ==
    ASSUME WellRun, TokenInv, NEW r \in Requests, Put(r)
    PROVE  TokenInv'
  <1>1. requestAt[r] = "put" /\ TypeOK /\ InHand(r)
    BY DEF Put, TokenInv
  <1>2. /\ token[r] \in Tokens \cup {NoToken} /\ old[r] \in Tokens \cup {NoToken}
        /\ stored \in Tokens \cup {NoToken, Absent}
    BY <1>1 DEF TypeOK, RequestType, VaultType
  <1>3. /\ token[r] \in Tokens => ~Stale /\ (token[r] = stored \/ Full(token[r]))
        /\ token[r] = NoToken => ~Configured
        /\ stored \in Tokens => ~Stale
    BY <1>1 DEF InHand, TokenInv, Settled, Holds, Stale, Configured
  <1>4. PICK t \in {stored, token[r]} : stored' = t
    BY DEF Put
  <1>5. Stores(t)
    BY <1>2, <1>3, <1>4 DEF Put, Stores, Works, Fails
  <1>6. Stale' => \E k \in Kinds : k.does = "delete"
    <2>1. Stale' => Stale
      BY <1>2, <1>3, <1>4 DEF Stale, Configured, Put, checks
    <2> QED
      BY <2>1 DEF TokenInv, Settled
  <1>7. CASE Answer(r)
    BY <1>1, <1>5, <1>6, <1>7, AnswerFrees, StoresKeeps
  <1>8. CASE /\ stored' = token[r] /\ old[r] # NoToken /\ Proceed(r, "revoke")
             /\ UNCHANGED <<kind, update, token, old>>
    <2>1. requestAt'[r] = "revoke" /\ RequestType'
      BY <1>1, <1>8 DEF TypeOK, RequestType, Proceed, Labels
    <2>2. old[r] \in Tokens /\ old[r] # stored' /\ old[r] \in Made /\ Made' = Made
      BY <1>1, <1>2, <1>5, <1>8, StoresFrame DEF InHand
    <2>3. InHand(r)' /\ ~Holds(r)'
      BY <1>8, <2>1, <2>2 DEF InHand, Holds
    <2> QED
      BY <1>1, <1>5, <1>6, <1>8, <2>1, <2>3, StoresKeeps DEF TypeOK, Flags
  <1> QED
    BY <1>7, <1>8 DEF Put

LEMMA DeleteConfigurationStep ==
    ASSUME WellRun, TokenInv, NEW r \in Requests, DeleteConfiguration(r)
    PROVE  TokenInv'
  <1>1. requestAt[r] = "delete" /\ Answer(r) /\ TypeOK /\ InHand(r)
    BY DEF DeleteConfiguration, TokenInv
  <1>2. PICK t \in {stored, Absent} : stored' = t
    BY DEF DeleteConfiguration
  <1>3. Stores(t)
    BY <1>1, <1>2 DEF DeleteConfiguration, Stores, Works, Fails, TypeOK, VaultType, Stale, Configured
  <1>4. \E k \in Kinds : k.does = "delete"
    BY <1>1 DEF InHand, TypeOK, RequestType, NoKind
  <1> QED
    BY <1>1, <1>3, <1>4, AnswerFrees, StoresKeeps

\* Only a token that is configured no more is revoked.
LEMMA RevokeOldStep ==
    ASSUME WellRun, TokenInv, NEW r \in Requests, RevokeOld(r)
    PROVE  TokenInv'
  <1> USE DEF TokenInv
  <1>1. /\ requestAt[r] = "revoke" /\ Answer(r) /\ TypeOK
        /\ old[r] \in Tokens /\ old[r] \in Made /\ old[r] # stored
    BY DEF RevokeOld, InHand
  <1>2. /\ stored' = stored /\ ttl' = ttl /\ left' = left /\ checked' = checked
        /\ checkToken' = checkToken /\ checkAt' = checkAt /\ worth' = worth
        /\ state' = state \/ state' = [state EXCEPT ![old[r]] = "dead"]
        /\ faults' = faults \/ (faults < MaxFaults /\ faults' = faults + 1)
    BY DEF RevokeOld, checks, Works, Fails
  <1>3. Made' = Made /\ (Configured => state'[stored] = state[stored])
    BY <1>1, <1>2 DEF Made, Configured, TypeOK, VaultType
  <1>4. TypeOK'
    <2>1. VaultType' /\ CheckType'
      BY <1>1, <1>2 DEF TypeOK, VaultType, CheckType
    <2>2. Flags'
      BY <1>1, <1>2, AnswerFrees DEF TypeOK, Flags
    <2> QED
      BY <1>1, <2>1, <2>2, AnswerFrees DEF TypeOK
  <1>5. Alike' /\ Unmade' /\ Lasting'
    BY <1>1, <1>2, <1>3 DEF Alike, Unmade, Lasting, Configured, Enough, TypeOK, VaultType
  <1>6. ConfiguredIsLive' /\ CacheIsCautious'
    BY <1>2, <1>3 DEF ConfiguredIsLive, CacheIsCautious, Live, Configured
  <1>7. \A s \in Requests : InHand(s)' /\ ~Holds(s)'
    BY <1>1, AnswerFrees DEF WellRun, OneRequest
  <1>8. Settled'
    <2>1. Stale' => Stale
      BY <1>2 DEF Stale, Configured
    <2> QED
      BY <1>3, <1>7, <2>1 DEF Settled
  <1>9. ASSUME NEW c \in Checks PROVE InUse(c)'
    <2>1. Configured' = Configured /\ (Configured /\ Full(stored) => Full(stored)')
      BY <1>2, <1>3 DEF Configured, Full, Live
    <2> QED
      BY <1>2, <1>3, <2>1 DEF InUse
  <1> QED
    BY <1>4, <1>5, <1>6, <1>7, <1>8, <1>9

LEMMA RequestStep ==
    ASSUME WellRun, TokenInv, NEW r \in Requests, Request(r)
    PROVE  TokenInv'
  BY ReadExistingStep, CreateOrphanStep, PutStep, RevokeOldStep, DeleteConfigurationStep
     DEF Request
-----------------------------------------------------------------------------
LEMMA RestartStep == TokenInv /\ Restart => TokenInv'
  <1> SUFFICES ASSUME TokenInv, Restart PROVE TokenInv'
    OBVIOUS
  <1> USE DEF TokenInv
  <1>1. /\ stored' = stored /\ ttl' = Absent /\ state' = state /\ left' = left
        /\ checked' = checked /\ faults < MaxFaults /\ faults' = faults + 1
    BY DEF Restart, Fails, vault
  <1>2. TypeOK'
    <2>1. VaultType' /\ CheckType'
      BY <1>1 DEF Restart, TypeOK, VaultType, CheckType
    <2>2. RequestType'
      BY DEF Restart, RequestType, Labels
    <2>3. Flags'
      BY <1>1, Zenon DEF Restart, TypeOK, Flags
    <2> QED
      BY <2>1, <2>2, <2>3 DEF TypeOK
  <1>3. Made' = Made /\ Configured' = Configured
    BY <1>1 DEF Made, Configured
  <1>4. Alike' /\ Unmade' /\ ConfiguredIsLive' /\ CacheIsCautious'
    BY <1>1, <1>3 DEF Alike, Unmade, ConfiguredIsLive, Live, CacheIsCautious
  <1>5. Lasting'
    BY <1>1 DEF Lasting, Configured, Enough, TypeOK, VaultType
  <1>6. \A r \in Requests : InHand(r)' /\ ~Holds(r)'
    BY DEF Restart, InHand, Holds
  <1>7. Settled' /\ \A c \in Checks : InUse(c)'
    BY <1>1, <1>3, <1>6 DEF Restart, Settled, Stale, InUse
  <1> QED
    BY <1>2, <1>4, <1>5, <1>6, <1>7

\* A unit passes only after a check of the stored token: then two are left.
LEMMA TimePassesStep ==
    ASSUME TokenInv, TimePasses
    PROVE  TokenInv'
  <1> USE DEF TokenInv
  <1>1. /\ stored' = stored /\ faults' = faults /\ checked /\ ~checked'
        /\ checks' = checks /\ requests' = requests /\ TypeOK
        /\ \A c \in Checks : checkAt[c] = "idle"
        /\ \A r \in Requests : requestAt[r] = "idle"
    BY DEF TimePasses, Quiet
  <1>2. \A t \in Tokens : left'[t] = IF left[t] > 0 THEN left[t] - 1 ELSE 0
    BY DEF TimePasses
  <1>3. \A t \in Tokens : state'[t] = IF left[t] = 1 THEN "dead" ELSE state[t]
    BY DEF TimePasses
  <1>4. ttl' = IF ttl # Absent /\ ttl.left > 0 THEN [ttl EXCEPT !.left = @ - 1] ELSE ttl
    BY DEF TimePasses
  <1>5. ttl # Absent => ttl \in [worth : Nat, left : Nat]
    BY <1>1 DEF TypeOK, VaultType
  <1>6. ttl # Absent => /\ ttl' \in [worth : Nat, left : Nat] /\ ttl'.worth = ttl.worth
                        /\ ttl'.left = IF ttl.left > 0 THEN ttl.left - 1 ELSE 0
    BY <1>4, <1>5
  <1>7. ttl' # Absent => ttl # Absent
    BY <1>4
  <1>8. TypeOK'
    <2>1. VaultType'
      BY <1>1, <1>2, <1>3, <1>6, <1>7 DEF TypeOK, VaultType, TimePasses
    <2>2. CheckType' /\ RequestType'
      BY <1>1 DEF TypeOK, CheckType, RequestType, checks, requests
    <2>3. Flags'
      <3>1. checked' = FALSE /\ update' = update
        BY DEF TimePasses, requests
      <3> QED
        BY <1>1, <3>1, Zenon DEF TypeOK, Flags
    <2> QED
      BY <2>1, <2>2, <2>3 DEF TypeOK
  <1>9. Made' = Made
    BY <1>3 DEF Made, Unmade
  <1>10. Unmade'
    BY <1>2, <1>9 DEF Unmade
  <1>11. Alike'
    BY <1>1, <1>5, <1>6, <1>7, <1>9 DEF Alike, TypeOK, VaultType
  <1>12. ASSUME Configured, Period[stored] > 0
         PROVE  /\ left[stored] \in Nat /\ left[stored] >= 2
                /\ left[stored] + faults >= MaxFaults + 2
                /\ ttl # Absent => ttl.left >= 2 /\ ttl.left + faults >= MaxFaults + 2
    BY <1>1, <1>5, <1>12 DEF Lasting, Enough, Configured, TypeOK, VaultType
  <1>13. Lasting'
    BY <1>1, <1>2, <1>5, <1>6, <1>7, <1>12 DEF Lasting, Enough, Configured, TypeOK, VaultType
  <1>14. ConfiguredIsLive'
    <2> SUFFICES ASSUME Configured PROVE left[stored] # 1
      BY <1>1, <1>3 DEF ConfiguredIsLive, Live, Configured
    <2>1. left[stored] <= Period[stored] /\ left[stored] \in Nat /\ Period[stored] \in Nat
      BY <1>1 DEF TypeOK, VaultType, Configured
    <2> QED
      BY <1>12, <2>1
  <1>15. CacheIsCautious'
    BY <1>1, <1>2, <1>5, <1>6, <1>7, <1>12 DEF CacheIsCautious, Configured
  <1>16. \A r \in Requests : InHand(r)' /\ ~Holds(r)'
    BY <1>1, <1>9 DEF InHand, Holds, requests
  <1>17. \A c \in Checks : InUse(c)'
    BY <1>1, <1>9 DEF InUse, checks
  <1>18. Settled'
    <2>1. Stale' => Stale
      BY <1>1, <1>7 DEF Stale, Configured, checks
    <2> QED
      BY <1>9, <1>16, <2>1 DEF Settled
  <1> QED
    BY <1>8, <1>10, <1>11, <1>13, <1>14, <1>15, <1>16, <1>17, <1>18

LEMMA StutterStep == TokenInv /\ UNCHANGED vars => TokenInv'
  <1> SUFFICES ASSUME TokenInv, UNCHANGED vars PROVE TokenInv'
    OBVIOUS
  <1> USE DEF vars, vault, checks, requests
  <1>1. VaultType' /\ CheckType' /\ RequestType'
    BY DEF TokenInv, TypeOK, VaultType, CheckType, RequestType
  <1>2. Flags'
    BY Zenon DEF TokenInv, TypeOK, Flags
  <1>3. Made' = Made /\ Alike' /\ Unmade' /\ Lasting' /\ Settled'
    BY DEF TokenInv, Made, Alike, Unmade, Lasting, Settled, Stale, Configured, Holds, Enough
  <1>4. ConfiguredIsLive' /\ CacheIsCautious'
    BY DEF TokenInv, ConfiguredIsLive, CacheIsCautious, Live
  <1>5. (\A r \in Requests : InHand(r)') /\ (\A c \in Checks : InUse(c)')
    BY <1>3 DEF TokenInv, InHand, InUse, Configured, Full, Live, StoredToken
  <1> QED
    BY <1>1, <1>2, <1>3, <1>4, <1>5 DEF TokenInv, TypeOK

LEMMA TokenStep == WellRun /\ TokenInv /\ [Next]_vars => TokenInv'
  BY CheckStep, ReceiveStep, RequestStep, RestartStep, TimePassesStep, StutterStep DEF Next

\* While the client is well run, what is known of a token keeps it alive: the
\* inductive invariant.
THEOREM TokenInvariance ==
    ASSUME WellRun
    PROVE  Spec => []TokenInv
  BY InitToken, TokenStep, PTL DEF Spec

\* ConfiguredIsLive: the token that is configured is renewed in time, and neither a
\* failed rotation nor a lost answer leaves the plugin with a token that is revoked.
THEOREM ConfiguredTokenIsLive ==
    ASSUME WellRun
    PROVE  Spec => []ConfiguredIsLive
  <1>1. TokenInv => ConfiguredIsLive
    BY DEF TokenInv
  <1> QED
    BY TokenInvariance, <1>1, PTL

\* CacheIsCautious: the time to live in memory, of whichever token it was read, is at
\* most that of the configured one.
THEOREM CachedTimeIsCautious ==
    ASSUME WellRun
    PROVE  Spec => []CacheIsCautious
  <1>1. TokenInv => CacheIsCautious
    BY DEF TokenInv
  <1> QED
    BY TokenInvariance, <1>1, PTL

\* UpdatePreservesToken: an update without a token stores the one it has read, which
\* is still the stored one.
THEOREM UpdatesKeepTheToken ==
    ASSUME WellRun
    PROVE  Spec => UpdatePreservesToken
  <1> DEFINE Preserves == \A r \in Requests :
                Put(r) /\ update[r] /\ kind[r] = NoKind => stored' = stored
  <1>1. ASSUME TokenInv PROVE Preserves
    <2> SUFFICES ASSUME NEW r \in Requests, Put(r), update[r], kind[r] = NoKind
                 PROVE  stored' = stored
      OBVIOUS
    <2>1. token[r] = StoredToken /\ stored # Absent
      BY <1>1 DEF Put, TokenInv, InHand
    <2> QED
      BY <2>1 DEF Put, StoredToken
  <1>2. TokenInv /\ [Next]_vars => [Preserves]_vars
    BY <1>1
  <1> QED
    BY TokenInvariance, <1>2, PTL DEF Spec, UpdatePreservesToken
=============================================================================
