--------------------------- MODULE TokenGrantCache ---------------------------
(***************************************************************************)
(* SPIFFETokenGrantResolver.ResolveTokenGrant                              *)
(* (proxy/token_grant_runtime.go): access tokens obtained from a token     *)
(* endpoint and cached for a while.  The mutex protects the map only:      *)
(* requests that miss exchange tokens side by side and store them in any   *)
(* order, and the clock that an entry's lifetime is counted from was read  *)
(* before the exchange began.                                              *)
(***************************************************************************)
EXTENDS Integers

CONSTANTS
    Procs,      \* requests in need of a token
    Grants,     \* grant and target, as joined in cacheKey
    CacheTTL,   \* CacheTTLSeconds of each; 0 if not configured
    Lifetimes,  \* what token endpoints say in expires_in; 0 if nothing
    Margin,     \* the 30 seconds subtracted, and assumed for lack of expires_in
    MinTTL,     \* the second that every token is cached at least
    MaxNow      \* bound: how far the clock runs

CONSTANTS NoGrant, NoToken

ASSUME GrantAssumption ==
    /\ CacheTTL \in [Grants -> Nat]
    /\ Lifetimes \subseteq Nat
    /\ Margin \in Nat
    /\ MinTTL \in Nat \ {0}
    /\ MaxNow \in Nat
    /\ \A life \in Lifetimes \ {0} : MinTTL <= life

(* A token is known by when it was issued and for how long. *)
Tokens == [issued: Nat, life: Lifetimes]
Entries == [token: Tokens, expires: Nat]
ASSUME NoTokenAssumption == NoToken \notin Tokens \cup Entries

VARIABLES
    now,      \* the clock
    cache,    \* SPIFFETokenGrantResolver.cache
    step,     \* "idle", "lookup", "exchange", "store", "return"
    grant,    \* what each request asks for
    asked,    \* the local variable now
    token     \* the token in hand

grantVars == <<now, cache, step, grant, asked, token>>

GrantInit ==
    /\ now = 0
    /\ cache = [g \in Grants |-> NoToken]
    /\ step = [p \in Procs |-> "idle"]
    /\ grant = [p \in Procs |-> NoGrant]
    /\ asked = [p \in Procs |-> 0]
    /\ token = [p \in Procs |-> NoToken]

Move(p, l) == step' = [step EXCEPT ![p] = l]

ClockTicks ==
    /\ now < MaxNow
    /\ now' = now + 1
    /\ UNCHANGED <<cache, step, grant, asked, token>>

(* The clock is read before the mutex is taken. *)
Call(p, g) ==
    /\ step[p] = "idle"
    /\ grant' = [grant EXCEPT ![p] = g]
    /\ asked' = [asked EXCEPT ![p] = now]
    /\ Move(p, "lookup")
    /\ UNCHANGED <<now, cache, token>>

(* The caller has the token, or an error. *)
Return(p) ==
    /\ Move(p, "idle")
    /\ grant' = [grant EXCEPT ![p] = NoGrant]
    /\ asked' = [asked EXCEPT ![p] = 0]
    /\ token' = [token EXCEPT ![p] = NoToken]
    /\ UNCHANGED <<now, cache>>

(* An incomplete grant is refused before the cache is looked at. *)
Unsupported(p) ==
    /\ step[p] = "lookup"
    /\ Return(p)

(* now.Before(cached.expires) *)
Live(p) ==
    /\ cache[grant[p]] # NoToken
    /\ asked[p] < cache[grant[p]].expires

Hit(p) ==
    /\ step[p] = "lookup"
    /\ Live(p)
    /\ token' = [token EXCEPT ![p] = cache[grant[p]].token]
    /\ Move(p, "return")
    /\ UNCHANGED <<now, cache, grant, asked>>

Miss(p) ==
    /\ step[p] = "lookup"
    /\ ~Live(p)
    /\ Move(p, "exchange")
    /\ UNCHANGED <<now, cache, grant, asked, token>>

(* JWT-SVID, subject token, token endpoint: each may fail. *)
Exchange(p, life) ==
    /\ step[p] = "exchange"
    /\ token' = [token EXCEPT ![p] = [issued |-> now, life |-> life]]
    /\ Move(p, "store")
    /\ UNCHANGED <<now, cache, grant, asked>>

ExchangeError(p) ==
    /\ step[p] = "exchange"
    /\ Return(p)

Longest(a, b) == IF a < b THEN b ELSE a

(* How long to cache: as configured, else a margin less than expires_in. *)
TTL(g, life) ==
    IF CacheTTL[g] > 0 THEN CacheTTL[g]
    ELSE Longest(MinTTL, IF life = 0 THEN Margin ELSE life - Margin)

(* Mutant: the lifetime is counted from when the answer arrived. *)
StoreFromNow(p) ==
    /\ step[p] = "store"
    /\ cache' = [cache EXCEPT ![grant[p]] =
                    [token |-> token[p],
                     expires |-> now + TTL(grant[p], token[p].life)]]
    /\ Move(p, "return")
    /\ UNCHANGED <<now, grant, asked, token>>

(* The entry replaces whatever was stored since, newer or not. *)
Store(p) ==
    /\ step[p] = "store"
    /\ cache' = [cache EXCEPT ![grant[p]] =
                    [token |-> token[p],
                     expires |-> asked[p] + TTL(grant[p], token[p].life)]]
    /\ Move(p, "return")
    /\ UNCHANGED <<now, grant, asked, token>>

Done(p) == step[p] = "return" /\ Return(p)

GrantNext ==
    \/ ClockTicks
    \/ \E p \in Procs :
         \/ \E g \in Grants : Call(p, g)
         \/ Unsupported(p) \/ Hit(p) \/ Miss(p)
         \/ (\E life \in Lifetimes : Exchange(p, life)) \/ ExchangeError(p)
         \/ Store(p) \/ Done(p)

GrantSpec == GrantInit /\ [][GrantNext]_grantVars

-----------------------------------------------------------------------------
(* Types of the cache's and the callers' state. *)
GrantTypeOK ==
    /\ now \in 0..MaxNow
    /\ cache \in [Grants -> Entries \cup {NoToken}]
    /\ step \in [Procs -> {"idle", "lookup", "exchange", "store", "return"}]
    /\ grant \in [Procs -> Grants \cup {NoGrant}]
    /\ asked \in [Procs -> 0..MaxNow]
    /\ token \in [Procs -> Tokens \cup {NoToken}]

Expiry(t) == t.issued + t.life

(* A token that says when it expires, under a grant that configures no     *)
(* cache time of its own, is not expired at the time its request asked for *)
(* it, be it cached or exchanged, however long exchanges take and in       *)
(* whatever order they are stored.                                         *)
ServedAlive ==
    \A p \in Procs :
        step[p] = "return" /\ token[p].life > 0 /\ CacheTTL[grant[p]] = 0 =>
            asked[p] < Expiry(token[p])

(* token_grant.go:61, TokenGrantResolver: "Implementations should cache    *)
(* results only until the returned token's expiry."                        *)
CachedUntilExpiry ==
    \A g \in Grants :
        cache[g] # NoToken /\ cache[g].token.life > 0 =>
            cache[g].expires <= Expiry(cache[g].token)
=============================================================================
