------------------------------ MODULE LeafCache ------------------------------
(***************************************************************************)
(* MitmCA.Leaf (proxy/mitm.go): certificates for intercepted hosts, cached *)
(* in a bounded LRU, re-issued before they expire, and issued once however *)
(* many streams ask at the same time.  Callers are the goroutines of       *)
(* mitmHTTPS; c.mu is released while a certificate is being generated.     *)
(* A certificate is its NotAfter.                                          *)
(***************************************************************************)
EXTENDS Integers, Sequences, FiniteSets, SequencesExt

CONSTANTS
    Procs,        \* goroutines that call Leaf
    Hosts,        \* lower-cased, trimmed, non-empty hostnames
    MaxCached,    \* maxCachedLeafs
    LeafTTL,      \* leafTTL
    RenewBefore,  \* leafRenewBefore
    Slow,         \* bound: the longest a call and the handshake after it take
    MaxNow        \* bound: how far the clock runs

CONSTANTS NoProc, NoHost, NoCert, Failed

ASSUME CacheAssumption ==
    /\ MaxCached \in Nat \ {0}
    /\ LeafTTL \in Nat /\ RenewBefore \in Nat /\ Slow \in Nat /\ MaxNow \in Nat
    /\ Slow <= RenewBefore
    /\ 2 * Slow < LeafTTL
    /\ NoProc \notin Procs
    /\ NoHost \notin Hosts
    /\ NoCert \notin Int /\ Failed \notin Int /\ NoCert # Failed

VARIABLES
    now,        \* the clock
    leafs,      \* c.leafs: the cached certificate of each host, or NoCert
    lru,        \* c.lru: hosts, the most recently used first
    inFlight,   \* c.inFlight: for each host the caller generating, or NoProc
    pc,         \* "idle", "lock", "wait", "generate", "store", "return"
    host,       \* the host asked for
    asked,      \* when
    waitFor,    \* the caller whose leafCall a waiter holds
    result      \* the certificate, Failed, or NoCert while there is none

callVars == <<host, asked, waitFor>>
vars == <<now, leafs, lru, inFlight, pc, callVars, result>>

Init ==
    /\ now = 0
    /\ leafs = [h \in Hosts |-> NoCert]
    /\ lru = << >>
    /\ inFlight = [h \in Hosts |-> NoProc]
    /\ pc = [p \in Procs |-> "idle"]
    /\ host = [p \in Procs |-> NoHost]
    /\ asked = [p \in Procs |-> 0]
    /\ waitFor = [p \in Procs |-> NoProc]
    /\ result = [p \in Procs |-> NoCert]

Goto(p, l) == pc' = [pc EXCEPT ![p] = l]

(* The list element that c.leafs maps h to, list.Remove of it, and the     *)
(* list with it moved to front.                                            *)
Element(h) == CHOOSE i \in 1..Len(lru) : lru[i] = h
Without(h) == RemoveAt(lru, Element(h))
MoveToFront(h) == <<h>> \o Without(h)

Cached(h) == leafs[h] # NoCert
Fresh(h) == leafs[h] - now > RenewBefore

(* The clock runs, but no call, and no handshake with its result, lasts    *)
(* longer than Slow.                                                       *)
ClockTicks ==
    /\ now < MaxNow
    /\ \A p \in Procs : pc[p] # "idle" => now - asked[p] < Slow
    /\ now' = now + 1
    /\ UNCHANGED <<leafs, lru, inFlight, pc, callVars, result>>

Call(p, h) ==
    /\ pc[p] = "idle"
    /\ host' = [host EXCEPT ![p] = h]
    /\ asked' = [asked EXCEPT ![p] = now]
    /\ Goto(p, "lock")
    /\ UNCHANGED <<now, leafs, lru, inFlight, waitFor, result>>

(* Mutant: a certificate is good until its last moment. *)
HitUntilExpiry(p) ==
    LET h == host[p] IN
    /\ pc[p] = "lock"
    /\ Cached(h) /\ leafs[h] >= now
    /\ lru' = MoveToFront(h)
    /\ result' = [result EXCEPT ![p] = leafs[h]]
    /\ Goto(p, "return")
    /\ UNCHANGED <<now, leafs, inFlight, callVars>>

(* A cached certificate with enough life left. *)
Hit(p) ==
    LET h == host[p] IN
    /\ pc[p] = "lock"
    /\ Cached(h) /\ Fresh(h)
    /\ lru' = MoveToFront(h)
    /\ result' = [result EXCEPT ![p] = leafs[h]]
    /\ Goto(p, "return")
    /\ UNCHANGED <<now, leafs, inFlight, callVars>>

(* Mutant: calls in flight are not joined. *)
MissNoJoin(p) ==
    LET h == host[p] IN
    /\ pc[p] = "lock"
    /\ ~(Cached(h) /\ Fresh(h))
    /\ leafs' = [leafs EXCEPT ![h] = NoCert]
    /\ lru' = IF Cached(h) THEN Without(h) ELSE lru
    /\ inFlight' = [inFlight EXCEPT ![h] = p]
    /\ Goto(p, "generate")
    /\ UNCHANGED <<now, host, asked, waitFor, result>>

(* Mutant: the element of a dropped certificate stays in the list. *)
MissKeepsElement(p) ==
    LET h == host[p] IN
    /\ pc[p] = "lock"
    /\ ~(Cached(h) /\ Fresh(h))
    /\ leafs' = [leafs EXCEPT ![h] = NoCert]
    /\ inFlight[h] = NoProc
    /\ inFlight' = [inFlight EXCEPT ![h] = p]
    /\ Goto(p, "generate")
    /\ UNCHANGED <<now, lru, host, asked, waitFor, result>>

(* Nothing cached, or about to expire and dropped here: wait for the call  *)
(* in flight if there is one, else start one.  c.mu is released.           *)
Miss(p) ==
    LET h == host[p] IN
    /\ pc[p] = "lock"
    /\ ~(Cached(h) /\ Fresh(h))
    /\ leafs' = [leafs EXCEPT ![h] = NoCert]
    /\ lru' = IF Cached(h) THEN Without(h) ELSE lru
    /\ \/ /\ inFlight[h] # NoProc
          /\ waitFor' = [waitFor EXCEPT ![p] = inFlight[h]]
          /\ Goto(p, "wait")
          /\ UNCHANGED inFlight
       \/ /\ inFlight[h] = NoProc
          /\ inFlight' = [inFlight EXCEPT ![h] = p]
          /\ Goto(p, "generate")
          /\ UNCHANGED waitFor
    /\ UNCHANGED <<now, host, asked, result>>

(* generateLeaf, without c.mu: NotAfter is set from the clock, or it fails.*)
Generate(p) ==
    /\ pc[p] = "generate"
    /\ \E r \in {now + LeafTTL, Failed} : result' = [result EXCEPT ![p] = r]
    /\ Goto(p, "store")
    /\ UNCHANGED <<now, leafs, lru, inFlight, callVars>>

(* Mutant: a failed call never closes call.done. *)
StoreNoWakeup(p) ==
    /\ pc[p] = "store"
    /\ Goto(p, "return")
    /\ inFlight' = [inFlight EXCEPT ![host[p]] = NoProc]
    /\ UNCHANGED <<now, leafs, lru, callVars, result>>

(* Under c.mu again: cache a success, evicting the least recently used;    *)
(* hand the outcome to the waiters; take the call off inFlight.            *)
Store(p) ==
    LET h == host[p]
        full == Len(lru) >= MaxCached
        oldest == lru[Len(lru)]
        waiters == {q \in Procs : pc[q] = "wait" /\ waitFor[q] = p}
    IN
    /\ pc[p] = "store"
    /\ IF result[p] = Failed
       THEN UNCHANGED <<leafs, lru>>
       ELSE /\ leafs' = [x \in Hosts |-> IF x = h THEN result[p]
                                         ELSE IF full /\ x = oldest THEN NoCert
                                         ELSE leafs[x]]
            /\ lru' = <<h>> \o (IF full THEN SubSeq(lru, 1, Len(lru) - 1) ELSE lru)
    /\ result' = [q \in Procs |-> IF q \in waiters THEN result[p] ELSE result[q]]
    /\ pc' = [q \in Procs |-> IF q \in waiters \cup {p} THEN "return" ELSE pc[q]]
    /\ inFlight' = [inFlight EXCEPT ![h] = NoProc]
    /\ UNCHANGED <<now, callVars>>

(* The caller has presented the certificate, or given up on an error. *)
Return(p) ==
    /\ pc[p] = "return"
    /\ Goto(p, "idle")
    /\ host' = [host EXCEPT ![p] = NoHost]
    /\ asked' = [asked EXCEPT ![p] = 0]
    /\ waitFor' = [waitFor EXCEPT ![p] = NoProc]
    /\ result' = [result EXCEPT ![p] = NoCert]
    /\ UNCHANGED <<now, leafs, lru, inFlight>>

Step(p) == Hit(p) \/ Miss(p) \/ Generate(p) \/ Store(p) \/ Return(p)

Next ==
    \/ ClockTicks
    \/ \E p \in Procs : (\E h \in Hosts : Call(p, h)) \/ Step(p)

Spec == Init /\ [][Next]_vars

(* Goroutines run; c.mu is never held across a step. *)
FairSpec == Spec /\ \A p \in Procs : WF_vars(Step(p))

-----------------------------------------------------------------------------
(* Types of the cache's and the callers' state. *)
TypeOK ==
    /\ now \in 0..MaxNow
    /\ leafs \in [Hosts -> Nat \cup {NoCert}]
    /\ lru \in Seq(Hosts)
    /\ inFlight \in [Hosts -> Procs \cup {NoProc}]
    /\ pc \in [Procs -> {"idle", "lock", "wait", "generate", "store", "return"}]
    /\ host \in [Procs -> Hosts \cup {NoHost}]
    /\ asked \in [Procs -> 0..MaxNow]
    /\ waitFor \in [Procs -> Procs \cup {NoProc}]
    /\ result \in [Procs -> Nat \cup {NoCert, Failed}]

(* Map and list are two views of one cache: same hosts, each once, never   *)
(* more than maxCachedLeafs.  A host listed twice would be evicted while   *)
(* still mapped, or the reverse.  (Types included.)                        *)
MapMatchesList ==
    /\ TypeOK
    /\ {lru[i] : i \in 1..Len(lru)} = {h \in Hosts : Cached(h)}
    /\ Len(lru) = Cardinality({h \in Hosts : Cached(h)})
    /\ Len(lru) <= MaxCached

(* Single flight: a host has at most one caller generating, the one in     *)
(* inFlight; its certificate is not cached meanwhile; and whoever waits,   *)
(* waits for it and for the right host.                                    *)
SingleFlight ==
    /\ \A p \in Procs :
         pc[p] \in {"generate", "store"} <=>
             \E h \in Hosts : inFlight[h] = p /\ host[p] = h
    /\ \A h \in Hosts : inFlight[h] # NoProc => ~Cached(h)
    /\ \A p \in Procs :
         pc[p] = "wait" => inFlight[host[p]] = waitFor[p] /\ waitFor[p] # NoProc

(* "so a long-running sidecar never presents an expired certificate"       *)
(* (mitm.go:25): what a caller is about to present is still valid,         *)
(* cached, freshly made or made by another.                                *)
NeverExpired ==
    \A p \in Procs :
        pc[p] = "return" /\ result[p] # Failed => result[p] > now

(* Every call of Leaf returns; no waiter is left behind by a call that     *)
(* fails or whose host is evicted.                                         *)
CallsReturn == \A p \in Procs : (pc[p] # "idle") ~> (pc[p] = "idle")
=============================================================================
