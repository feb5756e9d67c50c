--------------------------- MODULE LeafCacheProofs ---------------------------
(***************************************************************************)
(* TLAPS proofs about MitmCA.Leaf, for any number of callers, hosts and    *)
(* cache slots: a certificate is issued once per host at a time, map and   *)
(* list of the LRU agree, and no caller gets an expired certificate.       *)
(***************************************************************************)
EXTENDS LeafCache, FiniteSetTheorems, SequenceTheorems, TLAPS

(* The part of the type invariant that single flight rests on. *)
FlightTypes ==
    /\ now \in 0..MaxNow
    /\ leafs \in [Hosts -> Nat \cup {NoCert}]
    /\ inFlight \in [Hosts -> Procs \cup {NoProc}]
    /\ pc \in [Procs -> {"idle", "lock", "wait", "generate", "store", "return"}]
    /\ host \in [Procs -> Hosts \cup {NoHost}]
    /\ waitFor \in [Procs -> Procs \cup {NoProc}]
    /\ result \in [Procs -> Nat \cup {NoCert, Failed}]
    /\ \A p \in Procs : pc[p] # "idle" => host[p] \in Hosts

(* A call in flight is the caller's own, for the host it asked for. *)
FlightOwned ==
    /\ \A h \in Hosts : inFlight[h] # NoProc =>
         /\ pc[inFlight[h]] \in {"generate", "store"}
         /\ host[inFlight[h]] = h
    /\ \A p \in Procs : pc[p] \in {"generate", "store"} => inFlight[host[p]] = p

NotCachedInFlight == \A h \in Hosts : inFlight[h] # NoProc => ~Cached(h)

WaitersAttached ==
    \A p \in Procs :
        pc[p] = "wait" => inFlight[host[p]] = waitFor[p] /\ waitFor[p] # NoProc

FInv == FlightTypes /\ FlightOwned /\ NotCachedInFlight /\ WaitersAttached

(* An empty cache, nobody calling. *)
LEMMA FlightInit == Init => FInv
BY CacheAssumption
DEF Init, FInv, FlightTypes, FlightOwned, NotCachedInFlight, WaitersAttached

(* Every step of a caller, and of the clock, preserves the invariant. *)
LEMMA FlightStep == FInv /\ [Next]_vars => FInv'
<1> SUFFICES ASSUME FInv, [Next]_vars PROVE FInv'
  OBVIOUS
<1> USE CacheAssumption
    DEF FInv, FlightTypes, FlightOwned, NotCachedInFlight, WaitersAttached,
        Cached, Goto, callVars
<1>1. CASE ClockTicks
  BY <1>1 DEF ClockTicks
<1>2. ASSUME NEW p \in Procs, NEW h \in Hosts, Call(p, h) PROVE FInv'
  BY <1>2 DEF Call
<1>3. ASSUME NEW p \in Procs, Hit(p) PROVE FInv'
  BY <1>3 DEF Hit
<1>4. ASSUME NEW p \in Procs, Miss(p) PROVE FInv'
  <2>1. CASE inFlight[host[p]] # NoProc
    BY <1>4, <2>1 DEF Miss
  <2>2. CASE inFlight[host[p]] = NoProc
    BY <1>4, <2>2 DEF Miss
  <2> QED
    BY <2>1, <2>2
<1>5. ASSUME NEW p \in Procs, Generate(p) PROVE FInv'
  BY <1>5 DEF Generate
<1>6. ASSUME NEW p \in Procs, Store(p) PROVE FInv'
  <2>1. FlightTypes'
    BY <1>6 DEF Store
  <2>2. FlightOwned'
    BY <1>6 DEF Store
  <2>3. NotCachedInFlight'
    BY <1>6 DEF Store
  <2>4. WaitersAttached'
    BY <1>6 DEF Store
  <2> QED
    BY <2>1, <2>2, <2>3, <2>4 DEF FInv
<1>7. ASSUME NEW p \in Procs, Return(p) PROVE FInv'
  BY <1>7 DEF Return
<1>8. CASE UNCHANGED vars
  BY <1>8 DEF vars
<1> QED
  BY <1>1, <1>2, <1>3, <1>4, <1>5, <1>6, <1>7, <1>8 DEF Next, Step

(* Leaf issues at most one certificate per host at a time, never for a     *)
(* host that is cached, and every waiter waits for the call that will      *)
(* answer it.                                                              *)
THEOREM AlwaysSingleFlight == Spec => []SingleFlight
<1>1. Init => FInv
  BY FlightInit
<1>2. FInv /\ [Next]_vars => FInv'
  BY FlightStep
<1>3. FInv => SingleFlight
  BY CacheAssumption
  DEF FInv, FlightTypes, FlightOwned, NotCachedInFlight, WaitersAttached,
      SingleFlight
<1> QED
  BY <1>1, <1>2, <1>3, PTL DEF Spec

-----------------------------------------------------------------------------
(* The list s has every member of S in it, once. *)
Listing(s, S) ==
    /\ s \in Seq(S)
    /\ \A i, j \in 1..Len(s) : s[i] = s[j] => i = j
    /\ \A h \in S : \E i \in 1..Len(s) : s[i] = h

(* What Listing says of the elements. *)
LEMMA ListElements ==
  ASSUME NEW S, NEW s, Listing(s, S)
  PROVE  /\ Len(s) \in Nat
         /\ \A i \in 1..Len(s) : s[i] \in S
         /\ \A i, j \in 1..Len(s) : s[i] = s[j] => i = j
         /\ \A h \in S : \E i \in 1..Len(s) : s[i] = h
BY DEF Listing

(* PushFront of a new member. *)
LEMMA ListPush ==
  ASSUME NEW S, NEW s, Listing(s, S), NEW h, h \notin S
  PROVE  Listing(<<h>> \o s, S \cup {h}) /\ Len(<<h>> \o s) = Len(s) + 1
<1> DEFINE t == <<h>> \o s
<1>1. /\ t \in Seq(S \cup {h}) /\ Len(t) = Len(s) + 1 /\ Len(s) \in Nat
      /\ t[1] = h /\ \A i \in 1..Len(s) : t[i + 1] = s[i] /\ s[i] \in S
  BY DEF Listing
<1> HIDE DEF t
<1>2. \A i \in 1..Len(t) : i = 1 \/ (i - 1 \in 1..Len(s) /\ t[i] = s[i - 1] /\ t[i] \in S)
  BY <1>1
<1>3. ASSUME NEW i \in 1..Len(t), NEW j \in 1..Len(t), t[i] = t[j] PROVE i = j
  <2>1. CASE i = 1 \/ j = 1
    BY <1>1, <1>2, <1>3, <2>1
  <2>2. CASE i # 1 /\ j # 1
    BY <1>1, <1>2, <1>3, <2>2, ListElements
  <2> QED
    BY <2>1, <2>2
<1>4. ASSUME NEW g \in S PROVE \E i \in 1..Len(t) : t[i] = g
  <2>1. PICK i \in 1..Len(s) : s[i] = g
    BY ListElements
  <2>2. i + 1 \in 1..Len(t) /\ t[i + 1] = g
    BY <1>1, <2>1
  <2> QED
    BY <2>2
<1>5. 1 \in 1..Len(t) /\ t[1] = h
  BY <1>1
<1> QED
  BY <1>1, <1>3, <1>4, <1>5 DEF Listing, t

(* Taking element k out of a listing. *)
LEMMA ListDrop ==
  ASSUME NEW S, NEW s, Listing(s, S), NEW k \in 1..Len(s),
         NEW t \in Seq(S), Len(t) = Len(s) - 1,
         \A i \in 1..Len(t) : t[i] = IF i < k THEN s[i] ELSE s[i + 1]
  PROVE  Listing(t, S \ {s[k]})
<1>1. Len(s) \in Nat /\ Len(t) \in Nat
  BY ListElements
<1>a. \A i, j \in 1..Len(s) : s[i] \in S /\ (s[i] = s[j] => i = j)
  BY ListElements
<1>2. ASSUME NEW i \in 1..Len(t) PROVE t[i] \in S \ {s[k]}
  <2>1. CASE i < k
    <3>1. i \in 1..Len(s) /\ i # k /\ t[i] = s[i]
      BY <1>1, <2>1
    <3> QED
      BY <1>a, <3>1
  <2>2. CASE ~(i < k)
    <3>1. i + 1 \in 1..Len(s) /\ i + 1 # k /\ t[i] = s[i + 1]
      BY <1>1, <2>2
    <3> QED
      BY <1>a, <3>1
  <2> QED
    BY <2>1, <2>2
<1>3. t \in Seq(S \ {s[k]})
  <2>1. t \in [1..Len(t) -> S \ {s[k]}]
    BY <1>1, <1>2
  <2> QED
    BY <1>1, <2>1, SeqDef
<1>4. ASSUME NEW i \in 1..Len(t), NEW j \in 1..Len(t), t[i] = t[j] PROVE i = j
  <2>1. \A m \in 1..Len(t) : \E n \in 1..Len(s) : t[m] = s[n] /\ n = IF m < k THEN m ELSE m + 1
    BY <1>1
  <2>2. PICK m \in 1..Len(s) : t[i] = s[m] /\ m = IF i < k THEN i ELSE i + 1
    BY <2>1
  <2>3. PICK n \in 1..Len(s) : t[j] = s[n] /\ n = IF j < k THEN j ELSE j + 1
    BY <2>1
  <2>4. m = n
    BY <1>4, <1>a, <2>2, <2>3
  <2> QED
    BY <1>1, <2>2, <2>3, <2>4
<1>5. ASSUME NEW g \in S \ {s[k]} PROVE \E i \in 1..Len(t) : t[i] = g
  <2>1. PICK i \in 1..Len(s) : s[i] = g
    BY ListElements
  <2>2. CASE i < k
    <3>1. i \in 1..Len(t) /\ t[i] = s[i]
      BY <1>1, <2>2
    <3> QED
      BY <2>1, <3>1
  <2>3. CASE i > k
    <3>1. i - 1 \in 1..Len(t) /\ t[i - 1] = s[i]
      BY <1>1, <2>3
    <3> QED
      BY <2>1, <3>1
  <2> QED
    BY <2>1, <2>2, <2>3
<1> QED
  BY <1>3, <1>4, <1>5 DEF Listing

(* list.Remove of one element. *)
LEMMA ListRemove ==
  ASSUME NEW S, NEW s, Listing(s, S), NEW k \in 1..Len(s)
  PROVE  /\ Listing(RemoveAt(s, k), S \ {s[k]})
         /\ Len(RemoveAt(s, k)) = Len(s) - 1
<1> DEFINE a == SubSeq(s, 1, k - 1)
           b == SubSeq(s, k + 1, Len(s))
<1>1. Len(s) \in Nat /\ \A i \in 1..Len(s) : s[i] \in S
  BY ListElements
<1>2. a \in Seq(S) /\ Len(a) = k - 1 /\ \A i \in 1..k - 1 : a[i] = s[i]
  <2>1. \A i \in 1..k - 1 : s[i] \in S
    BY <1>1
  <2> QED
    BY <1>1, <2>1, SubSeqProperties
<1>3. b \in Seq(S) /\ Len(b) = Len(s) - k /\ \A i \in 1..Len(s) - k : b[i] = s[k + i]
  <2>1. \A i \in k + 1..Len(s) : s[i] \in S
    BY <1>1
  <2>2. /\ b \in Seq(S)
        /\ Len(b) = IF k + 1 <= Len(s) THEN Len(s) - (k + 1) + 1 ELSE 0
        /\ \A i \in 1..Len(s) - (k + 1) + 1 : b[i] = s[k + 1 + i - 1]
    BY <1>1, <2>1, SubSeqProperties
  <2> QED
    BY <1>1, <2>2
<1> HIDE DEF a, b
<1>4. /\ a \o b \in Seq(S) /\ Len(a \o b) = Len(a) + Len(b)
      /\ \A i \in 1..Len(a) + Len(b) : (a \o b)[i] = IF i <= Len(a) THEN a[i] ELSE b[i - Len(a)]
  BY <1>2, <1>3, ConcatProperties
<1> DEFINE t == a \o b
<1> HIDE DEF t
<1>5. t \in Seq(S) /\ Len(t) = Len(s) - 1
  BY <1>1, <1>2, <1>3, <1>4 DEF t
<1>6. ASSUME NEW i \in 1..Len(t) PROVE t[i] = IF i < k THEN s[i] ELSE s[i + 1]
  <2>1. CASE i < k
    BY <1>1, <1>2, <1>3, <1>4, <1>5, <2>1 DEF t
  <2>2. CASE ~(i < k)
    <3>1. i - (k - 1) \in 1..Len(s) - k /\ t[i] = b[i - (k - 1)]
      BY <1>1, <1>2, <1>3, <1>4, <1>5, <2>2 DEF t
    <3>2. k + (i - (k - 1)) = i + 1
      BY <1>1, <1>5
    <3> QED
      BY <1>3, <2>2, <3>1, <3>2
  <2> QED
    BY <2>1, <2>2
<1>7. Listing(t, S \ {s[k]})
  BY <1>5, <1>6, ListDrop
<1> QED
  BY <1>5, <1>7 DEF t, a, b, RemoveAt

(* Eviction takes the last element. *)
LEMMA ListEvict ==
  ASSUME NEW S, NEW s, Listing(s, S), Len(s) > 0
  PROVE  /\ Listing(SubSeq(s, 1, Len(s) - 1), S \ {s[Len(s)]})
         /\ Len(SubSeq(s, 1, Len(s) - 1)) = Len(s) - 1
<1> DEFINE t == SubSeq(s, 1, Len(s) - 1)
<1>1. Len(s) \in Nat /\ \A i \in 1..Len(s) - 1 : s[i] \in S
  BY ListElements
<1>2. t \in Seq(S) /\ Len(t) = Len(s) - 1 /\ \A i \in 1..Len(s) - 1 : t[i] = s[i]
  <2>1. /\ t \in Seq(S) /\ Len(t) = IF 1 <= Len(s) - 1 THEN Len(s) - 1 - 1 + 1 ELSE 0
        /\ \A i \in 1..(Len(s) - 1) - 1 + 1 : t[i] = s[1 + i - 1]
    BY <1>1, SubSeqProperties
  <2> HIDE DEF t
  <2>2. Len(t) = Len(s) - 1
    <3>1. CASE 1 <= Len(s) - 1
      BY <1>1, <2>1, <3>1
    <3>2. CASE Len(s) = 1
      BY <1>1, <2>1, <3>2
    <3>3. ASSUME NEW n \in Nat, n > 0 PROVE n = 1 \/ 1 <= n - 1
      BY <3>3
    <3> QED
      BY <1>1, <3>1, <3>2, <3>3
  <2>a. (Len(s) - 1) - 1 + 1 = Len(s) - 1
    BY <1>1
  <2>3. ASSUME NEW i \in 1..Len(s) - 1 PROVE t[i] = s[i]
    <3>1. 1 + i - 1 = i
      OBVIOUS
    <3> QED
      BY <2>1, <2>a, <3>1
  <2> QED
    BY <2>1, <2>2, <2>3
<1> HIDE DEF t
<1>3. \A i \in 1..Len(t) : t[i] = IF i < Len(s) THEN s[i] ELSE s[i + 1]
  BY <1>1, <1>2
<1>4. Listing(t, S \ {s[Len(s)]})
  BY <1>1, <1>2, <1>3, ListDrop
<1> QED
  BY <1>2, <1>4 DEF t

(* A listing counts its set. *)
LEMMA ListCounts ==
  ASSUME NEW S, NEW s, Listing(s, S)
  PROVE  Len(s) = Cardinality(S) /\ {s[i] : i \in 1..Len(s)} = S
<1>1. s \in [1..Len(s) -> S] /\ Len(s) \in Nat
  BY DEF Listing
<1>2. s \in Injection(1..Len(s), S)
  BY <1>1, ListElements DEF Injection, IsInjective
<1>3. s \in Surjection(1..Len(s), S)
  BY <1>1, ListElements DEF Surjection
<1>4. ExistsBijection(1..Len(s), S)
  BY <1>2, <1>3 DEF ExistsBijection, Bijection
<1>5. Len(s) = Cardinality(S)
  BY <1>1, <1>4, FS_CountingElements
<1> QED
  BY <1>1, <1>5, ListElements

-----------------------------------------------------------------------------
InCache == {h \in Hosts : Cached(h)}

(* The list of the LRU has the cached hosts, each once. *)
Listed == Listing(lru, InCache) /\ Len(lru) <= MaxCached

(* Nobody is slower than Slow. *)
Timely ==
    /\ asked \in [Procs -> 0..MaxNow]
    /\ \A p \in Procs : pc[p] # "idle" => asked[p] <= now /\ now - asked[p] <= Slow

(* What a caller holds outlives its call. *)
Lasting ==
    \A p \in Procs :
        /\ pc[p] = "store" =>
              result[p] # NoCert /\ (result[p] # Failed => result[p] >= asked[p] + LeafTTL)
        /\ pc[p] = "return" =>
              result[p] # NoCert /\ (result[p] # Failed => result[p] > asked[p] + Slow)

CInv == FInv /\ Listed /\ Timely /\ Lasting

(* The cache is empty and nobody holds a certificate. *)
LEMMA CacheInit == Init => CInv
<1> SUFFICES ASSUME Init PROVE CInv
  OBVIOUS
<1>1. InCache = {} /\ lru = << >>
  BY DEF Init, InCache, Cached
<1>2. Listed
  BY <1>1, CacheAssumption DEF Listed, Listing
<1> QED
  BY <1>2, FlightInit, CacheAssumption DEF Init, CInv, Timely, Lasting

(* list.MoveToFront and list.Remove of a cached host. *)
LEMMA MoveAndRemove ==
  ASSUME Listed, NEW h \in InCache
  PROVE  /\ Listing(Without(h), InCache \ {h}) /\ Len(Without(h)) = Len(lru) - 1
         /\ Listing(MoveToFront(h), InCache) /\ Len(MoveToFront(h)) = Len(lru)
<1>1. \E i \in 1..Len(lru) : lru[i] = h
  BY ListElements DEF Listed
<1>2. Element(h) \in 1..Len(lru) /\ lru[Element(h)] = h
  BY <1>1 DEF Element
<1>3. Listing(Without(h), InCache \ {h}) /\ Len(Without(h)) = Len(lru) - 1
  BY <1>2, ListRemove DEF Listed, Without
<1>4. /\ Listing(<<h>> \o Without(h), (InCache \ {h}) \cup {h})
      /\ Len(<<h>> \o Without(h)) = Len(Without(h)) + 1
  BY <1>3, ListPush
<1>5. (InCache \ {h}) \cup {h} = InCache /\ Len(lru) \in Nat
  BY ListElements DEF Listed
<1> QED
  BY <1>3, <1>4, <1>5 DEF MoveToFront

(* Looking up, dropping, adding and evicting keep map and list together.   *)
LEMMA ListedStep == CInv /\ [Next]_vars => Listed'
<1> SUFFICES ASSUME CInv, [Next]_vars PROVE Listed'
  OBVIOUS
<1> USE CacheAssumption
<1>1. Listed /\ FInv /\ Len(lru) \in Nat
  BY ListElements DEF CInv, Listed
<1>2. ASSUME UNCHANGED <<leafs, lru>> PROVE Listed'
  BY <1>1, <1>2 DEF Listed, InCache, Cached, Listing
<1>3. ASSUME NEW p \in Procs, Hit(p) PROVE Listed'
  <2>1. host[p] \in InCache
    BY <1>1, <1>3 DEF Hit, InCache, FInv, FlightTypes
  <2>2. InCache' = InCache /\ lru' = MoveToFront(host[p])
    BY <1>3 DEF Hit, InCache, Cached
  <2> QED
    BY <1>1, <2>1, <2>2, MoveAndRemove DEF Listed
<1>4. ASSUME NEW p \in Procs, Miss(p) PROVE Listed'
  <2>1. host[p] \in Hosts /\ InCache' = InCache \ {host[p]}
    BY <1>1, <1>4 DEF Miss, InCache, Cached, FInv, FlightTypes
  <2>2. CASE Cached(host[p])
    <3>1. host[p] \in InCache /\ lru' = Without(host[p])
      BY <1>4, <2>1, <2>2 DEF Miss, InCache
    <3>2. Listing(lru', InCache') /\ Len(lru') = Len(lru) - 1
      BY <1>1, <2>1, <3>1, MoveAndRemove
    <3> QED
      BY <1>1, <3>2 DEF Listed
  <2>3. CASE ~Cached(host[p])
    <3>1. InCache \ {host[p]} = InCache /\ lru' = lru
      BY <1>4, <2>3 DEF Miss, InCache
    <3> QED
      BY <1>1, <2>1, <3>1 DEF Listed
  <2> QED
    BY <2>2, <2>3
<1>5. ASSUME NEW p \in Procs, Store(p) PROVE Listed'
  <2> DEFINE h == host[p]
             full == Len(lru) >= MaxCached
             oldest == lru[Len(lru)]
  <2>1. CASE result[p] = Failed
    BY <1>2, <1>5, <2>1 DEF Store
  <2>2. CASE result[p] # Failed
    <3>1. h \in Hosts /\ h \notin InCache /\ result[p] # NoCert
      BY <1>1, <1>5 DEF Store, CInv, FInv, FlightTypes, FlightOwned, NotCachedInFlight,
                        Lasting, InCache
    <3>2. /\ leafs' = [x \in Hosts |-> IF x = h THEN result[p]
                                        ELSE IF full /\ x = oldest THEN NoCert ELSE leafs[x]]
          /\ lru' = <<h>> \o (IF full THEN SubSeq(lru, 1, Len(lru) - 1) ELSE lru)
      BY <1>5, <2>2 DEF Store
    <3>3. CASE full
      <4>1. /\ Listing(SubSeq(lru, 1, Len(lru) - 1), InCache \ {oldest})
            /\ Len(SubSeq(lru, 1, Len(lru) - 1)) = Len(lru) - 1
        BY <1>1, <3>3, ListEvict DEF Listed
      <4>2. /\ Listing(lru', (InCache \ {oldest}) \cup {h})
            /\ Len(lru') = Len(lru) - 1 + 1
        BY <3>1, <3>2, <3>3, <4>1, ListPush
      <4>3. InCache' = (InCache \ {oldest}) \cup {h}
        BY <3>1, <3>2, <3>3 DEF InCache, Cached
      <4> QED
        BY <1>1, <4>2, <4>3 DEF Listed
    <3>4. CASE ~full
      <4>1. Listing(lru', InCache \cup {h}) /\ Len(lru') = Len(lru) + 1
        BY <1>1, <3>1, <3>2, <3>4, ListPush DEF Listed
      <4>2. InCache' = InCache \cup {h}
        BY <3>1, <3>2, <3>4 DEF InCache, Cached
      <4> QED
        BY <1>1, <3>4, <4>1, <4>2 DEF Listed
    <3> QED
      BY <3>3, <3>4
  <2> QED
    BY <2>1, <2>2
<1>6. CASE UNCHANGED vars
  BY <1>2, <1>6 DEF vars
<1> QED
  BY <1>2, <1>3, <1>4, <1>5, <1>6
  DEF Next, Step, ClockTicks, Call, Generate, Return

(* The clock waits for nobody longer than Slow; certificates are handed    *)
(* out with more than that left.                                           *)
LEMMA ValidStep == CInv /\ [Next]_vars => Timely' /\ Lasting'
<1> SUFFICES ASSUME CInv, [Next]_vars PROVE Timely' /\ Lasting'
  OBVIOUS
<1> USE CacheAssumption DEF CInv, FInv, FlightTypes, Timely, Lasting, Goto, callVars
<1>1. CASE ClockTicks
  BY <1>1 DEF ClockTicks
<1>2. ASSUME NEW p \in Procs, NEW h \in Hosts, Call(p, h) PROVE Timely' /\ Lasting'
  BY <1>2 DEF Call
<1>3. ASSUME NEW p \in Procs, Hit(p) PROVE Timely' /\ Lasting'
  BY <1>3 DEF Hit, Cached, Fresh
<1>4. ASSUME NEW p \in Procs, Miss(p) PROVE Timely' /\ Lasting'
  BY <1>4 DEF Miss
<1>5. ASSUME NEW p \in Procs, Generate(p) PROVE Timely' /\ Lasting'
  BY <1>5 DEF Generate
<1>6. ASSUME NEW p \in Procs, Store(p) PROVE Timely' /\ Lasting'
  BY <1>6 DEF Store
<1>7. ASSUME NEW p \in Procs, Return(p) PROVE Timely' /\ Lasting'
  BY <1>7 DEF Return
<1>8. CASE UNCHANGED vars
  BY <1>8 DEF vars
<1> QED
  BY <1>1, <1>2, <1>3, <1>4, <1>5, <1>6, <1>7, <1>8 DEF Next, Step

(* CInv is an invariant of the cache. *)
LEMMA CacheInvariant == Spec => []CInv
<1>1. CInv /\ [Next]_vars => CInv'
  BY FlightStep, ListedStep, ValidStep DEF CInv
<1> QED
  BY <1>1, CacheInit, PTL DEF Spec

(* c.leafs and c.lru are two views of one cache of at most maxCachedLeafs  *)
(* certificates, whatever is hit, dropped, added and evicted, by any       *)
(* number of callers; the state is well-typed.                             *)
THEOREM MapAlwaysMatchesList == Spec => []MapMatchesList
<1>1. CInv => MapMatchesList
  <2> SUFFICES ASSUME CInv PROVE MapMatchesList
    OBVIOUS
  <2>1. lru \in Seq(Hosts)
    BY SeqMonotonic DEF CInv, Listed, Listing, InCache
  <2>2. TypeOK
    BY <2>1 DEF TypeOK, CInv, FInv, FlightTypes, Timely
  <2>3. Len(lru) = Cardinality(InCache) /\ {lru[i] : i \in 1..Len(lru)} = InCache
    BY ListCounts DEF CInv, Listed
  <2> QED
    BY <2>2, <2>3 DEF MapMatchesList, CInv, Listed, InCache
<1> QED
  BY <1>1, CacheInvariant, PTL

(* Leaf never hands out a certificate that expires before the handshake it *)
(* is for, whether it was cached, made by the caller or by another one, as *)
(* long as no call takes longer than the renewal margin.                   *)
THEOREM LeafNeverExpired == Spec => []NeverExpired
<1>1. CInv => NeverExpired
  BY CacheAssumption DEF CInv, FInv, FlightTypes, Timely, Lasting, NeverExpired
<1> QED
  BY <1>1, CacheInvariant, PTL
=============================================================================
