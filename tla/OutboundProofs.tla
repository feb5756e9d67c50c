---------------------------- MODULE OutboundProofs ----------------------------
(***************************************************************************)
(* Proofs about an outbound request, for every set of requests, calls and  *)
(* answers of DNS: what is connected to passed the filter of that dial,    *)
(* and the corporate proxy is bypassed only where NO_PROXY says so; a      *)
(* connection that is returned is open and stays so, one of a failed dial  *)
(* is closed; each call and each GraphQL root field in an admitted body    *)
(* was judged; and the path judged is the one that the target walks to.    *)
(***************************************************************************)
EXTENDS Outbound, FiniteSetTheorems, SequenceTheorems, WellFoundedInduction, TLAPS

-----------------------------------------------------------------------------
(* Induction up to a number, for sets *)

Less == {x \in Nat \X Nat : x[1] < x[2]}

(* Natural numbers have no infinite descent. *)
LEMMA LessWellFounded == IsWellFoundedOn(Less, Nat)
BY NatLessThanWellFounded DEF OpToRel, Less

(* A set with 0 that goes on up to m has all the numbers up to m. *)
LEMMA UpTo ==
  ASSUME NEW m \in Nat, NEW T, 0 \in T, \A n \in 0..(m - 1) : n \in T => n + 1 \in T
  PROVE  0..m \subseteq T
<1> DEFINE Bad == (0..m) \ T
<1> SUFFICES ASSUME Bad # {} PROVE FALSE
  OBVIOUS
<1>1. Bad \subseteq Nat
  OBVIOUS
<1>2. PICK x \in Bad : \A y \in Bad : ~(<<y, x>> \in Less)
  <2> HIDE DEF Bad
  <2> QED
    BY <1>1, LessWellFounded, WFMin
<1>3. \A y \in Bad : ~(y < x)
  BY <1>1, <1>2 DEF Less
<1>4. x - 1 \in 0..(m - 1) /\ x - 1 \in T
  BY <1>3
<1> QED
  BY <1>4

-----------------------------------------------------------------------------
(* First and last, and one after the other *)

(* A set of positions that is not empty has a first and a last one. *)
LEMMA FirstAndLast ==
  ASSUME NEW m \in Nat, NEW I \in SUBSET (1..m), I # {}
  PROVE  Min(I) \in I /\ Max(I) \in I
<1>1. \E x \in I : \A y \in I : x <= y
  <2>1. I \subseteq Nat
    OBVIOUS
  <2>2. PICK x \in I : \A y \in I : ~(<<y, x>> \in Less)
    BY <2>1, LessWellFounded, WFMin
  <2>3. \A y \in I : ~(y < x)
    BY <2>1, <2>2 DEF Less
  <2> QED
    BY <2>3
<1>2. \E x \in I : \A y \in I : x >= y
  <2> DEFINE J == {m - i : i \in I}
  <2>1. J \subseteq Nat /\ J # {}
    <3>1. \A i \in I : m - i \in Nat
      OBVIOUS
    <3> QED
      BY <3>1
  <2>2. PICK z \in J : \A y \in J : ~(<<y, z>> \in Less)
    <3> HIDE DEF J
    <3> QED
      BY <2>1, LessWellFounded, WFMin
  <2>3. PICK x \in I : z = m - x
    OBVIOUS
  <2>4. ASSUME NEW y \in I PROVE x >= y
    <3>1. m - y \in J /\ m - y \in Nat /\ z \in Nat
      BY <2>1
    <3>2. ~(m - y < z)
      BY <2>2, <3>1 DEF Less
    <3> QED
      BY <2>3, <3>2
  <2> QED
    BY <2>4
<1> QED
  BY <1>1, <1>2 DEF Min, Max

(* f[i] is the first i of the sequences in one, for i up to k. *)
Flattens(f, k, ss) ==
    f = [i \in 1..k |-> IF i = 1 THEN ss[i] ELSE f[i - 1] \o ss[i]]

Flattened(f, k, ss) ==
    f[1] = ss[1] /\ \A j \in 1..(k - 1) : f[j + 1] = f[j] \o ss[j + 1]

(* Step by step. *)
LEMMA FlattenSteps ==
  ASSUME NEW k \in Nat \ {0}, NEW f, NEW ss, Flattens(f, k, ss)
  PROVE  Flattened(f, k, ss)
<1> DEFINE G(i) == IF i = 1 THEN ss[i] ELSE f[i - 1] \o ss[i]
<1>1. f = [i \in 1..k |-> G(i)]
  BY DEF Flattens
<1>2. G(1) = ss[1]
  OBVIOUS
<1>3. ASSUME NEW j \in 1..(k - 1) PROVE G(j + 1) = f[j] \o ss[j + 1]
  <2>1. j + 1 # 1 /\ (j + 1) - 1 = j
    OBVIOUS
  <2> QED
    BY <2>1, Zenon
<1> HIDE DEF G
<1>4. \A i \in 1..k : f[i] = G(i)
  BY <1>1
<1>5. 1 \in 1..k /\ \A j \in 1..(k - 1) : j + 1 \in 1..k
  OBVIOUS
<1> QED
  BY <1>2, <1>3, <1>4, <1>5, Zenon DEF Flattened

(* FlattenSeq is where they end. *)
LEMMA FlattenExists ==
  ASSUME NEW ss, Len(ss) \in Nat \ {0}
  PROVE  \E f : Flattens(f, Len(ss), ss) /\ FlattenSeq(ss) = f[Len(ss)]
<1> DEFINE m == Len(ss) - 1
           T == {k \in 0..m : \E f : Flattens(f, k + 1, ss)}
<1>0. m \in Nat /\ Len(ss) = m + 1
  OBVIOUS
<1>1. 0 \in T
  <2>1. Flattens([i \in 1..1 |-> ss[1]], 1, ss)
    BY DEF Flattens
  <2> QED
    BY <1>0, <2>1
<1> HIDE DEF m
<1>2. ASSUME NEW k \in 0..(m - 1), k \in T PROVE k + 1 \in T
  <2>1. PICK f : Flattens(f, k + 1, ss)
    BY <1>2
  <2> DEFINE last == f[k + 1] \o ss[k + 2]
             g == [i \in 1..(k + 2) |-> IF i = k + 2 THEN last ELSE f[i]]
  <2>2. ASSUME NEW i \in 1..(k + 2)
        PROVE  g[i] = IF i = 1 THEN ss[i] ELSE g[i - 1] \o ss[i]
    <3>1. k + 1 \in Nat \ {0} /\ (k + 1) - 1 = k
      OBVIOUS
    <3>2. f[1] = ss[1] /\ \A j \in 1..k : f[j + 1] = f[j] \o ss[j + 1]
      <4>1. Flattened(f, k + 1, ss)
        BY <2>1, <3>1, FlattenSteps
      <4> QED
        BY <3>1, <4>1, Zenon DEF Flattened
    <3>3. CASE i = 1
      BY <3>2, <3>3
    <3>4. CASE i = k + 2
      <4>1. i # 1 /\ i - 1 = k + 1 /\ k + 1 \in 1..(k + 2) /\ k + 1 # k + 2
        BY <3>4
      <4>2. g[i] = last /\ g[i - 1] = f[k + 1]
        BY <3>4, <4>1, Zenon
      <4> QED
        BY <3>4, <4>1, <4>2, Zenon
    <3>5. CASE i \in 2..(k + 1)
      <4>1. i - 1 \in 1..k /\ (i - 1) + 1 = i /\ i # 1
        BY <3>5
      <4>2. f[i] = f[i - 1] \o ss[i]
        BY <3>2, <4>1
      <4>3. g[i] = f[i] /\ g[i - 1] = f[i - 1]
        BY <3>5
      <4> QED
        BY <4>1, <4>2, <4>3
    <3> QED
      BY <3>3, <3>4, <3>5
  <2>3. Flattens(g, k + 2, ss)
    BY <2>2 DEF Flattens
  <2>4. k + 1 \in 0..m /\ (k + 1) + 1 = k + 2
    BY <1>0
  <2> HIDE DEF g
  <2> QED
    BY <2>3, <2>4
<1> DEFINE g == CHOOSE f : Flattens(f, Len(ss), ss)
<1>3. Flattens(g, Len(ss), ss)
  <2> HIDE DEF T
  <2>2. 0..m \subseteq T
    BY <1>0, <1>1, <1>2, UpTo
  <2>3. m \in T
    BY <1>0, <2>2
  <2> QED
    BY <1>0, <2>3 DEF T
<1>4. FlattenSeq(ss) = g[Len(ss)]
  BY DEF FlattenSeq, Flattens
<1> HIDE DEF g
<1> QED
  BY <1>3, <1>4

(* Sequences of members of S, one after the other, are one of members of S. *)
LEMMA FlattenType ==
  ASSUME NEW S, NEW ss \in Seq(Seq(S))
  PROVE  FlattenSeq(ss) \in Seq(S)
<1>0. Len(ss) \in Nat /\ \A i \in 1..Len(ss) : ss[i] \in Seq(S)
  OBVIOUS
<1>1. CASE Len(ss) = 0
  BY <1>1, EmptySeq DEF FlattenSeq
<1>2. CASE Len(ss) # 0
  <2>1. PICK f : Flattens(f, Len(ss), ss) /\ FlattenSeq(ss) = f[Len(ss)]
    BY <1>0, <1>2, FlattenExists
  <2>2. f[1] = ss[1] /\ \A j \in 1..(Len(ss) - 1) : f[j + 1] = f[j] \o ss[j + 1]
    <3>1. Flattened(f, Len(ss), ss)
      BY <1>0, <1>2, <2>1, FlattenSteps
    <3> QED
      BY <3>1, Zenon DEF Flattened
  <2> DEFINE m == Len(ss) - 1
             T == {k \in 0..m : f[k + 1] \in Seq(S)}
  <2>3. m \in Nat /\ Len(ss) = m + 1
    BY <1>0, <1>2
  <2>4. 0 \in T
    BY <1>0, <2>2, <2>3
  <2>5. ASSUME NEW k \in 0..(m - 1), k \in T PROVE k + 1 \in T
    <3>1. k + 1 \in 1..(Len(ss) - 1) /\ (k + 1) + 1 \in 1..Len(ss) /\ k + 1 \in 0..m
      BY <2>3
    <3>2. f[(k + 1) + 1] = f[k + 1] \o ss[(k + 1) + 1]
      BY <2>2, <3>1
    <3>3. f[k + 1] \in Seq(S) /\ ss[(k + 1) + 1] \in Seq(S)
      BY <1>0, <2>5, <3>1
    <3>4. f[(k + 1) + 1] \in Seq(S)
      BY <3>2, <3>3
    <3> QED
      BY <3>1, <3>4
  <2> HIDE DEF T, m
  <2>6. 0..m \subseteq T
    BY <2>3, <2>4, <2>5, UpTo
  <2>7. m \in T
    BY <2>3, <2>6
  <2> QED
    BY <2>1, <2>3, <2>7 DEF T
<1> QED
  BY <1>1, <1>2

-----------------------------------------------------------------------------
(* Sets in order *)

(* lt is a strict total order on C. *)
Ordered(C, lt) ==
    /\ lt \in SUBSET (C \X C)
    /\ \A x \in C : <<x, x>> \notin lt
    /\ \A x, y, z \in C : <<x, y>> \in lt /\ <<y, z>> \in lt => <<x, z>> \in lt
    /\ \A x, y \in C : x = y \/ <<x, y>> \in lt \/ <<y, x>> \in lt

(* In a finite set that is ordered there is, for each n up to its size, a  *)
(* member with n - 1 members before it.                                    *)
LEMMA Ranks ==
  ASSUME NEW C, IsFiniteSet(C), NEW lt, Ordered(C, lt)
  PROVE  \A n \in 1..Cardinality(C) :
            \E x \in C : Cardinality({y \in C : <<y, x>> \in lt}) = n - 1
<1> DEFINE B == [x \in C |-> {y \in C : <<y, x>> \in lt}]
           c == Cardinality(C)
           rank == [x \in C |-> Cardinality(B[x]) + 1]
<1>1. c \in Nat
  BY FS_CardinalityType
<1>2. ASSUME NEW x \in C
      PROVE  /\ IsFiniteSet(B[x]) /\ Cardinality(B[x]) \in Nat
             /\ Cardinality(B[x]) < c
  <2>1. B[x] \in SUBSET C /\ B[x] # C
    BY DEF Ordered
  <2>2. IsFiniteSet(B[x]) /\ Cardinality(B[x]) <= c /\ c # Cardinality(B[x])
    BY <2>1, FS_Subset
  <2>3. Cardinality(B[x]) \in Nat
    BY <2>2, FS_CardinalityType
  <2> QED
    BY <1>1, <2>2, <2>3
<1>3. ASSUME NEW x \in C, NEW y \in C, <<x, y>> \in lt
      PROVE  Cardinality(B[x]) < Cardinality(B[y])
  <2>1. B[x] \in SUBSET B[y]
    BY <1>3 DEF Ordered
  <2>2. x \in B[y] /\ x \notin B[x]
    BY <1>3 DEF Ordered
  <2>3. Cardinality(B[x]) <= Cardinality(B[y]) /\ Cardinality(B[y]) # Cardinality(B[x])
    BY <1>2, <2>1, <2>2, FS_Subset
  <2>4. Cardinality(B[x]) \in Nat /\ Cardinality(B[y]) \in Nat
    BY <1>2
  <2> QED
    BY <2>3, <2>4
<1>4. \A x \in C : rank[x] \in 1..c /\ rank[x] = Cardinality(B[x]) + 1 /\ Cardinality(B[x]) \in Nat
  <2> SUFFICES ASSUME NEW x \in C PROVE rank[x] \in 1..c /\ rank[x] = Cardinality(B[x]) + 1 /\ Cardinality(B[x]) \in Nat
    OBVIOUS
  <2>1. rank[x] = Cardinality(B[x]) + 1
    OBVIOUS
  <2> HIDE DEF rank, B
  <2> QED
    BY <1>1, <1>2, <2>1
<1>5. rank \in [C -> 1..c]
  BY <1>4
<1> HIDE DEF rank, c, B
<1>6. rank \in Injection(C, 1..c)
  <2>1. ASSUME NEW x \in C, NEW y \in C, rank[x] = rank[y] PROVE x = y
    <3>1. ~(<<x, y>> \in lt) /\ ~(<<y, x>> \in lt)
      BY <1>3, <1>4, <2>1
    <3> QED
      BY <3>1 DEF Ordered
  <2> QED
    BY <1>5, <2>1 DEF Injection, IsInjective
<1>7. IsFiniteSet(1..c) /\ Cardinality(1..c) = c
  BY <1>1, FS_Interval
<1>8. rank \in Surjection(C, 1..c)
  BY <1>6, <1>7, FS_Injection DEF c
<1>9. ASSUME NEW n \in 1..c PROVE \E x \in C : Cardinality(B[x]) = n - 1
  <2>1. PICK x \in C : rank[x] = n
    BY <1>8 DEF Surjection
  <2>2. Cardinality(B[x]) = n - 1
    BY <1>4, <2>1
  <2> QED
    BY <2>2
<1>10. \A x \in C : B[x] = {y \in C : <<y, x>> \in lt}
  BY DEF B
<1> QED
  BY <1>9, <1>10 DEF c

(* ResolveAndFilter returns addresses it was given, each of them approved. *)
LEMMA ApprovedElements ==
  ASSUME NEW found \in Seq(Address)
  PROVE  /\ ApprovedOf(found) \in Seq(Address)
         /\ \A n \in 1..Len(ApprovedOf(found)) :
               ApprovedOf(found)[n] \in ToSet(found) /\ Approved(ApprovedOf(found)[n])
<1> DEFINE K == {i \in DOMAIN found : Approved(found[i])}
           lt == {x \in K \X K : x[1] < x[2]}
           kept == SortedBy(K, Earlier)
<1>1. Len(found) \in Nat /\ DOMAIN found = 1..Len(found)
  OBVIOUS
<1>2. IsFiniteSet(K) /\ K \subseteq 1..Len(found)
  <2>1. IsFiniteSet(1..Len(found)) /\ K \in SUBSET (1..Len(found))
    BY <1>1, FS_Interval
  <2> QED
    BY <2>1, FS_Subset
<1>3. Cardinality(K) \in Nat
  BY <1>2, FS_CardinalityType
<1>4. \A i \in K : i \in 1..Len(found) /\ Approved(found[i])
  BY <1>1
<1> HIDE DEF K
<1>5. Ordered(K, lt)
  BY <1>1, <1>2 DEF Ordered
<1> HIDE DEF lt
<1>6. \A n \in 1..Cardinality(K) : \E x \in K : Cardinality({y \in K : <<y, x>> \in lt}) = n - 1
  <2>1. IsFiniteSet(K)
    BY <1>2
  <2> QED
    BY <1>5, <2>1, Ranks, SMTT(30)
<1>7. \A x \in K : {y \in K : <<y, x>> \in lt} = {y \in K : Earlier(y, x)}
  BY DEF Earlier, lt
<1>8. \A n \in 1..Cardinality(K) : \E x \in K : Cardinality({y \in K : Earlier(y, x)}) = n - 1
  BY <1>6, <1>7
<1>9. DOMAIN kept = 1..Cardinality(K) /\ \A n \in 1..Cardinality(K) : kept[n] \in K
  BY <1>8 DEF SortedBy
<1> DEFINE out == [n \in DOMAIN kept |-> found[kept[n]]]
<1> HIDE DEF kept
<1>10. out \in [1..Cardinality(K) -> Address]
  BY <1>4, <1>9
<1>11. out \in Seq(Address) /\ Len(out) = Cardinality(K)
  BY <1>3, <1>10
<1>12. \A n \in 1..Len(out) : out[n] \in ToSet(found) /\ Approved(out[n])
  BY <1>1, <1>4, <1>9, <1>11 DEF ToSet
<1>13. ApprovedOf(found) = out
  BY DEF ApprovedOf, kept, K
<1> HIDE DEF out
<1> QED
  BY <1>11, <1>12, <1>13

(* An entry of NO_PROXY that lets an address go past the proxy. *)
Exempted(a) ==
    \E e \in ToSet(call.noProxy) : Applies(e) /\ (CoversHost(e) \/ CoversAddress(e, a))

(* noProxyAddresses returns some of the addresses, each exempted.          *)
LEMMA ExemptElements ==
  ASSUME addrs \in Seq(Address), call.noProxy \in Seq(Entry)
  PROVE  /\ noProxyAddresses(call.noProxy) \in Seq(Address)
         /\ \A n \in 1..Len(noProxyAddresses(call.noProxy)) :
               /\ noProxyAddresses(call.noProxy)[n] \in ToSet(addrs)
               /\ Exempted(noProxyAddresses(call.noProxy)[n])
<1> DEFINE entries == call.noProxy
           met == {x \in (DOMAIN entries) \X (DOMAIN addrs) :
                      Applies(entries[x[1]]) /\ CoversAddress(entries[x[1]], addrs[x[2]])}
           first == {x \in met : \A y \in met : Sooner(y, x) => addrs[y[2]] # addrs[x[2]]}
           order == SortedBy(first, Sooner)
           lt == {z \in first \X first : Sooner(z[1], z[2])}
           out == [n \in DOMAIN order |-> addrs[order[n][2]]]
           whole == \E e \in ToSet(entries) : Applies(e) /\ CoversHost(e)
<1>1. /\ Len(entries) \in Nat /\ DOMAIN entries = 1..Len(entries)
      /\ Len(addrs) \in Nat /\ DOMAIN addrs = 1..Len(addrs)
  OBVIOUS
<1>2. noProxyAddresses(entries) = IF whole THEN addrs ELSE out
  BY DEF noProxyAddresses
<1>3. CASE whole
  <2>1. \A n \in 1..Len(addrs) : addrs[n] \in ToSet(addrs) /\ Exempted(addrs[n])
    BY <1>1, <1>3 DEF ToSet, Exempted
  <2> HIDE DEF whole
  <2> QED
    BY <1>2, <1>3, <2>1
<1>4. CASE ~whole
  <2>1. IsFiniteSet((DOMAIN entries) \X (DOMAIN addrs))
    <3>1. IsFiniteSet(1..Len(entries)) /\ IsFiniteSet(1..Len(addrs))
      BY <1>1, FS_Interval
    <3> QED
      BY <1>1, <3>1, FS_Product
  <2>2. IsFiniteSet(first)
    <3>1. first \in SUBSET ((DOMAIN entries) \X (DOMAIN addrs))
      OBVIOUS
    <3> QED
      BY <2>1, <3>1, FS_Subset
  <2>3. Cardinality(first) \in Nat
    BY <2>2, FS_CardinalityType
  <2>4. \A x \in first : /\ x \in (1..Len(entries)) \X (1..Len(addrs))
                          /\ Applies(entries[x[1]])
                          /\ CoversAddress(entries[x[1]], addrs[x[2]])
    BY <1>1
  <2> HIDE DEF first
  <2>5. Ordered(first, lt)
    <3>1. \A x \in first : ~Sooner(x, x)
      BY <1>1, <2>4 DEF Sooner
    <3>2. \A x, y, z \in first : Sooner(x, y) /\ Sooner(y, z) => Sooner(x, z)
      BY <1>1, <2>4 DEF Sooner
    <3>3. \A x, y \in first : x = y \/ Sooner(x, y) \/ Sooner(y, x)
      BY <1>1, <2>4 DEF Sooner
    <3> QED
      BY <3>1, <3>2, <3>3 DEF Ordered
  <2>6. \A n \in 1..Cardinality(first) :
           \E x \in first : Cardinality({y \in first : <<y, x>> \in lt}) = n - 1
    <3> HIDE DEF lt
    <3> QED
      BY <2>2, <2>5, Ranks, SMTT(30)
  <2>7. \A x \in first : {y \in first : <<y, x>> \in lt} = {y \in first : Sooner(y, x)}
    OBVIOUS
  <2>8. \A n \in 1..Cardinality(first) :
           \E x \in first : Cardinality({y \in first : Sooner(y, x)}) = n - 1
    BY <2>6, <2>7
  <2>9. /\ DOMAIN order = 1..Cardinality(first)
        /\ \A n \in 1..Cardinality(first) : order[n] \in first
    BY <2>8 DEF SortedBy
  <2> HIDE DEF order
  <2>10. \A n \in 1..Cardinality(first) :
            /\ out[n] = addrs[order[n][2]]
            /\ order[n][1] \in 1..Len(entries) /\ order[n][2] \in 1..Len(addrs)
            /\ Applies(entries[order[n][1]])
            /\ CoversAddress(entries[order[n][1]], out[n])
    BY <2>4, <2>9
  <2>11. out \in Seq(Address) /\ Len(out) = Cardinality(first)
    <3>1. out \in [1..Cardinality(first) -> Address]
      BY <1>1, <2>9, <2>10
    <3> QED
      BY <2>3, <3>1
  <2> HIDE DEF out
  <2>12. \A n \in 1..Len(out) : out[n] \in ToSet(addrs) /\ Exempted(out[n])
    BY <1>1, <2>10, <2>11 DEF ToSet, Exempted
  <2> HIDE DEF whole
  <2> QED
    BY <1>2, <1>4, <2>11, <2>12
<1> QED
  BY <1>3, <1>4

-----------------------------------------------------------------------------
(* The life of a connection *)

NotYet == {"idle", "resolve", "route", "direct", "connect"}
Speaking == {"check", "tls", "send", "receive", "stop"}

(* The connection at each step: there is none before the proxy is dialled; *)
(* from Arm to StopCancel the callback is armed or has started, and only   *)
(* in the second case may the connection be closed; behind StopCancel the  *)
(* callback is gone for good.                                              *)
ConnInv ==
    /\ dial.pc \in NotYet => sock = "none" /\ hook = "off" /\ ~deadline
    /\ dial.pc \in {"deadline", "arm"} => sock = "open" /\ hook = "off"
    /\ dial.pc \in Speaking => /\ hook \in {"armed", "started", "ran"}
                               /\ hook = "armed" => sock = "open"
    /\ dial.pc = "clear" => sock = "open" /\ hook = "stopped"
    /\ dial.pc = "done" => hook # "armed"
    /\ dial.pc # "done" => result = "none"
    /\ dial.pc \in NotYet \cup Speaking \cup {"deadline", "arm", "clear", "done"}
    /\ dial = [pc |-> dial.pc, k |-> dial.k]
    /\ ReturnedUsable
    /\ FailedClosed

DialAny == (\E c \in Calls : Start(c)) \/ DialNext

(* There is no connection at the start. *)
LEMMA ConnInit == DialInit => ConnInv
  BY DEF DialInit, ConnInv, NotYet, Speaking, ReturnedUsable, FailedClosed

(* A way out through Fail closes what is open and takes back the callback. *)
LEMMA FailKeepsConn ==
  ASSUME ConnInv, Fail, dial.pc # "done"
  PROVE  ConnInv'
  BY DEF ConnInv, Fail, Goto, NotYet, Speaking, ReturnedUsable, FailedClosed

(* Every step of the dial, and its callback, keeps the connection owned. *)
LEMMA ConnStep == ConnInv /\ [DialAny]_dialVars => ConnInv'
<1> SUFFICES ASSUME ConnInv, [DialAny]_dialVars PROVE ConnInv'
  OBVIOUS
<1> USE DEF ConnInv, NotYet, Speaking, ReturnedUsable, FailedClosed, At, Goto
<1>1. CASE \E c \in Calls : Start(c)
  BY <1>1 DEF Start
<1>2. CASE ResolveLiteral
  BY <1>2 DEF ResolveLiteral, Filter
<1>3. CASE \E found \in Answers \cup {<< >>} : Lookup(found)
  BY <1>3 DEF Lookup, Filter
<1>4. CASE RouteDirect
  BY <1>4 DEF RouteDirect
<1>5. CASE RouteProxy
  BY <1>5 DEF RouteProxy
<1>6. CASE \E ok \in BOOLEAN : DialDirect(ok)
  BY <1>6 DEF DialDirect
<1>7. CASE \E ok \in BOOLEAN : Connect(ok)
  BY <1>7, FailKeepsConn DEF Connect
<1>8. CASE \E ok \in BOOLEAN : SetDeadline(ok)
  BY <1>8, FailKeepsConn DEF SetDeadline
<1>9. CASE Arm
  BY <1>9 DEF Arm
<1>10. CASE CheckContext
  BY <1>10, FailKeepsConn DEF CheckContext
<1>11. CASE Interrupted
  BY <1>11, FailKeepsConn DEF Interrupted
<1>12. CASE StopCancel
  BY <1>12, FailKeepsConn DEF StopCancel
<1>13. CASE \E ok \in BOOLEAN : ClearDeadline(ok)
  BY <1>13, FailKeepsConn DEF ClearDeadline
<1>14. CASE Handshake
  BY <1>14 DEF Handshake
<1>15. CASE Send
  BY <1>15 DEF Send
<1>16. CASE \E status \in {"ok", "refused"} : Receive(status)
  BY <1>16, FailKeepsConn DEF Receive
<1>17. CASE Spoiled
  BY <1>17, FailKeepsConn DEF Spoiled
<1>18. CASE Cancel
  BY <1>18 DEF Cancel
<1>19. CASE HookClose
  BY <1>19 DEF HookClose
<1>20. CASE UNCHANGED dialVars
  BY <1>20 DEF dialVars
<1> QED
  BY <1>1, <1>2, <1>3, <1>4, <1>5, <1>6, <1>7, <1>8, <1>9, <1>10, <1>11, <1>12, <1>13,
     <1>14, <1>15, <1>16, <1>17, <1>18, <1>19, <1>20 DEF DialAny, DialNext, DialStep, PeerStep


-----------------------------------------------------------------------------
(* Where it goes to *)

ViaProxy == {"connect", "deadline", "arm", "check", "tls", "send", "receive", "stop", "clear"}
Filtered == {"route", "direct"} \cup ViaProxy

(* From the filter on, every address in hand is one of the answer that the *)
(* filter approved, and there is one; on the way past a proxy each is      *)
(* exempted; a name is given to a proxy only if nothing is listed.         *)
AddressesHeld ==
    /\ call \in Calls \cup {NoCall}
    /\ answer \in Seq(Address) /\ addrs \in Seq(Address)
    /\ dial.pc \in {"idle", "resolve", "done"} \cup Filtered
    /\ dial = [pc |-> dial.pc, k |-> dial.k]
    /\ dial.pc # "idle" => call \in Calls
    /\ dial.pc \in {"idle", "resolve", "route"} => dial.k = 1 /\ tried = {}
    /\ dial.pc \in Filtered =>
          /\ Len(addrs) > 0
          /\ \A i \in 1..Len(addrs) : addrs[i] \in ToSet(answer) /\ Approved(addrs[i])
    /\ dial.pc = "direct" =>
          /\ dial.k \in 1..Len(addrs)
          /\ call.proxy # "none" => \A i \in 1..Len(addrs) : Exempted(addrs[i])
    /\ dial.pc \in ViaProxy /\ call.byName => ~call.allowed.listed

(* What may be connected to, or asked of the proxy. *)
Permitted(to) ==
    IF to = ByName THEN ~call.allowed.listed ELSE to \in ToSet(answer) /\ Approved(to)

(* Everything that was tried was permitted. *)
TriedPermitted == \A t \in tried : Permitted(t.to)

DestInv == AddressesHeld /\ TriedPermitted /\ ProxyKept

(* Nothing was tried at the start. *)
LEMMA DestInit == DialInit => DestInv
BY DEF DialInit, DestInv, AddressesHeld, TriedPermitted, ProxyKept, Filtered, ViaProxy

(* The rules hang on the call and the answer only. *)
LEMMA SameRules ==
  ASSUME UNCHANGED <<call, answer>>
  PROVE  \A a : Permitted(a) => Permitted(a)'
<1>1. \A a : Approved(a) => Approved(a)'
  BY DEF Approved, Within, ipInAny, PrefixContains
<1> QED
  BY <1>1 DEF Permitted, ByName

(* A step that keeps call, answer, addresses and history, and goes on      *)
(* speaking to the proxy, waits, or is done.                               *)
LEMMA QuietStep ==
  ASSUME DestInv, UNCHANGED <<call, answer, addrs, tried>>,
         \/ UNCHANGED dial
         \/ dial.pc \in ViaProxy /\ \E l \in ViaProxy \cup {"done"} : Goto(l)
  PROVE  DestInv'
<1>1. AddressesHeld'
  BY DEF DestInv, AddressesHeld, Goto, Filtered, ViaProxy, Approved, Within, ipInAny,
         PrefixContains, Exempted, Applies, CoversHost, CoversAddress
<1>2. TriedPermitted'
  BY SameRules DEF DestInv, TriedPermitted
<1>3. ProxyKept'
  BY DEF DestInv, ProxyKept, PrefixContains, Applies, CoversHost, CoversAddress
<1> QED
  BY <1>1, <1>2, <1>3 DEF DestInv

(* What a lookup returned is made into addresses without zones. *)
LEMMA LookedUp ==
  ASSUME NEW found \in Seq(Address)
  PROVE  /\ [i \in DOMAIN found |-> Unmap(AddrFromSlice(found[i]))] \in Seq(Address)
         /\ \A a \in ToSet([i \in DOMAIN found |-> Unmap(AddrFromSlice(found[i]))]) :
               ~Unmap(a).zoned
<1> DEFINE plain == [i \in DOMAIN found |-> Unmap(AddrFromSlice(found[i]))]
<1>1. ASSUME NEW a \in Address
      PROVE  Unmap(AddrFromSlice(a)) \in Address /\ ~Unmap(Unmap(AddrFromSlice(a))).zoned
  BY DEF Address, Unmap, AddrFromSlice
<1>2. /\ Len(found) \in Nat /\ DOMAIN found = 1..Len(found)
      /\ \A i \in 1..Len(found) : found[i] \in Address
  OBVIOUS
<1>3. plain \in [1..Len(found) -> Address]
  BY <1>1, <1>2
<1>4. \A i \in DOMAIN plain : ~Unmap(plain[i]).zoned
  BY <1>1, <1>2
<1> HIDE DEF plain
<1>5. plain \in Seq(Address)
  BY <1>2, <1>3
<1>6. \A a \in ToSet(plain) : ~Unmap(a).zoned
  BY <1>4 DEF ToSet
<1> QED
  BY <1>5, <1>6 DEF plain

(* Filter of what is in hand: only approved addresses go on. *)
LEMMA FilterStep ==
  ASSUME DestInv, At("resolve"), NEW found \in Seq(Address), Filter(found)
  PROVE  DestInv'
<1> DEFINE out == ApprovedOf(found)
<1>1. out \in Seq(Address) /\ \A n \in 1..Len(out) : out[n] \in ToSet(found) /\ Approved(out[n])
  BY ApprovedElements
<1> HIDE DEF out
<1>2. /\ answer' = found /\ UNCHANGED <<call, tried>>
      /\ \/ addrs' = out /\ out # << >> /\ Goto("route")
         \/ addrs' = << >> /\ Goto("done")
  BY DEF Filter, out
<1>3. dial.k = 1 /\ tried = {} /\ call \in Calls /\ dial = [pc |-> dial.pc, k |-> dial.k]
  BY DEF DestInv, AddressesHeld, At
<1>4. TriedPermitted' /\ ProxyKept'
  BY <1>2, <1>3 DEF TriedPermitted, ProxyKept
<1>5. \A a : Approved(a) => Approved(a)'
  BY <1>2 DEF Approved, Within, ipInAny, PrefixContains
<1>6. CASE addrs' = out /\ out # << >> /\ Goto("route")
  <2>1. Len(out) > 0
    BY <1>1, <1>6
  <2>2. dial' = [pc |-> "route", k |-> 1]
    BY <1>3, <1>6 DEF Goto
  <2>3. AddressesHeld'
    BY <1>1, <1>2, <1>3, <1>5, <1>6, <2>1, <2>2 DEF AddressesHeld, Filtered, ViaProxy
  <2> QED
    BY <1>4, <2>3 DEF DestInv
<1>7. CASE addrs' = << >> /\ Goto("done")
  <2>1. dial' = [pc |-> "done", k |-> 1]
    BY <1>3, <1>7 DEF Goto
  <2>2. AddressesHeld'
    BY <1>2, <1>3, <1>7, <2>1 DEF AddressesHeld, Filtered, ViaProxy
  <2> QED
    BY <1>4, <2>2 DEF DestInv
<1> QED
  BY <1>2, <1>6, <1>7

(* DialSSRF past the proxy: what noProxyAddresses exempted. *)
LEMMA RouteDirectStep ==
  ASSUME DestInv, RouteDirect
  PROVE  DestInv'
<1>1. /\ call \in Calls /\ addrs \in Seq(Address) /\ Len(addrs) > 0 /\ dial.k = 1 /\ tried = {}
      /\ \A i \in 1..Len(addrs) : addrs[i] \in ToSet(answer) /\ Approved(addrs[i])
      /\ answer \in Seq(Address) /\ dial.pc = "route" /\ dial = [pc |-> dial.pc, k |-> dial.k]
  BY DEF RouteDirect, At, DestInv, AddressesHeld, Filtered
<1>2. UNCHANGED <<call, answer, tried>> /\ dial' = [pc |-> "direct", k |-> 1]
  BY <1>1 DEF RouteDirect, Goto
<1>3. call.noProxy \in Seq(Entry)
  BY <1>1, DialAssumption DEF CallType
<1>4. /\ addrs' \in Seq(Address) /\ Len(addrs') > 0
      /\ \A i \in 1..Len(addrs') : addrs'[i] \in ToSet(addrs)
      /\ call.proxy # "none" => \A i \in 1..Len(addrs') : Exempted(addrs'[i])
  <2>1. CASE call.proxy = "none"
    <3>1. addrs' = addrs
      BY <2>1 DEF RouteDirect
    <3> QED
      BY <1>1, <2>1, <3>1 DEF ToSet
  <2>2. CASE call.proxy # "none"
    <3>1. addrs' = Bypass /\ Bypass # << >>
      BY <2>2 DEF RouteDirect, ThroughProxy
    <3>2. Bypass = noProxyAddresses(call.noProxy)
      BY <3>1 DEF Bypass
    <3>3. /\ Bypass \in Seq(Address)
          /\ \A n \in 1..Len(Bypass) : Bypass[n] \in ToSet(addrs) /\ Exempted(Bypass[n])
      BY <1>1, <1>3, <3>2, ExemptElements
    <3> HIDE DEF Bypass
    <3>4. Len(Bypass) > 0
      BY <3>1, <3>3
    <3> QED
      BY <3>1, <3>3, <3>4
  <2> QED
    BY <2>1, <2>2
<1>5. ASSUME NEW i \in 1..Len(addrs') PROVE addrs'[i] \in ToSet(answer) /\ Approved(addrs'[i])
  <2>1. PICK j \in 1..Len(addrs) : addrs[j] = addrs'[i]
    <3>1. addrs'[i] \in ToSet(addrs) /\ DOMAIN addrs = 1..Len(addrs)
      BY <1>1, <1>4
    <3> QED
      BY <3>1 DEF ToSet
  <2>2. addrs[j] \in ToSet(answer) /\ Approved(addrs[j])
    BY <1>1
  <2> QED
    BY <2>1, <2>2
<1>6. \A a : (Approved(a) => Approved(a)') /\ (Exempted(a) => Exempted(a)')
  BY <1>2 DEF Approved, Within, ipInAny, PrefixContains, Exempted, Applies, CoversHost, CoversAddress
<1>7. AddressesHeld'
  BY <1>1, <1>2, <1>4, <1>5, <1>6 DEF AddressesHeld, Filtered, ViaProxy
<1>8. TriedPermitted' /\ ProxyKept'
  BY <1>1, <1>2 DEF TriedPermitted, ProxyKept
<1> QED
  BY <1>7, <1>8 DEF DestInv

(* A new entry of the history that is permitted. *)
LEMMA TriedStep ==
  ASSUME DestInv, UNCHANGED <<call, answer>>, NEW via, NEW to, Permitted(to),
         tried' = tried \cup {[via |-> via, to |-> to]},
         via = "direct" /\ call.proxy # "none" => Exempted(to)
  PROVE  TriedPermitted' /\ ProxyKept'
<1>1. \A t \in tried' : Permitted(t.to)
  BY DEF DestInv, TriedPermitted
<1>2. TriedPermitted'
  BY <1>1, SameRules DEF TriedPermitted
<1>3. \A t \in tried' : t.via = "direct" /\ call.proxy # "none" => Exempted(t.to)
  BY DEF DestInv, ProxyKept, Exempted
<1>4. ProxyKept'
  BY <1>3 DEF ProxyKept, Exempted, Applies, CoversHost, CoversAddress, PrefixContains
<1> QED
  BY <1>2, <1>4

(* A direct attempt tries an address that was kept. *)
LEMMA DialDirectStep ==
  ASSUME DestInv, NEW ok \in BOOLEAN, DialDirect(ok)
  PROVE  DestInv'
<1> DEFINE to == addrs[dial.k]
<1>1. /\ dial.pc = "direct" /\ dial.k \in 1..Len(addrs) /\ addrs \in Seq(Address)
      /\ \A i \in 1..Len(addrs) : addrs[i] \in ToSet(answer) /\ Approved(addrs[i])
      /\ call.proxy # "none" => \A i \in 1..Len(addrs) : Exempted(addrs[i])
      /\ dial = [pc |-> dial.pc, k |-> dial.k]
  BY DEF DialDirect, At, DestInv, AddressesHeld, Filtered
<1>2. UNCHANGED <<call, answer, addrs>> /\ tried' = tried \cup {[via |-> "direct", to |-> to]}
  BY DEF DialDirect
<1>3. to \in Address /\ to \in ToSet(answer) /\ Approved(to) /\ (call.proxy # "none" => Exempted(to))
  BY <1>1
<1>4. to # ByName
  BY <1>3, DialAssumption DEF Address, ByName
<1>5. TriedPermitted' /\ ProxyKept'
  <2> HIDE DEF to
  <2> QED
    BY <1>2, <1>3, <1>4, TriedStep DEF Permitted
<1>6. \A a : (Approved(a) => Approved(a)') /\ (Exempted(a) => Exempted(a)')
  BY <1>2 DEF Approved, Within, ipInAny, PrefixContains, Exempted, Applies, CoversHost, CoversAddress
<1>7. \/ dial' = [pc |-> "done", k |-> dial.k]
      \/ dial' = [pc |-> "direct", k |-> dial.k + 1] /\ dial.k < Len(addrs)
  BY <1>1 DEF DialDirect, Goto
<1>8. AddressesHeld'
  <2>1. CASE dial' = [pc |-> "done", k |-> dial.k]
    BY <1>1, <1>2, <2>1 DEF DestInv, AddressesHeld, Filtered, ViaProxy
  <2>2. CASE dial' = [pc |-> "direct", k |-> dial.k + 1] /\ dial.k < Len(addrs)
    <3>1. dial.k + 1 \in 1..Len(addrs) /\ Len(addrs) > 0 /\ call \in Calls /\ answer \in Seq(Address)
      BY <1>1, <2>2 DEF DestInv, AddressesHeld, Filtered
    <3> QED
      BY <1>1, <1>2, <1>6, <2>2, <3>1 DEF AddressesHeld, Filtered, ViaProxy
  <2> QED
    BY <1>7, <2>1, <2>2
<1> QED
  BY <1>5, <1>8 DEF DestInv

(* The CONNECT names an approved address, or the host where that is safe.  *)
LEMMA SendStep ==
  ASSUME DestInv, Send
  PROVE  DestInv'
<1>1. /\ dial.pc = "send" /\ Len(addrs) > 0 /\ addrs \in Seq(Address)
      /\ \A i \in 1..Len(addrs) : addrs[i] \in ToSet(answer) /\ Approved(addrs[i])
      /\ call.byName => ~call.allowed.listed
  BY DEF Send, At, DestInv, AddressesHeld, Filtered, ViaProxy
<1>2. 1 \in 1..Len(addrs)
  BY <1>1
<1>3. Permitted(Destination)
  <2>1. CASE call.byName
    BY <1>1, <2>1 DEF Permitted, Destination
  <2>2. CASE ~call.byName
    <3>1. addrs[1] \in Address /\ addrs[1] \in ToSet(answer) /\ Approved(addrs[1])
      BY <1>1, <1>2
    <3>2. addrs[1] # ByName
      BY <3>1, DialAssumption DEF Address, ByName
    <3> QED
      BY <2>2, <3>1, <3>2 DEF Permitted, Destination
  <2> QED
    BY <2>1, <2>2
<1>4. UNCHANGED <<call, answer, addrs>> /\ tried' = tried \cup {[via |-> "proxy", to |-> Destination]}
  BY DEF Send
<1>5. TriedPermitted' /\ ProxyKept'
  BY <1>3, <1>4, TriedStep
<1>6. \A a : Approved(a) => Approved(a)'
  BY <1>4 DEF Approved, Within, ipInAny, PrefixContains
<1>7. AddressesHeld'
  BY <1>1, <1>4, <1>6 DEF Send, Goto, DestInv, AddressesHeld, Filtered, ViaProxy
<1> QED
  BY <1>5, <1>7 DEF DestInv

(* Every other way out of dialViaHTTPProxy is quiet. *)
LEMMA FailQuiet ==
  ASSUME DestInv, Fail, dial.pc \in ViaProxy
  PROVE  DestInv'
BY QuietStep DEF Fail

(* Every step of the dial keeps to approved and exempt addresses. *)
LEMMA DestStep == DestInv /\ [DialAny]_dialVars => DestInv'
<1> SUFFICES ASSUME DestInv, [DialAny]_dialVars PROVE DestInv'
  OBVIOUS
<1>1. ASSUME NEW c \in Calls, Start(c) PROVE DestInv'
  <2>1. dial.pc = "idle" /\ dial' = [pc |-> "resolve", k |-> 1] /\ tried = {}
    BY <1>1 DEF Start, At, Goto, DestInv, AddressesHeld
  <2>2. AddressesHeld'
    BY <1>1, <2>1 DEF Start, DestInv, AddressesHeld, Filtered, ViaProxy
  <2>3. TriedPermitted' /\ ProxyKept'
    BY <1>1, <2>1 DEF Start, TriedPermitted, ProxyKept
  <2> QED
    BY <2>2, <2>3 DEF DestInv
<1>2. CASE ResolveLiteral
  <2>1. call.host \in Seq(Address)
    <3>1. call \in Calls
      BY <1>2 DEF ResolveLiteral, At, DestInv, AddressesHeld
    <3>2. call.host = << >> \/ \E a \in Address : call.host = <<a>>
      BY <3>1, DialAssumption DEF CallType
    <3>3. CASE call.host = << >>
      BY <3>3, EmptySeq
    <3>4. ASSUME NEW a \in Address, call.host = <<a>> PROVE call.host \in Seq(Address)
      BY <3>4
    <3> QED
      BY <3>2, <3>3, <3>4
  <2> QED
    BY <1>2, <2>1, FilterStep DEF ResolveLiteral
<1>3. ASSUME NEW found \in Answers \cup {<< >>}, Lookup(found) PROVE DestInv'
  <2> DEFINE plain == [i \in DOMAIN found |-> Unmap(AddrFromSlice(found[i]))]
  <2>1. plain \in Seq(Address)
    BY DialAssumption, EmptySeq, LookedUp
  <2> QED
    BY <1>3, <2>1, FilterStep DEF Lookup
<1>4. CASE RouteDirect
  BY <1>4, RouteDirectStep
<1>5. CASE RouteProxy
  <2>1. /\ dial.pc = "route" /\ UNCHANGED <<call, answer, addrs, tried>>
        /\ \/ Goto("done") 
           \/ Goto("connect") /\ ~(call.byName /\ call.allowed.listed)
    BY <1>5 DEF RouteProxy, At
  <2>2. \A a : Approved(a) => Approved(a)'
    BY <2>1 DEF Approved, Within, ipInAny, PrefixContains
  <2>3. AddressesHeld'
    BY <2>1, <2>2 DEF DestInv, AddressesHeld, Goto, Filtered, ViaProxy
  <2>4. TriedPermitted' /\ ProxyKept'
    BY <2>1 DEF DestInv, AddressesHeld, TriedPermitted, ProxyKept
  <2> QED
    BY <2>3, <2>4 DEF DestInv
<1>6. CASE \E ok \in BOOLEAN : DialDirect(ok)
  BY <1>6, DialDirectStep
<1>7. CASE Send
  BY <1>7, SendStep
<1>8. CASE \E ok \in BOOLEAN : Connect(ok)
  BY <1>8, FailQuiet, QuietStep DEF Connect, At, ViaProxy
<1>9. CASE \E ok \in BOOLEAN : SetDeadline(ok)
  BY <1>9, FailQuiet, QuietStep DEF SetDeadline, At, ViaProxy
<1>10. CASE Arm \/ Handshake
  BY <1>10, QuietStep DEF Arm, Handshake, At, ViaProxy
<1>11. CASE CheckContext
  BY <1>11, FailQuiet, QuietStep DEF CheckContext, At, ViaProxy
<1>12. CASE Interrupted \/ Spoiled
  BY <1>12, FailQuiet DEF Interrupted, Spoiled, ViaProxy
<1>13. CASE StopCancel
  BY <1>13, FailQuiet, QuietStep DEF StopCancel, At, ViaProxy
<1>14. CASE \E ok \in BOOLEAN : ClearDeadline(ok)
  BY <1>14, FailQuiet, QuietStep DEF ClearDeadline, At, ViaProxy
<1>15. CASE \E status \in {"ok", "refused"} : Receive(status)
  BY <1>15, FailQuiet, QuietStep DEF Receive, At, ViaProxy
<1>16. CASE Cancel \/ HookClose \/ UNCHANGED dialVars
  BY <1>16, QuietStep DEF Cancel, HookClose, dialVars
<1> QED
  BY <1>1, <1>2, <1>3, <1>4, <1>5, <1>6, <1>7, <1>8, <1>9, <1>10, <1>11, <1>12, <1>13,
     <1>14, <1>15, <1>16 DEF DialAny, DialNext, DialStep, PeerStep

(* Nothing is known before the lookup, and an address with a zone after it *)
(* is the literal of the call.                                             *)
OriginInv ==
    /\ dial.pc \in {"idle", "resolve"} => answer = << >>
    /\ \A a \in ToSet(answer) : Unmap(a).zoned => call.host = <<a>>

(* Addresses are learnt once. *)
LEMMA OriginStep == DestInv /\ OriginInv /\ [DialAny]_dialVars => OriginInv'
<1> SUFFICES ASSUME DestInv, OriginInv, [DialAny]_dialVars PROVE OriginInv'
  OBVIOUS
<1>1. dial = [pc |-> dial.pc, k |-> dial.k] /\ (dial.pc = "resolve" => call \in Calls)
  BY DEF DestInv, AddressesHeld
<1>2. CASE \E c \in Calls : Start(c)
  <2>1. answer' = << >>
    BY <1>2 DEF Start, At, OriginInv
  <2> QED
    BY <2>1 DEF OriginInv, ToSet
<1>3. CASE ResolveLiteral
  <2>1. answer' = call.host /\ call' = call /\ dial'.pc \in {"route", "done"}
    BY <1>1, <1>3 DEF ResolveLiteral, Filter, Goto
  <2>2. PICK a \in Address : call.host = <<a>>
    BY <1>1, <1>3, DialAssumption DEF ResolveLiteral, At, CallType
  <2>3. \A b \in ToSet(answer') : b = a
    BY <2>1, <2>2 DEF ToSet
  <2> QED
    BY <2>1, <2>2, <2>3 DEF OriginInv
<1>4. ASSUME NEW found \in Answers \cup {<< >>}, Lookup(found) PROVE OriginInv'
  <2> DEFINE plain == [i \in DOMAIN found |-> Unmap(AddrFromSlice(found[i]))]
  <2>1. answer' = plain /\ dial'.pc \in {"route", "done"}
    BY <1>1, <1>4 DEF Lookup, Filter, Goto
  <2>2. \A a \in ToSet(plain) : ~Unmap(a).zoned
    BY DialAssumption, EmptySeq, LookedUp
  <2> HIDE DEF plain
  <2> QED
    BY <2>1, <2>2 DEF OriginInv
<1>5. CASE UNCHANGED <<call, answer>> /\ (dial'.pc \in {"idle", "resolve"} => dial' = dial)
  BY <1>5 DEF OriginInv
<1>6. \/ \E c \in Calls : Start(c)
      \/ ResolveLiteral
      \/ \E found \in Answers \cup {<< >>} : Lookup(found)
      \/ UNCHANGED <<call, answer>> /\ (dial'.pc \in {"idle", "resolve"} => dial' = dial)
  <2>1. CASE RouteDirect \/ RouteProxy \/ Arm \/ CheckContext \/ Interrupted \/ StopCancel
             \/ Handshake \/ Send \/ Spoiled \/ Cancel \/ HookClose
    BY <1>1, <2>1 DEF RouteDirect, RouteProxy, Arm, CheckContext, Interrupted, StopCancel,
       Handshake, Send, Spoiled, Cancel, HookClose, Fail, Goto
  <2>2. CASE \E ok \in BOOLEAN : DialDirect(ok) \/ Connect(ok) \/ SetDeadline(ok) \/ ClearDeadline(ok)
    BY <1>1, <2>2 DEF DialDirect, Connect, SetDeadline, ClearDeadline, Fail, Goto, At
  <2>3. CASE \E status \in {"ok", "refused"} : Receive(status)
    BY <1>1, <2>3 DEF Receive, Fail, Goto
  <2> QED
    BY <2>1, <2>2, <2>3 DEF DialAny, DialNext, DialStep, PeerStep, dialVars
<1> QED
  BY <1>2, <1>3, <1>4, <1>5, <1>6

(* With zones on public literals only, what the filter approved passes the *)
(* rules as they are meant.                                                *)
LEMMA ApprovedMeant ==
  ASSUME ZonesPublic, DestInv, OriginInv
  PROVE  ApprovedOnly
<1> SUFFICES ASSUME NEW t \in tried, t.to # ByName
             PROVE  /\ Kind[t.to.base] # "blocked"
                    /\ t.to \in ToSet(answer)
                    /\ Kind[t.to.base] = "private" => call.allowed.nets # {}
                    /\ call.allowed.nets # {} => ipInAny(t.to, call.allowed.nets)
  BY DEF ApprovedOnly, NeverBlocked, DestInv, TriedPermitted, Permitted
<1>1. t.to \in ToSet(answer) /\ Approved(t.to)
  BY DEF DestInv, TriedPermitted, Permitted
<1>2. CASE ~Unmap(t.to).zoned
  BY <1>1, <1>2 DEF Approved, Within
<1>3. CASE Unmap(t.to).zoned
  <2>1. call.host = <<t.to>>
    BY <1>1, <1>3 DEF OriginInv
  <2>2. call \in Calls
    BY <2>1 DEF DestInv, AddressesHeld, NoCall
  <2>3. Kind[t.to.base] = "public"
    BY <1>3, <2>1, <2>2 DEF ZonesPublic
  <2> QED
    BY <1>1, <2>3 DEF Approved
<1> QED
  BY <1>2, <1>3

-----------------------------------------------------------------------------
(* What is in an admitted body *)

AdmittedInv == handler = "admitted" => Admits(req, path)

(* A request is admitted by Admits only, and then not changed. *)
LEMMA AdmittedStep == AdmittedInv /\ [Next]_vars => AdmittedInv'
<1> SUFFICES ASSUME AdmittedInv, [Next]_vars PROVE AdmittedInv'
  OBVIOUS
<1>1. CASE Decide
  BY <1>1 DEF Decide, AdmittedInv
<1>2. CASE \E c \in Calls : Forward(c)
  BY <1>2 DEF Forward, AdmittedInv
<1>3. CASE UNCHANGED <<req, handler, path>>
  BY <1>3 DEF AdmittedInv
<1> QED
  BY <1>1, <1>2, <1>3 DEF Next, vars

(* A judged member is permitted; a call is one of AllowedCalls. *)
LEMMA CallPermitted ==
  ASSUME NEW method, NEW tool, NEW p,
         Permits([kind |-> "call", method |-> method, tool |-> tool], p)
  PROVE  p \in AllowedPaths /\ <<method, tool>> \in AllowedCalls
BY DEF Permits

(* parseMCPMessages hides no call from the engine. *)
LEMMA MCPJudged ==
  ASSUME NEW r, NEW p, r.protocol = "mcp", Admits(r, p), r.body.kind = "json",
         NEW i \in DOMAIN r.body.items, r.body.items[i].method # "none"
  PROVE  /\ p.segs \in AllowedPaths
         /\ LET item == r.body.items[i] IN
            /\ <<item.method, IF item.method = "tools/call" THEN item.tool ELSE "none">>
                  \in AllowedCalls
            /\ ~VersionAllowed(r) => item.method = "initialize" /\ ~r.body.batch
<1> DEFINE item == r.body.items[i]
           tool == IF item.method = "tools/call" THEN item.tool ELSE "none"
           member == [kind |-> "call", method |-> item.method, tool |-> tool]
<1>1. Parsed(r) = parseMCPMessages(r) /\ Parsed(r).ok
  BY DEF Admits, Parsed
<1>2. /\ \A j \in DOMAIN r.body.items : MCPPasses(r, r.body.items[j])
      /\ Parsed(r) = Members([j \in DOMAIN r.body.items |-> MCPMember(r.body.items[j])])
  BY <1>1 DEF parseMCPMessages, ReadAll, Refused, Members
<1>3. MCPRequest(r, item)
  BY <1>2 DEF MCPPasses
<1>4. MCPMember(item) = member /\ MCPMember(item) # Unjudged
  BY <1>3 DEF MCPRequest, MCPMember, Unjudged
<1>5. i \in DOMAIN Parsed(r).members /\ Parsed(r).members[i] = MCPMember(item)
  BY <1>2 DEF Members
<1>6. Permits(member, p.segs)
  BY <1>4, <1>5 DEF Admits
<1>7. p.segs \in AllowedPaths /\ <<item.method, tool>> \in AllowedCalls
  BY <1>6, CallPermitted
<1> QED
  BY <1>3, <1>7 DEF MCPRequest

(* Nor does parseJSONRPCRequest. *)
LEMMA JSONRPCJudged ==
  ASSUME NEW r, NEW p, r.protocol = "jsonrpc", Admits(r, p), r.body.kind = "json",
         NEW i \in DOMAIN r.body.items
  PROVE  /\ p.segs \in AllowedPaths
         /\ <<r.body.items[i].method, "none">> \in AllowedCalls
<1> DEFINE item == r.body.items[i]
           member == [kind |-> "call", method |-> item.method, tool |-> "none"]
<1>1. Parsed(r) = parseJSONRPCRequest(r) /\ Parsed(r).ok
  BY DEF Admits, Parsed
<1>2. Parsed(r) = Members([j \in DOMAIN r.body.items |-> JSONRPCMember(r.body.items[j])])
  BY <1>1 DEF parseJSONRPCRequest, ReadAll, Refused, Members
<1>3. /\ i \in DOMAIN Parsed(r).members /\ Parsed(r).members[i] = member
      /\ member # Unjudged
  BY <1>2 DEF Members, JSONRPCMember, Unjudged
<1>4. Permits(member, p.segs)
  BY <1>3 DEF Admits
<1> QED
  BY <1>4, CallPermitted

-----------------------------------------------------------------------------
(* Spreads, followed one by one *)

(* a[j] is what has been seen after j of the spreads sp, for j up to k. *)
Run(a, k, f, s, sp) ==
    a = [j \in 0..k |-> IF j = 0 THEN s ELSE f[sp[j]][a[j - 1]]]

(* Step by step. *)
LEMMA RunSteps ==
  ASSUME NEW k \in Nat, NEW a, NEW f, NEW s, NEW sp, Run(a, k, f, s, sp)
  PROVE  a[0] = s /\ \A j \in 0..(k - 1) : a[j + 1] = f[sp[j + 1]][a[j]]
<1> DEFINE G(n) == IF n = 0 THEN s ELSE f[sp[n]][a[n - 1]]
<1>1. a = [n \in 0..k |-> G(n)]
  BY DEF Run
<1>2. G(0) = s
  OBVIOUS
<1>3. ASSUME NEW j \in 0..(k - 1) PROVE G(j + 1) = f[sp[j + 1]][a[j]]
  OBVIOUS
<1> HIDE DEF G
<1>4. \A n \in 0..k : a[n] = G(n)
  BY <1>1
<1>5. 0 \in 0..k /\ \A j \in 0..(k - 1) : j + 1 \in 0..k
  OBVIOUS
<1> QED
  BY <1>2, <1>3, <1>4, <1>5

(* Follow is where such a run ends. *)
LEMMA RunExists ==
  ASSUME NEW f, NEW s, NEW sp, Len(sp) \in Nat
  PROVE  \E a : Run(a, Len(sp), f, s, sp) /\ Follow(f, s, sp) = a[Len(sp)]
<1> DEFINE m == Len(sp)
           T == {k \in 0..m : \E a : Run(a, k, f, s, sp)}
<1>1. 0 \in T
  <2>1. Run([j \in 0..0 |-> s], 0, f, s, sp)
    BY DEF Run
  <2> QED
    BY <2>1
<1>2. ASSUME NEW k \in 0..(m - 1), k \in T PROVE k + 1 \in T
  <2>1. PICK a : Run(a, k, f, s, sp)
    BY <1>2
  <2> DEFINE last == f[sp[k + 1]][a[k]]
             g == [j \in 0..(k + 1) |-> IF j = k + 1 THEN last ELSE a[j]]
  <2>2. ASSUME NEW j \in 0..(k + 1) PROVE g[j] = IF j = 0 THEN s ELSE f[sp[j]][g[j - 1]]
    <3>1. k \in Nat /\ a[0] = s /\ \A i \in 0..(k - 1) : a[i + 1] = f[sp[i + 1]][a[i]]
      BY <2>1, RunSteps
    <3>2. CASE j = 0
      BY <3>1, <3>2
    <3>3. CASE j = k + 1
      BY <3>1, <3>3
    <3>4. CASE j \in 1..k
      <4>1. j - 1 \in 0..(k - 1) /\ (j - 1) + 1 = j /\ j # 0
        BY <3>4
      <4>2. a[j] = f[sp[j]][a[j - 1]]
        BY <3>1, <4>1
      <4>3. g[j] = a[j] /\ g[j - 1] = a[j - 1]
        BY <3>4
      <4> QED
        BY <4>1, <4>2, <4>3
    <3> QED
      BY <3>1, <3>2, <3>3, <3>4
  <2>3. Run(g, k + 1, f, s, sp)
    BY <2>2 DEF Run
  <2>4. k + 1 \in 0..m
    OBVIOUS
  <2> HIDE DEF g
  <2> QED
    BY <2>3, <2>4
<1> DEFINE g == CHOOSE a : Run(a, Len(sp), f, s, sp)
<1>3. Run(g, Len(sp), f, s, sp)
  <2>1. m \in Nat
    OBVIOUS
  <2> HIDE DEF T, m
  <2>2. 0..m \subseteq T
    BY <1>1, <1>2, <2>1, UpTo
  <2>3. m \in T
    BY <2>1, <2>2
  <2> QED
    BY <2>3 DEF T, m
<1>4. Follow(f, s, sp) = g[Len(sp)]
  BY DEF Follow, Run
<1> HIDE DEF g
<1> QED
  BY <1>3, <1>4

-----------------------------------------------------------------------------
(* What a depth-first visit of the fragments F, with names in N, adds *)

Spreads(F, n) == ToSet(F[n].spreads)

(* S goes on from every fragment in it. *)
Closed(S, F) == \A m \in S \cap DOMAIN F : Spreads(F, m) \subseteq S

(* From s on and for the roots R, v is visited: every name that is new in  *)
(* v is followed, and v holds nothing that a closed set could do without.  *)
Reaches(v, s, R, N, F) ==
    /\ v \in SUBSET N /\ s \subseteq v /\ R \subseteq v
    /\ \A m \in v \ s : m \in DOMAIN F => Spreads(F, m) \subseteq v
    /\ \A S \in SUBSET N : R \subseteq S /\ Closed(S, F) => v \subseteq s \cup S

(* N is finite and holds all the names spread in F. *)
Universe(N, F) == IsFiniteSet(N) /\ \A m \in DOMAIN F : F[m].spreads \in Seq(N)

Left(N, s) == Cardinality(N \ s)

(* f visits as it should where less than k names are left. *)
Good(f, k, N, F) ==
    \A n \in N : \A s \in SUBSET N : Left(N, s) < k => Reaches(f[n][s], s, {n}, N, F)

(* The more is seen, the less is left. *)
LEMMA LessLeft ==
  ASSUME NEW N, IsFiniteSet(N), NEW s \in SUBSET N, NEW t \in SUBSET N, s \subseteq t
  PROVE  /\ Left(N, s) \in Nat /\ Left(N, t) \in Nat /\ Left(N, t) <= Left(N, s)
         /\ Left(N, s) <= Cardinality(N)
         /\ \A n \in t \ s : Left(N, t) < Left(N, s)
<1>1. IsFiniteSet(N \ s) /\ IsFiniteSet(N \ t)
  BY FS_Subset
<1>2. Left(N, s) \in Nat /\ Left(N, t) \in Nat
  BY <1>1, FS_CardinalityType DEF Left
<1>3. (N \ t) \in SUBSET (N \ s) /\ (N \ s) \in SUBSET N
  OBVIOUS
<1>4. /\ Left(N, t) <= Left(N, s)
      /\ Left(N, s) = Left(N, t) => N \ s = N \ t
      /\ Left(N, s) <= Cardinality(N)
  BY <1>1, <1>3, FS_Subset DEF Left
<1>5. \A n \in t \ s : N \ s # N \ t
  OBVIOUS
<1> QED
  BY <1>2, <1>4, <1>5

(* One spread after another. *)
LEMMA ReachesMore ==
  ASSUME NEW N, NEW F, NEW s, NEW u, NEW v, NEW R, NEW r,
         Reaches(u, s, R, N, F), Reaches(v, u, {r}, N, F)
  PROVE  Reaches(v, s, R \cup {r}, N, F)
BY DEF Reaches

(* Follow visits what visit does. *)
LEMMA FollowReaches ==
  ASSUME NEW N, NEW F, Universe(N, F), NEW f, NEW k \in Nat, Good(f, k, N, F),
         NEW s \in SUBSET N, Left(N, s) < k, NEW sp \in Seq(N)
  PROVE  Reaches(Follow(f, s, sp), s, ToSet(sp), N, F)
<1> DEFINE m == Len(sp)
           R(j) == {sp[i] : i \in 1..j}
<1>0. m \in Nat /\ \A j \in 1..m : sp[j] \in N
  OBVIOUS
<1>1. PICK a : Run(a, m, f, s, sp) /\ Follow(f, s, sp) = a[m]
  BY <1>0, RunExists
<1>2. a[0] = s /\ \A j \in 0..(m - 1) : a[j + 1] = f[sp[j + 1]][a[j]]
  BY <1>0, <1>1, RunSteps
<1> DEFINE T == {j \in 0..m : Reaches(a[j], s, R(j), N, F)}
<1>3. 0 \in T
  <2>1. R(0) = {}
    OBVIOUS
  <2> HIDE DEF R
  <2>2. Reaches(s, s, R(0), N, F)
    BY <2>1 DEF Reaches
  <2> QED
    BY <1>0, <1>2, <2>2
<1>4. ASSUME NEW j \in 0..(m - 1), j \in T PROVE j + 1 \in T
  <2>1. Reaches(a[j], s, R(j), N, F)
    BY <1>4
  <2>2. j + 1 \in 0..m /\ j + 1 \in 1..m /\ j \in Nat
    BY <1>0
  <2>3. a[j] \in SUBSET N /\ s \subseteq a[j]
    BY <2>1 DEF Reaches
  <2>4. Left(N, a[j]) < k
    <3>1. Left(N, a[j]) <= Left(N, s) /\ Left(N, s) \in Nat /\ Left(N, a[j]) \in Nat
      BY <2>3, LessLeft DEF Universe
    <3> QED
      BY <3>1
  <2>5. Reaches(a[j + 1], a[j], {sp[j + 1]}, N, F)
    BY <1>0, <1>2, <2>2, <2>3, <2>4 DEF Good
  <2>6. R(j + 1) = R(j) \cup {sp[j + 1]}
    <3>1. 1..(j + 1) = (1..j) \cup {j + 1}
      BY <2>2
    <3> QED
      BY <3>1
  <2>7. Reaches(a[j + 1], s, R(j + 1), N, F)
    <3> HIDE DEF R
    <3>1. Reaches(a[j + 1], s, R(j) \cup {sp[j + 1]}, N, F)
      BY <2>1, <2>5, ReachesMore
    <3> QED
      BY <2>6, <3>1
  <2> QED
    BY <2>2, <2>7
<1>5. 0..m \subseteq T
  <2> HIDE DEF T, m
  <2> QED
    BY <1>0, <1>3, <1>4, UpTo
<1>6. R(m) = ToSet(sp)
  BY DEF ToSet
<1>7. m \in T
  <2> HIDE DEF T, m
  <2> QED
    BY <1>0, <1>5
<1> QED
  BY <1>1, <1>6, <1>7

(* Two functions that agree where less than k are left follow alike. *)
LEMMA FollowSame ==
  ASSUME NEW N, NEW F, Universe(N, F), NEW f, NEW g, NEW k \in Nat, Good(f, k, N, F),
         \A n \in N : \A t \in SUBSET N : Left(N, t) < k => g[n][t] = f[n][t],
         NEW s \in SUBSET N, Left(N, s) < k, NEW sp \in Seq(N)
  PROVE  Follow(g, s, sp) = Follow(f, s, sp)
<1> DEFINE m == Len(sp)
<1>0. m \in Nat /\ \A j \in 1..m : sp[j] \in N
  OBVIOUS
<1>1. PICK a : Run(a, m, f, s, sp) /\ Follow(f, s, sp) = a[m]
  BY <1>0, RunExists
<1>2. a[0] = s /\ \A j \in 0..(m - 1) : a[j + 1] = f[sp[j + 1]][a[j]]
  BY <1>0, <1>1, RunSteps
<1>3. PICK b : Run(b, m, g, s, sp) /\ Follow(g, s, sp) = b[m]
  BY <1>0, RunExists
<1>4. b[0] = s /\ \A j \in 0..(m - 1) : b[j + 1] = g[sp[j + 1]][b[j]]
  BY <1>0, <1>3, RunSteps
<1> DEFINE T == {j \in 0..m : a[j] = b[j] /\ a[j] \in SUBSET N /\ s \subseteq a[j]}
<1>5. 0 \in T
  BY <1>0, <1>2, <1>4
<1>6. ASSUME NEW j \in 0..(m - 1), j \in T PROVE j + 1 \in T
  <2>2. j + 1 \in 0..m /\ j + 1 \in 1..m /\ j \in Nat /\ sp[j + 1] \in N
    BY <1>0
  <2>3. a[j] \in SUBSET N /\ s \subseteq a[j] /\ a[j] = b[j]
    BY <1>6
  <2>4. Left(N, a[j]) < k
    <3>1. Left(N, a[j]) <= Left(N, s) /\ Left(N, s) \in Nat /\ Left(N, a[j]) \in Nat
      BY <2>3, LessLeft DEF Universe
    <3> QED
      BY <3>1
  <2>5. Reaches(a[j + 1], a[j], {sp[j + 1]}, N, F)
    BY <1>2, <2>2, <2>3, <2>4 DEF Good
  <2>6. a[j + 1] \in SUBSET N /\ s \subseteq a[j + 1]
    BY <2>3, <2>5 DEF Reaches
  <2>7. a[j + 1] = b[j + 1]
    BY <1>2, <1>4, <2>2, <2>3, <2>4
  <2> QED
    BY <2>2, <2>6, <2>7
<1>7. 0..m \subseteq T
  <2> HIDE DEF T, m
  <2> QED
    BY <1>0, <1>5, <1>6, UpTo
<1>8. m \in T
  BY <1>0, <1>7
<1> QED
  BY <1>1, <1>3, <1>8

(* The body of visit. *)
Visit(f, n, s, F) ==
    IF n \in s \/ n \notin DOMAIN F THEN s \cup {n} ELSE Follow(f, s \cup {n}, F[n].spreads)

(* Seeing one more name leaves one less. *)
LEMMA OneLess ==
  ASSUME NEW N, IsFiniteSet(N), NEW n \in N, NEW s \in SUBSET N, n \notin s,
         NEW k \in Nat, Left(N, s) < k + 1
  PROVE  s \cup {n} \in SUBSET N /\ Left(N, s \cup {n}) < k
<1> DEFINE t == s \cup {n}
<1>1. t \in SUBSET N /\ s \subseteq t /\ n \in t \ s
  OBVIOUS
<1> HIDE DEF t
<1>2. Left(N, s) \in Nat /\ Left(N, t) \in Nat /\ Left(N, t) < Left(N, s)
  BY <1>1, LessLeft
<1> QED
  BY <1>1, <1>2 DEF t

(* One call of visit. *)
LEMMA VisitReaches ==
  ASSUME NEW N, NEW F, Universe(N, F), NEW f, NEW k \in Nat, Good(f, k, N, F),
         NEW n \in N, NEW s \in SUBSET N, Left(N, s) < k + 1
  PROVE  Reaches(Visit(f, n, s, F), s, {n}, N, F)
<1>1. CASE n \in s \/ n \notin DOMAIN F
  <2>1. Visit(f, n, s, F) = s \cup {n}
    BY <1>1 DEF Visit
  <2>2. Reaches(s \cup {n}, s, {n}, N, F)
    BY <1>1 DEF Reaches
  <2> QED
    BY <2>1, <2>2
<1>2. CASE n \notin s /\ n \in DOMAIN F
  <2> DEFINE t == s \cup {n}
             v == Follow(f, t, F[n].spreads)
  <2>1. Visit(f, n, s, F) = v
    BY <1>2 DEF Visit
  <2>2. t \in SUBSET N /\ Left(N, t) < k
    BY <1>2, OneLess DEF Universe
  <2>3. F[n].spreads \in Seq(N)
    BY <1>2 DEF Universe
  <2> HIDE DEF t
  <2>4. Reaches(v, t, Spreads(F, n), N, F)
    BY <2>2, <2>3, FollowReaches DEF Spreads
  <2> HIDE DEF v
  <2>5. v \in SUBSET N /\ s \subseteq v /\ {n} \subseteq v
    BY <2>4 DEF Reaches, t
  <2>6. \A m \in v \ s : m \in DOMAIN F => Spreads(F, m) \subseteq v
    BY <2>4 DEF Reaches, t
  <2>7. ASSUME NEW S \in SUBSET N, {n} \subseteq S, Closed(S, F) PROVE v \subseteq s \cup S
    BY <1>2, <2>4, <2>7 DEF Reaches, t, Closed
  <2> QED
    BY <2>1, <2>5, <2>6, <2>7 DEF Reaches
<1> QED
  BY <1>1, <1>2

(* A call of visit looks only where less is left. *)
LEMMA VisitSame ==
  ASSUME NEW N, NEW F, Universe(N, F), NEW f, NEW g, NEW k \in Nat, Good(f, k, N, F),
         \A n \in N : \A t \in SUBSET N : Left(N, t) < k => g[n][t] = f[n][t],
         NEW n \in N, NEW s \in SUBSET N, Left(N, s) < k + 1
  PROVE  Visit(g, n, s, F) = Visit(f, n, s, F)
<1>1. CASE n \in s \/ n \notin DOMAIN F
  BY <1>1 DEF Visit
<1>2. CASE n \notin s /\ n \in DOMAIN F
  <2> DEFINE t == s \cup {n}
  <2>2. t \in SUBSET N /\ Left(N, t) < k
    BY <1>2, OneLess DEF Universe
  <2>3. F[n].spreads \in Seq(N)
    BY <1>2 DEF Universe
  <2> HIDE DEF t
  <2>4. Follow(g, t, F[n].spreads) = Follow(f, t, F[n].spreads)
    BY <2>2, <2>3, FollowSame
  <2> QED
    BY <1>2, <2>4 DEF Visit, t
<1> QED
  BY <1>1, <1>2

(* f solves the equation of visit where less than k names are left. *)
Solves(f, k, N, F) ==
    /\ f = [n \in N |-> [s \in SUBSET N |-> f[n][s]]]
    /\ \A n \in N : \A s \in SUBSET N : Left(N, s) < k => f[n][s] = Visit(f, n, s, F)

(* Then it visits as it should there. *)
LEMMA SolutionGood ==
  ASSUME NEW N, NEW F, Universe(N, F), NEW k \in Nat, NEW f, Solves(f, k, N, F)
  PROVE  Good(f, k, N, F)
<1> DEFINE T == {j \in 0..k : Good(f, j, N, F)}
<1>1. 0 \in T
  <2>1. \A s \in SUBSET N : Left(N, s) \in Nat
    BY LessLeft DEF Universe
  <2>2. \A l \in Nat : ~(l < 0)
    OBVIOUS
  <2>3. Good(f, 0, N, F)
    BY <2>1, <2>2 DEF Good
  <2> QED
    BY <2>3
<1>2. ASSUME NEW j \in 0..(k - 1), j \in T PROVE j + 1 \in T
  <2>1. Good(f, j, N, F) /\ j \in Nat /\ j + 1 \in 0..k
    BY <1>2
  <2>2. ASSUME NEW n \in N, NEW s \in SUBSET N, Left(N, s) < j + 1
        PROVE  Reaches(f[n][s], s, {n}, N, F)
    <3>1. Reaches(Visit(f, n, s, F), s, {n}, N, F)
      BY <2>1, <2>2, VisitReaches
    <3>2. Left(N, s) < k
      <4>1. Left(N, s) \in Nat
        BY LessLeft DEF Universe
      <4> QED
        BY <2>1, <2>2, <4>1
    <3> QED
      BY <3>1, <3>2 DEF Solves
  <2>3. Good(f, j + 1, N, F)
    BY <2>2 DEF Good
  <2> QED
    BY <2>1, <2>3
<1> HIDE DEF T
<1>3. 0..k \subseteq T
  BY <1>1, <1>2, UpTo
<1>4. k \in T
  BY <1>3
<1> QED
  BY <1>4 DEF T

(* The equation has a solution for every number of names. *)
LEMMA SolutionExists ==
  ASSUME NEW N, NEW F, Universe(N, F), NEW m \in Nat
  PROVE  \E f : Solves(f, m, N, F)
<1> DEFINE T == {k \in 0..m : \E f : Solves(f, k, N, F)}
<1>0. \A s \in SUBSET N : Left(N, s) \in Nat
  BY LessLeft DEF Universe
<1>1. 0 \in T
  <2> DEFINE f == [n \in N |-> [s \in SUBSET N |-> s]]
  <2>1. f = [n \in N |-> [s \in SUBSET N |-> f[n][s]]]
    OBVIOUS
  <2>2. \A l \in Nat : ~(l < 0)
    OBVIOUS
  <2> HIDE DEF f
  <2>3. Solves(f, 0, N, F)
    BY <1>0, <2>1, <2>2 DEF Solves
  <2> QED
    BY <2>3
<1>2. ASSUME NEW k \in 0..(m - 1), k \in T PROVE k + 1 \in T
  <2>0. k \in Nat /\ k + 1 \in 0..m
    OBVIOUS
  <2>1. PICK f : Solves(f, k, N, F)
    BY <1>2
  <2>2. Good(f, k, N, F)
    BY <2>0, <2>1, SolutionGood
  <2> DEFINE g == [n \in N |-> [s \in SUBSET N |->
                      IF Left(N, s) < k THEN f[n][s] ELSE Visit(f, n, s, F)]]
  <2>3. g = [n \in N |-> [s \in SUBSET N |-> g[n][s]]]
    OBVIOUS
  <2>4. \A n \in N : \A s \in SUBSET N :
           g[n][s] = IF Left(N, s) < k THEN f[n][s] ELSE Visit(f, n, s, F)
    OBVIOUS
  <2> HIDE DEF g
  <2>5. \A n \in N : \A t \in SUBSET N : Left(N, t) < k => g[n][t] = f[n][t]
    BY <2>4
  <2>6. ASSUME NEW n \in N, NEW s \in SUBSET N, Left(N, s) < k + 1
        PROVE  g[n][s] = Visit(g, n, s, F)
    <3>1. Visit(g, n, s, F) = Visit(f, n, s, F)
      BY <2>0, <2>2, <2>5, <2>6, VisitSame
    <3>2. g[n][s] = Visit(f, n, s, F)
      BY <2>1, <2>4 DEF Solves
    <3> QED
      BY <3>1, <3>2
  <2>7. Solves(g, k + 1, N, F)
    BY <2>3, <2>6 DEF Solves
  <2> QED
    BY <2>0, <2>7
<1> HIDE DEF T
<1>3. 0..m \subseteq T
  BY <1>1, <1>2, UpTo
<1>4. m \in T
  BY <1>3
<1> QED
  BY <1>4 DEF T

(* The names that Visited works with. *)
Spreadable(F, sp) == ToSet(sp) \cup UNION {Spreads(F, n) : n \in DOMAIN F}

(* Visited reaches what the spreads do. *)
LEMMA VisitedReaches ==
  ASSUME NEW F, NEW sp, NEW N, N = Spreadable(F, sp), Universe(N, F), sp \in Seq(N)
  PROVE  Reaches(Visited(F, sp), {}, ToSet(sp), N, F)
<1> DEFINE k == Cardinality(N) + 1
           Solution(f) == f = [n \in N |-> [s \in SUBSET N |-> Visit(f, n, s, F)]]
           visit == CHOOSE f : Solution(f)
<1>1. k \in Nat
  BY FS_CardinalityType DEF Universe
<1>2. \A s \in SUBSET N : Left(N, s) < k
  <2>1. \A s \in SUBSET N : Left(N, s) \in Nat /\ Left(N, s) <= Cardinality(N)
    BY LessLeft DEF Universe
  <2>2. Cardinality(N) \in Nat
    BY FS_CardinalityType DEF Universe
  <2> QED
    BY <2>1, <2>2
<1> HIDE DEF k
<1>3. \E f : Solution(f)
  <2>1. PICK f : Solves(f, k, N, F)
    BY <1>1, SolutionExists
  <2>2. \A n \in N : \A s \in SUBSET N : f[n][s] = Visit(f, n, s, F)
    BY <1>2, <2>1 DEF Solves
  <2>3. Solution(f)
    BY <2>1, <2>2 DEF Solves
  <2> QED
    BY <2>3
<1>4. Solution(visit)
  <2> HIDE DEF Solution
  <2> QED
    BY <1>3
<1>5. Visited(F, sp) = Follow(visit, {}, sp)
  BY DEF Visited, Visit, Spreadable, Spreads
<1> HIDE DEF visit
<1>6. Solves(visit, k, N, F)
  <2>1. \A n \in N : \A s \in SUBSET N : visit[n][s] = Visit(visit, n, s, F)
    BY <1>4
  <2> QED
    BY <1>4, <2>1 DEF Solves
<1>7. Good(visit, k, N, F)
  BY <1>1, <1>6, SolutionGood
<1>8. Reaches(Follow(visit, {}, sp), {}, ToSet(sp), N, F)
  BY <1>1, <1>2, <1>7, FollowReaches
<1> QED
  BY <1>5, <1>8

(* The names of a sequence are finitely many. *)
LEMMA FiniteToSet ==
  ASSUME NEW S, NEW sp \in Seq(S)
  PROVE  IsFiniteSet(ToSet(sp)) /\ ToSet(sp) \subseteq S
<1>1. Len(sp) \in Nat /\ DOMAIN sp = 1..Len(sp) /\ sp \in [1..Len(sp) -> S]
  OBVIOUS
<1>2. ToSet(sp) = {sp[i] : i \in 1..Len(sp)}
  BY <1>1 DEF ToSet
<1>3. sp \in Surjection(1..Len(sp), ToSet(sp))
  BY <1>1, <1>2 DEF Surjection
<1>4. IsFiniteSet(1..Len(sp))
  BY <1>1, FS_Interval
<1> QED
  BY <1>1, <1>2, <1>3, <1>4, FS_Surjection

(* Follow what is spread, whatever the fragments are: what is entered is   *)
(* closed, and in every closed set that has the roots.                     *)
LEMMA VisitedExact ==
  ASSUME NEW F, IsFiniteSet(DOMAIN F), NEW sp \in Seq(STRING),
         \A m \in DOMAIN F : F[m].spreads \in Seq(STRING)
  PROVE  LET entered == Visited(F, sp) \cap DOMAIN F
             Keeps(S) == /\ ToSet(sp) \cap DOMAIN F \subseteq S
                          /\ \A n \in S : Spreads(F, n) \cap DOMAIN F \subseteq S
         IN Keeps(entered) /\ \A S \in SUBSET DOMAIN F : Keeps(S) => entered \subseteq S
<1> DEFINE N == Spreadable(F, sp)
           entered == Visited(F, sp) \cap DOMAIN F
           Keeps(S) == /\ ToSet(sp) \cap DOMAIN F \subseteq S
                        /\ \A n \in S : Spreads(F, n) \cap DOMAIN F \subseteq S
           spread == [n \in DOMAIN F |-> Spreads(F, n)]
           all == {Spreads(F, n) : n \in DOMAIN F}
<1>1. IsFiniteSet(ToSet(sp)) /\ \A n \in DOMAIN F : IsFiniteSet(Spreads(F, n))
  BY FiniteToSet DEF Spreads
<1>2. IsFiniteSet(all)
  <2>1. spread \in Surjection(DOMAIN F, all)
    BY DEF Surjection
  <2> QED
    BY <2>1, FS_Surjection
<1>3. IsFiniteSet(UNION all)
  <2>1. \A T \in all : IsFiniteSet(T)
    BY <1>1
  <2> QED
    BY <1>2, <2>1, FS_UNION
<1>4. IsFiniteSet(N)
  BY <1>1, <1>3, FS_Union DEF Spreadable
<1>5. ToSet(sp) \subseteq N /\ \A n \in DOMAIN F : Spreads(F, n) \subseteq N
  BY DEF Spreadable
<1> HIDE DEF N
<1>6. ASSUME NEW q \in Seq(STRING), ToSet(q) \subseteq N PROVE q \in Seq(N)
  <2>1. \A i \in 1..Len(q) : q[i] \in N
    BY <1>6 DEF ToSet
  <2>2. Len(q) \in Nat /\ DOMAIN q = 1..Len(q) /\ q = [i \in 1..Len(q) |-> q[i]]
    OBVIOUS
  <2>3. q \in [1..Len(q) -> N]
    BY <2>1, <2>2
  <2> QED
    BY <2>2, <2>3
<1>7. sp \in Seq(N) /\ Universe(N, F)
  BY <1>4, <1>5, <1>6 DEF Universe, Spreads
<1>8. Reaches(Visited(F, sp), {}, ToSet(sp), N, F)
  BY <1>7, VisitedReaches DEF N
<1>9. Keeps(entered)
  BY <1>8 DEF Reaches
<1>10. ASSUME NEW S \in SUBSET DOMAIN F, Keeps(S) PROVE entered \subseteq S
  <2> DEFINE U == (S \cap N) \cup (N \ DOMAIN F)
  <2>1. U \in SUBSET N /\ ToSet(sp) \subseteq U
    BY <1>5, <1>10
  <2>2. Closed(U, F)
    BY <1>5, <1>10 DEF Closed
  <2>3. Visited(F, sp) \subseteq U
    BY <1>8, <2>1, <2>2 DEF Reaches
  <2> QED
    BY <2>3
<1> QED
  BY <1>9, <1>10

-----------------------------------------------------------------------------
(* Documents *)

(* What is merged from inline fragments is spread by names too. *)
LEMMA MergedType ==
  ASSUME NEW sel \in SelectionType
  PROVE  Merged(sel).spreads \in Seq(STRING)
<1> DEFINE ss == [i \in DOMAIN sel.inline |-> sel.inline[i].spreads]
<1>1. sel.spreads \in Seq(STRING) /\ sel.inline \in Seq(InlineType)
  BY DEF SelectionType
<1>2. ss \in Seq(Seq(STRING))
  <2>1. Len(sel.inline) \in Nat /\ DOMAIN sel.inline = 1..Len(sel.inline)
    BY <1>1
  <2>2. \A i \in 1..Len(sel.inline) : sel.inline[i].spreads \in Seq(STRING)
    <3>1. \A i \in 1..Len(sel.inline) : sel.inline[i] \in InlineType
      BY <1>1
    <3>2. \A part \in InlineType : part.spreads \in Seq(STRING)
      BY DEF InlineType
    <3> QED
      BY <3>1, <3>2, Zenon
  <2>3. ss \in [1..Len(sel.inline) -> Seq(STRING)]
    BY <2>1, <2>2
  <2> QED
    BY <2>1, <2>3
<1> HIDE DEF ss
<1>3. FlattenSeq(ss) \in Seq(STRING)
  BY <1>2, FlattenType
<1>4. sel.spreads \o FlattenSeq(ss) \in Seq(STRING)
  BY <1>1, <1>3
<1> QED
  BY <1>4 DEF Merged, ss

(* Finitely many fragments, each spread by names. *)
LEMMA FragmentsType ==
  ASSUME NEW frags \in Seq(DefinitionType)
  PROVE  /\ IsFiniteSet(DOMAIN FragmentMap(frags))
         /\ \A n \in DOMAIN FragmentMap(frags) : FragmentMap(frags)[n].spreads \in Seq(STRING)
<1> DEFINE names == {frags[i].name : i \in DOMAIN frags}
           name == [i \in 1..Len(frags) |-> frags[i].name]
<1>0. Len(frags) \in Nat /\ DOMAIN frags = 1..Len(frags)
  OBVIOUS
<1>1. IsFiniteSet(names)
  <2>1. name \in Surjection(1..Len(frags), names)
    BY <1>0 DEF Surjection
  <2>2. IsFiniteSet(1..Len(frags))
    BY <1>0, FS_Interval
  <2> QED
    BY <2>1, <2>2, FS_Surjection
<1>2. DOMAIN FragmentMap(frags) = names
  BY DEF FragmentMap
<1>3. ASSUME NEW n \in names PROVE FragmentMap(frags)[n].spreads \in Seq(STRING)
  <2> DEFINE I == {i \in 1..Len(frags) : frags[i].name = n}
             last == SelectLastInSeq(frags, LAMBDA f : f.name = n)
  <2>1. I # {} /\ I \in SUBSET (1..Len(frags))
    BY <1>0
  <2>2. last = Max(I)
    BY <2>1 DEF SelectLastInSeq
  <2>3. Max(I) \in I
    <3> HIDE DEF I
    <3> QED
      BY <1>0, <2>1, FirstAndLast
  <2>4. frags[last] \in DefinitionType
    BY <2>2, <2>3
  <2>5. FragmentMap(frags)[n] = Merged(frags[last].sel)
    BY DEF FragmentMap
  <2> HIDE DEF last
  <2> QED
    BY <2>4, <2>5, MergedType DEF DefinitionType
<1> QED
  BY <1>1, <1>2, <1>3

(* expandRootFields finds the root fields of a selection and no others,    *)
(* however the fragments of the document spread one another.               *)
THEOREM ExpandedExactly ==
  ASSUME NEW doc \in QueryType, NEW sel \in SelectionType
  PROVE  expandRootFields(doc, sel) = RootFields(doc, sel)
<1> DEFINE F == FragmentMap(doc.frags)
           sp == Merged(sel).spreads
           entered == Visited(F, sp) \cap DOMAIN F
           Spread(part) == ToSet(part.spreads) \cap DOMAIN F
           closed == {S \in SUBSET DOMAIN F : /\ Spread(Merged(sel)) \subseteq S
                                              /\ \A n \in S : Spread(F[n]) \subseteq S}
           reached == {n \in DOMAIN F : \A S \in closed : n \in S}
<1>1. /\ expandRootFields(doc, sel) = Merged(sel).fields \cup UNION {F[n].fields : n \in entered}
      /\ RootFields(doc, sel) = Merged(sel).fields \cup UNION {F[n].fields : n \in reached}
  BY DEF expandRootFields, RootFields
<1>2. IsFiniteSet(DOMAIN F) /\ \A n \in DOMAIN F : F[n].spreads \in Seq(STRING)
  BY FragmentsType DEF QueryType
<1>3. sp \in Seq(STRING)
  BY MergedType
<1>4. ToSet(sp) = ToSet(Merged(sel).spreads)
  OBVIOUS
<1> HIDE DEF F, sp
<1>5. /\ ToSet(sp) \cap DOMAIN F \subseteq entered
      /\ \A n \in entered : Spreads(F, n) \cap DOMAIN F \subseteq entered
      /\ \A S \in SUBSET DOMAIN F :
            ToSet(sp) \cap DOMAIN F \subseteq S /\ (\A n \in S : Spreads(F, n) \cap DOMAIN F \subseteq S)
            => entered \subseteq S
  BY <1>2, <1>3, VisitedExact
<1>6. entered \in closed /\ \A S \in closed : entered \subseteq S
  <2> HIDE DEF entered
  <2>1. entered \in SUBSET DOMAIN F
    BY DEF entered
  <2> QED
    BY <1>4, <1>5, <2>1 DEF Spreads
<1>7. entered = reached
  <2> HIDE DEF closed
  <2> QED
    BY <1>6
<1> HIDE DEF entered, reached
<1> QED
  BY <1>1, <1>7

(* The operation that is picked is one of the document, with the name      *)
(* that was asked for.                                                     *)
LEMMA SelectedOperation ==
  ASSUME NEW env \in EnvelopeType, Selected(env) # 0
  PROVE  /\ Selected(env) \in 1..Len(env.query.ops)
         /\ env.name \in {"", env.query.ops[Selected(env)].name}
<1> DEFINE ops == env.query.ops
           I == {i \in 1..Len(ops) : ops[i].name = env.name}
<1>1. Len(ops) \in Nat
  <2>1. env.query \in QueryType
    BY DEF EnvelopeType
  <2>2. env.query.ops \in Seq(DefinitionType)
    BY <2>1, Zenon DEF QueryType
  <2> QED
    BY <2>2
<1>2. CASE env.name # ""
  <2>1. Selected(env) = IF I # {} THEN Min(I) ELSE 0
    BY <1>2 DEF Selected, SelectInSeq
  <2>2. I # {} /\ I \in SUBSET (1..Len(ops))
    BY <2>1
  <2>3. Min(I) \in I
    <3> HIDE DEF I, ops
    <3> QED
      BY <1>1, <2>2, FirstAndLast
  <2> QED
    BY <2>1, <2>2, <2>3
<1>3. CASE env.name = ""
  <2>1. Selected(env) = IF Len(ops) = 1 THEN 1 ELSE 0
    BY <1>3 DEF Selected
  <2>2. Selected(env) = 1 /\ Len(ops) = 1
    BY <2>1
  <2>3. Selected(env) \in 1..Len(ops)
    BY <2>2
  <2> QED
    BY <1>3, <2>3
<1> QED
  BY <1>2, <1>3

(* parseGraphQLRequest hides no root field from the engine. *)
LEMMA FieldsOfOperation ==
  ASSUME NEW r, NEW p, r.protocol = "graphql", Admits(r, p), r.body.items \in Seq(EnvelopeType),
         NEW i \in DOMAIN r.body.items, r.body.items[i].query.kind = "document"
  PROVE  LET env == r.body.items[i] IN
         \E op \in ToSet(env.query.ops) :
             /\ env.name \in {"", op.name}
             /\ RootFields(env.query, op.sel) \subseteq AllowedFields
<1> DEFINE env == r.body.items[i]
           op == env.query.ops[Selected(env)]
<1>1. Parsed(r) = parseGraphQLRequest(r) /\ Parsed(r).ok
  BY DEF Admits, Parsed
<1>2. /\ \A j \in DOMAIN r.body.items : EnvelopePasses(r.body.items[j])
      /\ Parsed(r) = Members([j \in DOMAIN r.body.items |-> Operation(r.body.items[j])])
  BY <1>1 DEF parseGraphQLRequest, ReadAll, Refused, Members
<1>3. /\ i \in DOMAIN Parsed(r).members /\ Parsed(r).members[i] = Operation(env)
      /\ Operation(env) # Unjudged
  <2>1. Parsed(r).members = [j \in DOMAIN r.body.items |-> Operation(r.body.items[j])]
    BY <1>2 DEF Members
  <2>2. Operation(env).kind = "operation" /\ Unjudged.kind = "response"
    BY DEF Operation, Unjudged
  <2>3. Operation(env) # Unjudged
    BY <2>2
  <2> QED
    BY <2>1, <2>3
<1>4. Permits(Operation(env), p.segs)
  BY <1>3 DEF Admits
<1>5. Operation(env).fields \subseteq AllowedFields
  BY <1>4 DEF Permits, Operation
<1>6. Operation(env).fields = expandRootFields(env.query, op.sel)
  BY DEF Operation
<1>7. Selected(env) # 0 /\ env \in EnvelopeType
  BY <1>2 DEF EnvelopePasses
<1>8. Selected(env) \in 1..Len(env.query.ops) /\ env.name \in {"", op.name}
  BY <1>7, SelectedOperation
<1>9. env.query \in QueryType /\ env.query.ops \in Seq(DefinitionType)
  BY <1>7 DEF EnvelopeType, QueryType
<1>10. op \in ToSet(env.query.ops) /\ op \in DefinitionType
  <2>1. DOMAIN env.query.ops = 1..Len(env.query.ops)
    BY <1>9
  <2> QED
    <3> DEFINE ops == env.query.ops
               k == Selected(env)
    <3>1. ops \in Seq(DefinitionType) /\ k \in 1..Len(ops) /\ DOMAIN ops = 1..Len(ops)
      BY <1>8, <1>9, <2>1
    <3> HIDE DEF ops, k
    <3>2. ops[k] \in ToSet(ops) /\ ops[k] \in DefinitionType
      BY <3>1 DEF ToSet
    <3> QED
      BY <3>2 DEF ops, k
<1>11. op.sel \in SelectionType
  BY <1>10 DEF DefinitionType
<1>12. expandRootFields(env.query, op.sel) = RootFields(env.query, op.sel)
  BY <1>9, <1>11, ExpandedExactly
<1> HIDE DEF op, env
<1>13. env.name \in {"", op.name} /\ RootFields(env.query, op.sel) \subseteq AllowedFields
  BY <1>5, <1>6, <1>8, <1>12
<1>14. \E o \in ToSet(env.query.ops) :
          env.name \in {"", o.name} /\ RootFields(env.query, o.sel) \subseteq AllowedFields
  BY <1>10, <1>13
<1> QED
  BY <1>14 DEF env

-----------------------------------------------------------------------------
(* Paths *)

(* A segment as it is received, or as Empty leaves it. *)
AnyPart == Part \cup {""}
Segment == [parts: Seq(AnyPart), param: Params, coded: BOOLEAN, bad: BOOLEAN]

(* What is received are segments. *)
LEMMA ReceivedSegments == ASSUME NEW segs \in Seq(SegmentType) PROVE segs \in Seq(Segment)
<1>1. ASSUME NEW s \in SegmentType PROVE s \in Segment
  <2>1. s.parts \in Seq(AnyPart)
    <3>1. s.parts \in Seq(Part)
      BY DEF SegmentType
    <3>2. Len(s.parts) \in Nat /\ s.parts \in [1..Len(s.parts) -> Part]
      BY <3>1
    <3>3. s.parts \in [1..Len(s.parts) -> AnyPart]
      BY <3>2 DEF AnyPart
    <3> QED
      BY <3>2, <3>3
  <2> QED
    BY <2>1 DEF SegmentType, Segment
<1> QED
  BY <1>1

(* So are written ones. *)
LEMMA WrittenType ==
  /\ \A parts \in Seq(AnyPart) : Written(parts) \in Segment
  /\ Empty \in Segment
<1>1. \A parts \in Seq(AnyPart) : Written(parts) \in Segment
  BY DEF Written, Segment, Params
<1>2. \A x \in AnyPart : <<x>> \in Seq(AnyPart)
  OBVIOUS
<1>3. "" \in AnyPart
  BY DEF AnyPart
<1> QED
  BY <1>1, <1>2, <1>3 DEF Empty

(* f[i] is the stack after i segments, for i up to k. *)
Stacks(f, k, segs) ==
    f = [i \in 0..k |-> IF i = 0 THEN Path(<< >>) ELSE Push(segs, f[i - 1], i)]

(* Step by step. *)
LEMMA StackSteps ==
  ASSUME NEW k \in Nat, NEW f, NEW segs, Stacks(f, k, segs)
  PROVE  f[0] = Path(<< >>) /\ \A j \in 0..(k - 1) : f[j + 1] = Push(segs, f[j], j + 1)
<1> DEFINE G(n) == IF n = 0 THEN Path(<< >>) ELSE Push(segs, f[n - 1], n)
<1>1. f = [n \in 0..k |-> G(n)]
  BY DEF Stacks
<1>2. G(0) = Path(<< >>)
  OBVIOUS
<1>3. ASSUME NEW j \in 0..(k - 1) PROVE G(j + 1) = Push(segs, f[j], j + 1)
  OBVIOUS
<1> HIDE DEF G
<1>4. \A n \in 0..k : f[n] = G(n)
  BY <1>1
<1>5. 0 \in 0..k /\ \A j \in 0..(k - 1) : j + 1 \in 0..k
  OBVIOUS
<1> QED
  BY <1>2, <1>3, <1>4, <1>5

(* Folded is the stack after the last one. *)
LEMMA StacksExist ==
  ASSUME NEW segs, Len(segs) \in Nat
  PROVE  \E f : Stacks(f, Len(segs), segs) /\ Folded(segs) = f[Len(segs)]
<1> DEFINE m == Len(segs)
           T == {k \in 0..m : \E f : Stacks(f, k, segs)}
<1>1. 0 \in T
  <2>1. Stacks([i \in 0..0 |-> Path(<< >>)], 0, segs)
    BY DEF Stacks
  <2> QED
    BY <2>1
<1>2. ASSUME NEW k \in 0..(m - 1), k \in T PROVE k + 1 \in T
  <2>1. PICK f : Stacks(f, k, segs)
    BY <1>2
  <2> DEFINE last == Push(segs, f[k], k + 1)
             g == [i \in 0..(k + 1) |-> IF i = k + 1 THEN last ELSE f[i]]
  <2>2. ASSUME NEW i \in 0..(k + 1)
        PROVE  g[i] = IF i = 0 THEN Path(<< >>) ELSE Push(segs, g[i - 1], i)
    <3>1. k \in Nat /\ f[0] = Path(<< >>) /\ \A j \in 0..(k - 1) : f[j + 1] = Push(segs, f[j], j + 1)
      BY <2>1, StackSteps
    <3>2. CASE i = 0
      BY <3>1, <3>2
    <3>3. CASE i = k + 1
      BY <3>1, <3>3
    <3>4. CASE i \in 1..k
      <4>1. i - 1 \in 0..(k - 1) /\ (i - 1) + 1 = i /\ i # 0
        BY <3>4
      <4>2. f[i] = Push(segs, f[i - 1], i)
        BY <3>1, <4>1
      <4>3. g[i] = f[i] /\ g[i - 1] = f[i - 1]
        BY <3>4
      <4> QED
        BY <4>1, <4>2, <4>3
    <3> QED
      BY <3>1, <3>2, <3>3, <3>4
  <2>3. Stacks(g, k + 1, segs)
    BY <2>2 DEF Stacks
  <2>4. k + 1 \in 0..m
    OBVIOUS
  <2> HIDE DEF g
  <2> QED
    BY <2>3, <2>4
<1> DEFINE g == CHOOSE f : Stacks(f, Len(segs), segs)
<1>3. Stacks(g, Len(segs), segs)
  <2>1. m \in Nat
    OBVIOUS
  <2> HIDE DEF T, m
  <2>2. 0..m \subseteq T
    BY <1>1, <1>2, <2>1, UpTo
  <2>3. m \in T
    BY <2>1, <2>2
  <2> QED
    BY <2>3 DEF T, m
<1>4. Folded(segs) = g[Len(segs)]
  BY DEF Folded, Stacks
<1> HIDE DEF g
<1> QED
  BY <1>3, <1>4

(* How deep the walk is, segment by segment. *)
LEMMA DepthSteps ==
  ASSUME NEW segs \in Seq(Segment), NEW k \in 1..Len(segs)
  PROVE  /\ Depth(segs, k) \in Int /\ Depth(segs, k - 1) \in Int
         /\ k \in Names(segs) => Depth(segs, k) = Depth(segs, k - 1) + 1
         /\ k \in Ups(segs) => Depth(segs, k) = Depth(segs, k - 1) - 1
         /\ k \notin Names(segs) \cup Ups(segs) => Depth(segs, k) = Depth(segs, k - 1)
<1> DEFINE In(S, i) == S \cap 1..i
<1>1. Len(segs) \in Nat /\ k \in Nat /\ k - 1 \in Int
  OBVIOUS
<1>2. ASSUME NEW S
      PROVE  /\ IsFiniteSet(In(S, k)) /\ IsFiniteSet(In(S, k - 1))
             /\ Cardinality(In(S, k)) \in Nat /\ Cardinality(In(S, k - 1)) \in Nat
             /\ Cardinality(In(S, k)) = IF k \in S THEN Cardinality(In(S, k - 1)) + 1
                                                   ELSE Cardinality(In(S, k - 1))
  <2>1. IsFiniteSet(1..k) /\ IsFiniteSet(1..(k - 1))
    BY <1>1, FS_Interval
  <2>2. IsFiniteSet(In(S, k)) /\ IsFiniteSet(In(S, k - 1))
    BY <2>1, FS_Intersection
  <2>3. 1..k = (1..(k - 1)) \cup {k} /\ k \notin 1..(k - 1)
    BY <1>1
  <2>4. In(S, k) = IF k \in S THEN In(S, k - 1) \cup {k} ELSE In(S, k - 1)
    BY <2>3
  <2>5. k \notin In(S, k - 1)
    BY <2>3
  <2> HIDE DEF In
  <2>6. Cardinality(In(S, k - 1) \cup {k}) = Cardinality(In(S, k - 1)) + 1
    BY <2>2, <2>5, FS_AddElement
  <2>7. Cardinality(In(S, k)) \in Nat /\ Cardinality(In(S, k - 1)) \in Nat
    BY <2>2, FS_CardinalityType
  <2> QED
    BY <2>2, <2>4, <2>6, <2>7
<1>3. \A i : Depth(segs, i) = Cardinality(In(Names(segs), i)) - Cardinality(In(Ups(segs), i))
  BY DEF Depth
<1>4. ~(k \in Names(segs) /\ k \in Ups(segs))
  BY DEF Names, Ups
<1> HIDE DEF In
<1>5. /\ Cardinality(In(Names(segs), k)) \in Nat /\ Cardinality(In(Names(segs), k - 1)) \in Nat
      /\ Cardinality(In(Names(segs), k)) = IF k \in Names(segs)
            THEN Cardinality(In(Names(segs), k - 1)) + 1 ELSE Cardinality(In(Names(segs), k - 1))
  BY <1>2
<1>6. /\ Cardinality(In(Ups(segs), k)) \in Nat /\ Cardinality(In(Ups(segs), k - 1)) \in Nat
      /\ Cardinality(In(Ups(segs), k)) = IF k \in Ups(segs)
            THEN Cardinality(In(Ups(segs), k - 1)) + 1 ELSE Cardinality(In(Ups(segs), k - 1))
  BY <1>2
<1> QED
  BY <1>3, <1>4, <1>5, <1>6

(* The walk starts at the root. *)
LEMMA DepthZero == ASSUME NEW segs PROVE Depth(segs, 0) = 0
<1>1. Names(segs) \cap 1..0 = {} /\ Ups(segs) \cap 1..0 = {}
  OBVIOUS
<1> QED
  BY <1>1, FS_EmptySet DEF Depth

(* Level d of the stack after i segments is the one entered by segment j   *)
(* and not left since.                                                     *)
EntersAt(segs, i, d, j) ==
    /\ j \in Names(segs) /\ j <= i
    /\ Depth(segs, j) = d
    /\ \A k \in j..i : Depth(segs, k) >= d

(* The stack after i segments, without the slash the last one leaves: as   *)
(* high as the walk is deep, and each level as it was entered.             *)
Stacked(stk, segs, i) ==
    /\ stk \in Seq(Segment)
    /\ Len(stk) = Depth(segs, i)
    /\ \A d \in 1..Len(stk) :
          \E j \in 1..Len(segs) : EntersAt(segs, i, d, j) /\ stk[d] = Written(segs[j].parts)

SlashLeft(segs, i) == IF i = Len(segs) /\ i \notin Names(segs) THEN <<Empty>> ELSE << >>

(* A level that is not left by segment i + 1 stays as it is. *)
LEMMA StaysEntered ==
  ASSUME NEW segs, NEW i \in Nat, NEW d, NEW j \in Nat, EntersAt(segs, i, d, j),
         Depth(segs, i + 1) >= d
  PROVE  EntersAt(segs, i + 1, d, j)
<1>1. \A k \in j..(i + 1) : k \in j..i \/ k = i + 1
  OBVIOUS
<1>2. j <= i + 1
  BY DEF EntersAt
<1> QED
  BY <1>1, <1>2 DEF EntersAt

(* ".." takes the top level off. *)
LEMMA StackedUp ==
  ASSUME NEW segs \in Seq(Segment), NEW i \in 0..(Len(segs) - 1), NEW stk,
         Stacked(stk, segs, i), i + 1 \in Ups(segs), stk # << >>
  PROVE  Stacked(Front(stk), segs, i + 1) /\ Depth(segs, i + 1) >= 0
<1> DEFINE up == Front(stk)
<1>0. i \in Nat /\ i + 1 \in 1..Len(segs) /\ (i + 1) - 1 = i /\ Len(segs) \in Nat
  OBVIOUS
<1>1. Depth(segs, i + 1) = Depth(segs, i) - 1 /\ Depth(segs, i) \in Int
  BY <1>0, DepthSteps
<1>2. stk \in Seq(Segment) /\ Len(stk) \in Nat /\ Len(stk) # 0 /\ Len(stk) = Depth(segs, i)
  BY DEF Stacked
<1>3. up \in Seq(Segment) /\ Len(up) = Len(stk) - 1 /\ \A d \in 1..Len(up) : up[d] = stk[d]
  BY <1>2 DEF Front
<1> HIDE DEF up
<1>4. ASSUME NEW d \in 1..Len(up)
      PROVE  \E j \in 1..Len(segs) :
                EntersAt(segs, i + 1, d, j) /\ up[d] = Written(segs[j].parts)
  <2>1. d \in 1..Len(stk) /\ Depth(segs, i + 1) >= d
    BY <1>1, <1>2, <1>3
  <2>2. PICK j \in 1..Len(segs) : EntersAt(segs, i, d, j) /\ stk[d] = Written(segs[j].parts)
    BY <2>1 DEF Stacked
  <2>3. EntersAt(segs, i + 1, d, j)
    BY <1>0, <2>1, <2>2, StaysEntered
  <2> QED
    BY <1>3, <2>2, <2>3
<1>5. Len(up) = Depth(segs, i + 1) /\ Depth(segs, i + 1) >= 0
  BY <1>1, <1>2, <1>3
<1> QED
  BY <1>3, <1>4, <1>5 DEF Stacked, up

(* "." and the empty segment leave the stack alone. *)
LEMMA StackedSame ==
  ASSUME NEW segs \in Seq(Segment), NEW i \in 0..(Len(segs) - 1), NEW stk,
         Stacked(stk, segs, i), i + 1 \notin Names(segs) \cup Ups(segs)
  PROVE  Stacked(stk, segs, i + 1) /\ Depth(segs, i + 1) >= 0
<1>0. i \in Nat /\ i + 1 \in 1..Len(segs) /\ (i + 1) - 1 = i /\ Len(segs) \in Nat
  OBVIOUS
<1>1. Depth(segs, i + 1) = Depth(segs, i) /\ Depth(segs, i) \in Int
  BY <1>0, DepthSteps
<1>2. stk \in Seq(Segment) /\ Len(stk) \in Nat /\ Len(stk) = Depth(segs, i)
  BY DEF Stacked
<1>4. ASSUME NEW d \in 1..Len(stk)
      PROVE  \E j \in 1..Len(segs) :
                EntersAt(segs, i + 1, d, j) /\ stk[d] = Written(segs[j].parts)
  <2>1. Depth(segs, i + 1) >= d
    BY <1>1, <1>2
  <2>2. PICK j \in 1..Len(segs) : EntersAt(segs, i, d, j) /\ stk[d] = Written(segs[j].parts)
    BY DEF Stacked
  <2>3. EntersAt(segs, i + 1, d, j)
    BY <1>0, <2>1, <2>2, StaysEntered
  <2> QED
    BY <2>2, <2>3
<1>5. Len(stk) = Depth(segs, i + 1) /\ Depth(segs, i + 1) >= 0
  BY <1>1, <1>2
<1> QED
  BY <1>2, <1>4, <1>5 DEF Stacked

(* A name enters one level more. *)
LEMMA StackedName ==
  ASSUME NEW segs \in Seq(Segment), NEW i \in 0..(Len(segs) - 1), NEW stk,
         Stacked(stk, segs, i), i + 1 \in Names(segs)
  PROVE  /\ Stacked(Append(stk, Written(segs[i + 1].parts)), segs, i + 1)
         /\ Depth(segs, i + 1) >= 0
<1> DEFINE w == Written(segs[i + 1].parts)
           down == Append(stk, w)
<1>0. i \in Nat /\ i + 1 \in 1..Len(segs) /\ (i + 1) - 1 = i /\ Len(segs) \in Nat
  OBVIOUS
<1>1. Depth(segs, i + 1) = Depth(segs, i) + 1 /\ Depth(segs, i) \in Int
  BY <1>0, DepthSteps
<1>2. stk \in Seq(Segment) /\ Len(stk) \in Nat /\ Len(stk) = Depth(segs, i)
  BY DEF Stacked
<1>3. w \in Segment
  <2>1. segs[i + 1] \in Segment
    BY <1>0
  <2>2. segs[i + 1].parts \in Seq(AnyPart)
    BY <2>1 DEF Segment
  <2> QED
    BY <2>2, WrittenType
<1> HIDE DEF w
<1>4. /\ down \in Seq(Segment) /\ Len(down) = Len(stk) + 1
      /\ \A d \in 1..Len(stk) : down[d] = stk[d]
      /\ down[Len(stk) + 1] = w
  BY <1>2, <1>3
<1> HIDE DEF down
<1>5. ASSUME NEW d \in 1..Len(down)
      PROVE  \E j \in 1..Len(segs) :
                EntersAt(segs, i + 1, d, j) /\ down[d] = Written(segs[j].parts)
  <2>1. CASE d = Len(stk) + 1
    <3>1. Depth(segs, i + 1) = d /\ Depth(segs, i + 1) >= d
      BY <1>1, <1>2, <2>1
    <3>2. (i + 1)..(i + 1) = {i + 1}
      BY <1>0
    <3>3. EntersAt(segs, i + 1, d, i + 1)
      BY <1>0, <3>1, <3>2 DEF EntersAt
    <3> QED
      BY <1>0, <1>4, <2>1, <3>3 DEF w
  <2>2. CASE d \in 1..Len(stk)
    <3>1. Depth(segs, i + 1) >= d
      BY <1>1, <1>2, <2>2
    <3>2. PICK j \in 1..Len(segs) : EntersAt(segs, i, d, j) /\ stk[d] = Written(segs[j].parts)
      BY <2>2 DEF Stacked
    <3>3. EntersAt(segs, i + 1, d, j)
      BY <1>0, <3>1, <3>2, StaysEntered
    <3> QED
      BY <1>4, <2>2, <3>2, <3>3
  <2> QED
    BY <1>2, <1>4, <2>1, <2>2
<1>6. Len(down) = Depth(segs, i + 1) /\ Depth(segs, i + 1) >= 0
  BY <1>1, <1>2, <1>4
<1> QED
  BY <1>4, <1>5, <1>6 DEF Stacked, down, w

(* p is what walking the first i segments means. *)
Walked(p, segs, i) ==
    IF \A k \in 1..i : Depth(segs, k) >= 0
    THEN \E stk : Stacked(stk, segs, i) /\ p = Path(stk \o SlashLeft(segs, i))
    ELSE p = NoPath

(* The three kinds of segments. *)
LEMMA SegmentKinds ==
  ASSUME NEW segs, NEW i \in DOMAIN segs
  PROVE  /\ i \in Ups(segs) <=> segs[i].parts = <<"..">>
         /\ i \in Names(segs) <=> segs[i].parts \notin {<<".">>, <<"">>, <<"..">>}
BY DEF Ups, Names

(* The stack has this for its segments once nothing is left behind. *)
LEMMA NoSlashLeft ==
  ASSUME NEW segs, NEW i \in Nat, Len(segs) \in Nat, i < Len(segs) \/ i \in Names(segs),
         NEW stk \in Seq(Segment)
  PROVE  SlashLeft(segs, i) = << >> /\ stk \o SlashLeft(segs, i) = stk
<1>1. SlashLeft(segs, i) = << >>
  BY DEF SlashLeft
<1>2. stk \o << >> = stk
  BY ConcatEmptySeq
<1> QED
  BY <1>1, <1>2

(* One turn of the loop on a stack. *)
LEMMA PushWalked ==
  ASSUME NEW segs \in Seq(Segment), NEW i \in 0..(Len(segs) - 1), NEW stk,
         Stacked(stk, segs, i)
  PROVE  IF Depth(segs, i + 1) >= 0
         THEN \E new : /\ Stacked(new, segs, i + 1)
                       /\ Push(segs, Path(stk), i + 1) = Path(new \o SlashLeft(segs, i + 1))
         ELSE Push(segs, Path(stk), i + 1) = NoPath
<1> DEFINE parts == segs[i + 1].parts
           tail == IF i + 1 = Len(segs) THEN <<Empty>> ELSE << >>
<1>0. /\ i \in Nat /\ i + 1 \in 1..Len(segs) /\ (i + 1) - 1 = i /\ Len(segs) \in Nat
      /\ i + 1 \in DOMAIN segs /\ i + 1 \in Nat
  OBVIOUS
<1>1. stk \in Seq(Segment) /\ Len(stk) = Depth(segs, i)
  BY DEF Stacked
<1>2. /\ i + 1 \in Ups(segs) <=> parts = <<"..">>
      /\ i + 1 \in Names(segs) <=> parts \notin {<<".">>, <<"">>, <<"..">>}
  BY <1>0, SegmentKinds
<1>3. Path(stk).ok = TRUE /\ Path(stk).segs = stk
  BY DEF Path
<1>4. i + 1 \notin Names(segs) => SlashLeft(segs, i + 1) = tail
  BY DEF SlashLeft
<1>5. /\ parts = <<"..">> /\ stk = << >> => Push(segs, Path(stk), i + 1) = NoPath
      /\ parts = <<"..">> /\ stk # << >> =>
            Push(segs, Path(stk), i + 1) = Path(Front(stk) \o tail)
      /\ parts \in {<<".">>, <<"">>} => Push(segs, Path(stk), i + 1) = Path(stk \o tail)
      /\ parts \notin {<<".">>, <<"">>, <<"..">>} =>
            Push(segs, Path(stk), i + 1) = Path(Append(stk, Written(parts)))
  <2> DEFINE acc == Path(stk)
             up == Path(Front(acc.segs) \o tail)
             same == Path(acc.segs \o tail)
             down == Path(Append(acc.segs, Written(parts)))
  <2>1. Push(segs, acc, i + 1) =
           IF ~acc.ok THEN acc
           ELSE CASE parts = <<"..">> -> IF acc.segs = << >> THEN NoPath ELSE up
                  [] parts \in {<<".">>, <<"">>} -> same
                  [] OTHER -> down
    BY DEF Push
  <2>2. <<"..">> \notin {<<".">>, <<"">>}
    OBVIOUS
  <2>3. /\ up = Path(Front(stk) \o tail) /\ same = Path(stk \o tail)
        /\ down = Path(Append(stk, Written(parts)))
    BY <1>3, Zenon
  <2> HIDE DEF up, same, down, acc, parts
  <2>4. acc.ok = TRUE /\ acc.segs = stk
    BY <1>3 DEF acc
  <2>5. parts = <<"..">> /\ stk = << >> => Push(segs, acc, i + 1) = NoPath
    BY <2>1, <2>2, <2>4
  <2>6. parts = <<"..">> /\ stk # << >> => Push(segs, acc, i + 1) = up
    BY <2>1, <2>2, <2>4
  <2>7. parts \in {<<".">>, <<"">>} => Push(segs, acc, i + 1) = same
    BY <2>1, <2>2, <2>4
  <2>8. parts \notin {<<".">>, <<"">>, <<"..">>} => Push(segs, acc, i + 1) = down
    BY <2>1, <2>4
  <2> QED
    BY <2>3, <2>5, <2>6, <2>7, <2>8, Zenon DEF acc
<1> HIDE DEF parts, tail
<1>6. CASE i + 1 \in Ups(segs) /\ stk = << >>
  <2>1. Depth(segs, i + 1) = Depth(segs, i) - 1
    BY <1>0, <1>6, DepthSteps
  <2>2. Len(stk) = 0
    BY <1>6
  <2>3. ~(Depth(segs, i + 1) >= 0)
    BY <1>1, <2>1, <2>2
  <2>4. Push(segs, Path(stk), i + 1) = NoPath
    BY <1>2, <1>5, <1>6
  <2> QED
    BY <2>3, <2>4
<1>7. CASE i + 1 \in Ups(segs) /\ stk # << >>
  <2>1. Stacked(Front(stk), segs, i + 1) /\ Depth(segs, i + 1) >= 0
    BY <1>7, StackedUp
  <2>2. SlashLeft(segs, i + 1) = tail
    BY <1>2, <1>4, <1>7
  <2>3. Push(segs, Path(stk), i + 1) = Path(Front(stk) \o tail)
    BY <1>2, <1>5, <1>7
  <2> QED
    BY <2>1, <2>2, <2>3, Zenon
<1>8. CASE i + 1 \notin Names(segs) \cup Ups(segs)
  <2>1. Stacked(stk, segs, i + 1) /\ Depth(segs, i + 1) >= 0
    BY <1>8, StackedSame
  <2>2. SlashLeft(segs, i + 1) = tail
    BY <1>4, <1>8
  <2>3. Push(segs, Path(stk), i + 1) = Path(stk \o tail)
    BY <1>2, <1>5, <1>8
  <2> QED
    BY <2>1, <2>2, <2>3, Zenon
<1>9. CASE i + 1 \in Names(segs)
  <2> DEFINE new == Append(stk, Written(parts))
  <2>1. Stacked(new, segs, i + 1) /\ Depth(segs, i + 1) >= 0
    BY <1>9, StackedName DEF parts
  <2>2. Push(segs, Path(stk), i + 1) = Path(new)
    BY <1>2, <1>5, <1>9
  <2> HIDE DEF new
  <2>3. new \in Seq(Segment)
    BY <2>1 DEF Stacked
  <2>4. new \o SlashLeft(segs, i + 1) = new
    BY <1>0, <1>9, <2>3, NoSlashLeft
  <2> QED
    BY <2>1, <2>2, <2>4, Zenon
<1> QED
  BY <1>6, <1>7, <1>8, <1>9

(* canonicalizeL7Path folds a path into what walking it means. *)
LEMMA FoldedWalked ==
  ASSUME NEW segs \in Seq(Segment), segs # << >>
  PROVE  Walked(Folded(segs), segs, Len(segs))
<1> DEFINE m == Len(segs)
<1>0. m \in Nat
  OBVIOUS
<1>1. PICK f : Stacks(f, m, segs) /\ Folded(segs) = f[m]
  BY <1>0, StacksExist
<1>2. f[0] = Path(<< >>) /\ \A j \in 0..(m - 1) : f[j + 1] = Push(segs, f[j], j + 1)
  BY <1>0, <1>1, StackSteps
<1> DEFINE T == {i \in 0..m : Walked(f[i], segs, i)}
<1>3. 0 \in T
  <2>1. Stacked(<< >>, segs, 0)
    BY DepthZero DEF Stacked
  <2>2. << >> \o SlashLeft(segs, 0) = << >>
    <3>1. 0 < m /\ << >> \in Seq(Segment)
      OBVIOUS
    <3> QED
      BY <1>0, <3>1, NoSlashLeft
  <2>3. Walked(f[0], segs, 0)
    <3>1. \A k \in 1..0 : FALSE
      OBVIOUS
    <3> QED
      BY <1>2, <2>1, <2>2, <3>1, Zenon DEF Walked
  <2> QED
    BY <1>0, <2>3
<1>4. ASSUME NEW i \in 0..(m - 1), i \in T PROVE i + 1 \in T
  <2>0. i \in Nat /\ i + 1 \in 0..m /\ i < Len(segs) /\ i + 1 \in 1..(i + 1)
    BY <1>0
  <2>1. Walked(f[i], segs, i) /\ f[i + 1] = Push(segs, f[i], i + 1)
    BY <1>2, <1>4
  <2>2. 1..(i + 1) = (1..i) \cup {i + 1}
    BY <2>0
  <2>3. CASE \A k \in 1..i : Depth(segs, k) >= 0
    <3>1. PICK stk : Stacked(stk, segs, i) /\ f[i] = Path(stk \o SlashLeft(segs, i))
      BY <2>1, <2>3 DEF Walked
    <3>2. f[i] = Path(stk)
      <4>1. stk \in Seq(Segment)
        BY <3>1 DEF Stacked
      <4> QED
        BY <1>0, <2>0, <3>1, <4>1, NoSlashLeft
    <3>3. IF Depth(segs, i + 1) >= 0
          THEN \E new : /\ Stacked(new, segs, i + 1)
                        /\ Push(segs, Path(stk), i + 1) = Path(new \o SlashLeft(segs, i + 1))
          ELSE Push(segs, Path(stk), i + 1) = NoPath
      BY <3>1, PushWalked
    <3>4. (\A k \in 1..(i + 1) : Depth(segs, k) >= 0) <=> Depth(segs, i + 1) >= 0
      BY <2>2, <2>3
    <3>5. Walked(f[i + 1], segs, i + 1)
      BY <2>1, <3>2, <3>3, <3>4, Zenon DEF Walked
    <3> QED
      BY <2>0, <3>5
  <2>4. CASE ~\A k \in 1..i : Depth(segs, k) >= 0
    <3>1. f[i] = NoPath
      BY <2>1, <2>4 DEF Walked
    <3>2. Push(segs, NoPath, i + 1) = NoPath
      BY DEF Push, NoPath
    <3>3. ~\A k \in 1..(i + 1) : Depth(segs, k) >= 0
      BY <2>2, <2>4
    <3>4. Walked(f[i + 1], segs, i + 1)
      BY <2>1, <3>1, <3>2, <3>3 DEF Walked
    <3> QED
      BY <2>0, <3>4
  <2> QED
    BY <2>3, <2>4
<1>5. m \in T
  <2> HIDE DEF T, m
  <2>1. 0..m \subseteq T
    BY <1>0, <1>3, <1>4, UpTo
  <2> QED
    BY <1>0, <2>1
<1> QED
  BY <1>1, <1>5

(* Each level that is kept was entered by one segment. *)
LEMMA EnteredOnce ==
  ASSUME NEW segs \in Seq(Segment), NEW d, NEW i \in Kept(segs), NEW j \in Kept(segs),
         Depth(segs, i) = d, Depth(segs, j) = d
  PROVE  i = j
<1>0. Len(segs) \in Nat /\ DOMAIN segs = 1..Len(segs)
  OBVIOUS
<1>1. ASSUME NEW x \in Kept(segs), NEW y \in Kept(segs), x < y PROVE Depth(segs, x) # Depth(segs, y)
  <2>1. x \in 1..Len(segs) /\ y \in 1..Len(segs) /\ y \in Names(segs) /\ Len(segs) \in Nat
    BY <1>0 DEF Kept, Names
  <2>2. Depth(segs, y) = Depth(segs, y - 1) + 1 /\ Depth(segs, y - 1) \in Int
    BY <2>1, DepthSteps
  <2>3. y - 1 \in x..Len(segs)
    BY <1>1, <2>1
  <2>4. Depth(segs, y - 1) >= Depth(segs, x)
    BY <2>3 DEF Kept
  <2>5. Depth(segs, x) \in Int
    BY <2>1, DepthSteps
  <2> QED
    BY <2>2, <2>4, <2>5
<1>2. i \in 1..Len(segs) /\ j \in 1..Len(segs)
  BY <1>0 DEF Kept, Names
<1>3. ~(i < j) /\ ~(j < i)
  BY <1>1
<1> QED
  BY <1>0, <1>2, <1>3

(* The names that the reference keeps. *)
KeptNames(segs) ==
    [d \in 1..Depth(segs, Len(segs)) |-> Written(segs[Entered(segs, d)].parts)]

(* A stack at the end of the walk is what the reference keeps. *)
LEMMA StackedKept ==
  ASSUME NEW segs \in Seq(Segment), NEW stk, Stacked(stk, segs, Len(segs))
  PROVE  /\ stk = KeptNames(segs)
         /\ \A d \in 1..Len(stk) :
               \E j \in Names(segs) : j \in 1..Len(segs) /\ stk[d] = Written(segs[j].parts)
<1>0. Len(segs) \in Nat
  OBVIOUS
<1>1. stk \in Seq(Segment) /\ Len(stk) = Depth(segs, Len(segs))
  BY DEF Stacked
<1>2. ASSUME NEW d \in 1..Len(stk)
      PROVE  /\ stk[d] = Written(segs[Entered(segs, d)].parts)
             /\ \E j \in Names(segs) : j \in 1..Len(segs) /\ stk[d] = Written(segs[j].parts)
  <2>1. PICK j \in 1..Len(segs) :
           EntersAt(segs, Len(segs), d, j) /\ stk[d] = Written(segs[j].parts)
    BY DEF Stacked
  <2>2. j \in Kept(segs) /\ Depth(segs, j) = d /\ j \in Names(segs)
    BY <2>1 DEF EntersAt, Kept
  <2>3. Entered(segs, d) \in Kept(segs) /\ Depth(segs, Entered(segs, d)) = d
    BY <2>2 DEF Entered
  <2>4. Entered(segs, d) = j
    BY <2>2, <2>3, EnteredOnce
  <2> QED
    BY <2>1, <2>2, <2>4
<1>3. DOMAIN stk = 1..Len(stk) /\ stk = [d \in 1..Len(stk) |-> stk[d]]
  BY <1>1
<1>4. stk = KeptNames(segs)
  BY <1>1, <1>2, <1>3 DEF KeptNames
<1> QED
  BY <1>2, <1>4

(* The slash that is left is no dot segment. *)
LEMMA EmptyNoDot == ToSet(Empty.parts) \cap Dots = {}
<1>1. Empty.parts = <<"">>
  BY DEF Empty, Written
<1>2. ToSet(<<"">>) = {""}
  <2>1. \A x : DOMAIN <<x>> = {1} /\ <<x>>[1] = x
    OBVIOUS
  <2>2. \A x : ToSet(<<x>>) = {<<x>>[k] : k \in DOMAIN <<x>>}
    BY DEF ToSet
  <2>3. ASSUME NEW x PROVE ToSet(<<x>>) = {x}
    <3> DEFINE t == <<x>>
    <3>1. DOMAIN t = {1} /\ t[1] = x /\ ToSet(t) = {t[k] : k \in DOMAIN t}
      BY <2>1, <2>2
    <3> HIDE DEF t
    <3>2. ToSet(t) = {x}
      BY <3>1
    <3> QED
      BY <3>2 DEF t
  <2> QED
    BY <2>3
<1> QED
  BY <1>1, <1>2 DEF Dots

(* canonicalizeL7Path returns what walking the target means, and refuses   *)
(* what leaves the root or keeps a dot, for any segments.                  *)
THEOREM CanonicalWalk ==
  ASSUME NEW segs \in Seq(Segment), segs # << >>, NEW slash
  PROVE  Canonicalize(segs, slash) = Walk(segs, slash)
<1> DEFINE p == Folded(segs)
           names == KeptNames(segs)
           tail == IF Len(segs) \in Names(segs) THEN << >> ELSE <<Empty>>
           never == \A k \in DOMAIN segs : Depth(segs, k) >= 0
           nodot == \A d \in DOMAIN names : ToSet(names[d].parts) \cap Dots = {}
<1>0. DOMAIN segs = 1..Len(segs) /\ tail = SlashLeft(segs, Len(segs))
  BY DEF SlashLeft
<1>1. Walked(p, segs, Len(segs))
  BY FoldedWalked
<1>2. /\ Walk(segs, slash) = IF Decodable(segs, slash) /\ never /\ nodot
                              THEN Path(names \o tail) ELSE NoPath
      /\ Canonicalize(segs, slash) = IF Decodable(segs, slash) /\ p.ok /\ NoDotLeft(p.segs)
                                      THEN p ELSE NoPath
  BY DEF Walk, KeptNames, Canonicalize
<1> HIDE DEF p
<1>3. CASE ~never
  <2>1. p = NoPath
    BY <1>0, <1>1, <1>3 DEF Walked
  <2>2. ~p.ok
    BY <2>1 DEF NoPath
  <2> QED
    BY <1>2, <1>3, <2>2
<1>4. CASE never
  <2>1. PICK stk : Stacked(stk, segs, Len(segs)) /\ p = Path(stk \o tail)
    BY <1>0, <1>1, <1>4, Zenon DEF Walked
  <2>2. stk = names /\ stk \in Seq(Segment)
    BY <2>1, StackedKept DEF Stacked
  <2>3. p.ok = TRUE /\ p.segs = names \o tail
    BY <2>1, <2>2 DEF Path
  <2> HIDE DEF names
  <2>4. NoDotLeft(names \o tail) <=> nodot
    <3>1. CASE tail = << >>
      <4>1. names \o tail = names
        BY <2>2, <3>1, ConcatEmptySeq
      <4> QED
        BY <4>1 DEF NoDotLeft
    <3>2. CASE tail = <<Empty>>
      <4> DEFINE out == names \o <<Empty>>
                 n == Len(names)
      <4>1. /\ n \in Nat /\ DOMAIN names = 1..n /\ DOMAIN out = 1..(n + 1)
            /\ \A d \in 1..n : out[d] = names[d]
            /\ out[n + 1] = Empty
        BY <2>2, WrittenType
      <4> HIDE DEF out, n
      <4>2. \A d \in 1..(n + 1) : d \in 1..n \/ d = n + 1
        BY <4>1
      <4>3. \A d \in 1..n : d \in 1..(n + 1)
        BY <4>1
      <4>4. NoDotLeft(out) <=> nodot
        BY <4>1, <4>2, <4>3, EmptyNoDot DEF NoDotLeft
      <4> QED
        BY <3>2, <4>4 DEF out
    <3> QED
      BY <3>1, <3>2
  <2>5. p = Path(names \o tail)
    BY <2>1, <2>2
  <2> HIDE DEF tail, nodot, never
  <2> QED
    BY <1>2, <1>4, <2>3, <2>4, <2>5, Zenon
<1> QED
  BY <1>3, <1>4

(* A path with nothing left to do: written segments without dots, encoded  *)
(* slashes only where they may be, and an empty one only at the end.       *)
Settled(out, slash) ==
    /\ out \in Seq(Segment)
    /\ \A d \in 1..Len(out) :
          /\ out[d] = Written(out[d].parts)
          /\ slash \/ Len(out[d].parts) = 1
          /\ ToSet(out[d].parts) \cap Dots = {}
          /\ d < Len(out) => out[d].parts # <<"">>

(* canonicalizeL7Path returns such a path. *)
LEMMA CanonicalSettled ==
  ASSUME NEW segs \in Seq(Segment), segs # << >>, NEW slash, Canonicalize(segs, slash).ok
  PROVE  /\ Settled(Canonicalize(segs, slash).segs, slash)
         /\ Canonicalize(segs, slash) = Path(Canonicalize(segs, slash).segs)
<1> DEFINE p == Folded(segs)
           tail == SlashLeft(segs, Len(segs))
           never == \A k \in 1..Len(segs) : Depth(segs, k) >= 0
<1>0. DOMAIN segs = 1..Len(segs) /\ Len(segs) \in Nat
  OBVIOUS
<1>1. Walked(p, segs, Len(segs))
  BY FoldedWalked
<1>2. Decodable(segs, slash) /\ NoDotLeft(p.segs) /\ Canonicalize(segs, slash) = p /\ p.ok
  BY DEF Canonicalize, NoPath
<1> HIDE DEF p
<1>3. never
  <2>1. p = NoPath => ~p.ok
    BY DEF NoPath
  <2> QED
    BY <1>1, <1>2, <2>1 DEF Walked
<1>4. PICK stk : Stacked(stk, segs, Len(segs)) /\ p = Path(stk \o tail)
  BY <1>1, <1>3, Zenon DEF Walked
<1> DEFINE out == stk \o tail
           n == Len(stk)
<1>5. p.segs = out /\ p = Path(out)
  BY <1>4 DEF Path
<1>6. stk \in Seq(Segment)
  BY <1>4 DEF Stacked
<1>7. ASSUME NEW d \in 1..n
      PROVE  /\ stk[d] = Written(stk[d].parts)
             /\ slash \/ Len(stk[d].parts) = 1
             /\ stk[d].parts # <<"">>
  <2>1. PICK j \in Names(segs) : j \in 1..Len(segs) /\ stk[d] = Written(segs[j].parts)
    BY <1>4, StackedKept
  <2>2. stk[d].parts = segs[j].parts
    BY <2>1 DEF Written
  <2>3. slash \/ Len(segs[j].parts) = 1
    BY <1>0, <1>2, <2>1 DEF Decodable
  <2>4. segs[j].parts # <<"">>
    BY <2>1 DEF Names
  <2> QED
    BY <2>1, <2>2, <2>3, <2>4
<1>8. Len(Empty.parts) = 1 /\ Empty = Written(Empty.parts)
  <2>1. \A x : Len(<<x>>) = 1
    OBVIOUS
  <2> QED
    BY <2>1 DEF Empty, Written
<1>9. \A d \in DOMAIN out : ToSet(out[d].parts) \cap Dots = {}
  BY <1>2, <1>5 DEF NoDotLeft
<1>10. Settled(out, slash)
  <2>1. CASE tail = << >>
    <3>1. out = stk
      BY <1>6, <2>1, ConcatEmptySeq
    <3> HIDE DEF out, tail
    <3>2. DOMAIN stk = 1..Len(stk)
      BY <1>6
    <3> QED
      BY <1>6, <1>7, <1>9, <3>1, <3>2 DEF Settled
  <2>2. CASE tail = <<Empty>>
    <3>1. /\ n \in Nat /\ Len(out) = n + 1 /\ out \in Seq(Segment) /\ DOMAIN out = 1..Len(out)
          /\ \A d \in 1..n : out[d] = stk[d]
          /\ out[n + 1] = Empty
      BY <1>6, <2>2, WrittenType
    <3> HIDE DEF out, n, tail
    <3>2. \A d \in 1..(n + 1) : (d < n + 1 => d \in 1..n) /\ (d \in 1..n \/ d = n + 1)
      BY <3>1
    <3>3. ASSUME NEW d \in 1..Len(out)
          PROVE  /\ out[d] = Written(out[d].parts)
                 /\ slash \/ Len(out[d].parts) = 1
                 /\ d < Len(out) => out[d].parts # <<"">>
      <4>1. CASE d \in 1..n
        BY <1>7, <3>1, <4>1
      <4>2. CASE d = n + 1
        <5>1. out[d] = Empty /\ ~(d < Len(out))
          BY <3>1, <4>2
        <5> QED
          BY <1>8, <5>1, Zenon
      <4> QED
        BY <3>1, <3>2, <4>1, <4>2
    <3> QED
      BY <1>9, <3>1, <3>3 DEF Settled
  <2> QED
    BY <2>1, <2>2 DEF SlashLeft
<1> HIDE DEF out
<1> QED
  BY <1>2, <1>5, <1>10

(* One turn of the loop on such a path adds its segment as it is. *)
LEMMA PushSettled ==
  ASSUME NEW out, NEW slash, Settled(out, slash), NEW i \in 1..Len(out),
         NEW stk \in Seq(Segment)
  PROVE  Push(out, Path(stk), i) = Path(Append(stk, out[i]))
<1> DEFINE acc == Path(stk)
           parts == out[i].parts
           tail == IF i = Len(out) THEN <<Empty>> ELSE << >>
           up == IF acc.segs = << >> THEN NoPath ELSE Path(Front(acc.segs) \o tail)
           same == Path(acc.segs \o tail)
           down == Path(Append(acc.segs, Written(parts)))
<1>1. Push(out, acc, i) = IF ~acc.ok THEN acc
                          ELSE CASE parts = <<"..">> -> up
                                 [] parts \in {<<".">>, <<"">>} -> same
                                 [] OTHER -> down
  BY DEF Push
<1>2. acc.ok = TRUE /\ acc.segs = stk
  BY DEF Path
<1>3. /\ out[i] = Written(parts) /\ ToSet(parts) \cap Dots = {} /\ Len(out) \in Nat
      /\ i < Len(out) => parts # <<"">>
  <2>1. out \in Seq(Segment)
    BY DEF Settled
  <2>2. Len(out) \in Nat
    BY <2>1
  <2> QED
    BY <2>2, Zenon DEF Settled
<1>4. parts = <<"">> => i = Len(out)
  <2>1. i < Len(out) \/ i = Len(out)
    <3>1. \A l \in Nat : \A x \in 1..l : x < l \/ x = l
      OBVIOUS
    <3> QED
      BY <1>3, <3>1, Zenon
  <2> QED
    BY <1>3, <2>1, Zenon
<1>5. \A x : x \in ToSet(<<x>>)
  <2>1. \A x : 1 \in DOMAIN <<x>> /\ <<x>>[1] = x
    OBVIOUS
  <2> QED
    BY <2>1 DEF ToSet
<1>6. parts # <<".">> /\ parts # <<"..">>
  BY <1>3, <1>5 DEF Dots
<1>7. CASE parts = <<"">>
  <2>1. tail = <<Empty>> /\ out[i] = Empty
    BY <1>3, <1>4, <1>7 DEF Empty
  <2>2. stk \o <<Empty>> = Append(stk, Empty)
    BY WrittenType
  <2>3. same = Path(Append(stk, out[i]))
    BY <1>2, <2>1, <2>2, Zenon
  <2> HIDE DEF up, same, down, acc, parts, tail
  <2>4. Push(out, acc, i) = same
    BY <1>1, <1>2, <1>6, <1>7
  <2> QED
    BY <2>3, <2>4 DEF acc
<1>8. CASE parts # <<"">>
  <2>1. down = Path(Append(stk, out[i]))
    BY <1>2, <1>3, Zenon
  <2> HIDE DEF up, same, down, acc, parts, tail
  <2>4. Push(out, acc, i) = down
    BY <1>1, <1>2, <1>6, <1>8
  <2> QED
    BY <2>1, <2>4 DEF acc
<1> QED
  BY <1>7, <1>8

(* So it is a fixed point. *)
LEMMA SettledFixed ==
  ASSUME NEW out, NEW slash, Settled(out, slash)
  PROVE  Canonicalize(out, slash) = Path(out)
<1> DEFINE m == Len(out)
           P(i) == SubSeq(out, 1, i)
<1>0. m \in Nat /\ out \in Seq(Segment) /\ DOMAIN out = 1..m
  <2>1. out \in Seq(Segment)
    BY DEF Settled
  <2> QED
    BY <2>1
<1>1. PICK f : Stacks(f, m, out) /\ Folded(out) = f[m]
  BY <1>0, StacksExist
<1>2. f[0] = Path(<< >>) /\ \A j \in 0..(m - 1) : f[j + 1] = Push(out, f[j], j + 1)
  BY <1>0, <1>1, StackSteps
<1> DEFINE T == {i \in 0..m : f[i] = Path(P(i))}
<1>3. 0 \in T
  <2>1. P(0) = << >>
    BY <1>0
  <2>2. 0 \in 0..m
    BY <1>0
  <2>3. f[0] = Path(P(0))
    BY <1>2, <2>1, Zenon
  <2> HIDE DEF P
  <2> QED
    BY <2>2, <2>3
<1>4. ASSUME NEW i \in 0..(m - 1), i \in T PROVE i + 1 \in T
  <2>1. i \in Nat /\ i + 1 \in 1..m /\ i + 1 \in 0..m
    BY <1>0
  <2>2. P(i) \in Seq(Segment) /\ P(i + 1) = Append(P(i), out[i + 1])
    BY <1>0, <2>1
  <2> HIDE DEF P
  <2>3. f[i] = Path(P(i)) /\ f[i + 1] = Push(out, f[i], i + 1)
    BY <1>2, <1>4
  <2>4. Push(out, Path(P(i)), i + 1) = Path(Append(P(i), out[i + 1]))
    BY <2>1, <2>2, PushSettled
  <2>5. f[i + 1] = Path(P(i + 1))
    BY <2>2, <2>3, <2>4
  <2> QED
    BY <2>1, <2>5
<1>5. m \in T
  <2> HIDE DEF T, m
  <2>1. 0..m \subseteq T
    BY <1>0, <1>3, <1>4, UpTo
  <2> QED
    BY <1>0, <2>1
<1>6. P(m) = out
  BY <1>0
<1> HIDE DEF P
<1>7. Folded(out) = Path(out)
  BY <1>1, <1>5, <1>6
<1>8. Path(out).ok = TRUE /\ Path(out).segs = out
  BY DEF Path
<1>9. NoDotLeft(out)
  BY <1>0 DEF Settled, NoDotLeft
<1>10. Decodable(out, slash)
  <2>1. \A w : ~Written(w).bad /\ Written(w).param # "slash"
    BY DEF Written
  <2> QED
    BY <1>0, <2>1 DEF Settled, Decodable
<1> QED
  BY <1>7, <1>8, <1>9, <1>10 DEF Canonicalize

(* An upstream that decodes the encoded slashes too finds no way up. *)
LEMMA SettledFlat ==
  ASSUME NEW out, NEW slash, Settled(out, slash)
  PROVE  Kept(Flat(out)) = Names(Flat(out))
<1> DEFINE W == {w \in Segment : w.parts # <<"..">>}
           piece == [i \in DOMAIN out |-> [j \in DOMAIN out[i].parts |-> Written(<<out[i].parts[j]>>)]]
<1>0. out \in Seq(Segment)
  BY DEF Settled
<1>1. Len(out) \in Nat /\ DOMAIN out = 1..Len(out)
  BY <1>0
<1>2. ASSUME NEW i \in 1..Len(out)
      PROVE  [j \in DOMAIN out[i].parts |-> Written(<<out[i].parts[j]>>)] \in Seq(W)
  <2> DEFINE q == out[i].parts
  <2>1. q \in Seq(AnyPart)
    <3>1. out[i] \in Segment
      BY <1>0, <1>1
    <3> QED
      BY <3>1 DEF Segment
  <2>2. ToSet(q) \cap Dots = {}
    BY DEF Settled
  <2> HIDE DEF q
  <2>3. Len(q) \in Nat /\ DOMAIN q = 1..Len(q) /\ \A j \in 1..Len(q) : q[j] \in AnyPart
    BY <2>1
  <2>4. ASSUME NEW j \in 1..Len(q) PROVE Written(<<q[j]>>) \in W
    <3>1. \A x \in AnyPart : <<x>> \in Seq(AnyPart)
      OBVIOUS
    <3>2. Written(<<q[j]>>) \in Segment
      BY <2>3, <3>1, WrittenType
    <3>3. q[j] # ".."
      BY <2>2, <2>3 DEF ToSet, Dots
    <3>4. <<q[j]>> # <<"..">>
      BY <3>3
    <3>5. Written(<<q[j]>>).parts = <<q[j]>>
      BY DEF Written
    <3> QED
      BY <3>2, <3>4, <3>5
  <2> HIDE DEF W
  <2>5. [j \in DOMAIN q |-> Written(<<q[j]>>)] \in [1..Len(q) -> W]
    BY <2>3, <2>4
  <2>6. [j \in DOMAIN q |-> Written(<<q[j]>>)] \in Seq(W)
    BY <2>3, <2>5
  <2> QED
    BY <2>6 DEF q
<1>3. piece \in Seq(Seq(W))
  <2> HIDE DEF W
  <2>1. piece \in [1..Len(out) -> Seq(W)]
    BY <1>1, <1>2
  <2> HIDE DEF piece
  <2> QED
    BY <1>1, <2>1
<1> DEFINE s == Flat(out)
<1>4. s \in Seq(W)
  <2> HIDE DEF W, piece
  <2>1. FlattenSeq(piece) \in Seq(W)
    BY <1>3, FlattenType
  <2> QED
    BY <2>1 DEF Flat, piece
<1> HIDE DEF s
<1>5. Len(s) \in Nat /\ DOMAIN s = 1..Len(s) /\ \A i \in 1..Len(s) : s[i] \in W
  <2> HIDE DEF W
  <2> QED
    BY <1>4
<1>6. Ups(s) = {}
  BY <1>5 DEF Ups
<1>7. ASSUME NEW i \in Names(s), NEW k \in i..Len(s) PROVE Depth(s, k) >= Depth(s, i)
  <2>0. i \in 1..Len(s)
    BY <1>5 DEF Names
  <2>1. i \in Int /\ k \in Int /\ i <= k
    BY <1>5, <2>0
  <2>2. IsFiniteSet(1..k)
    BY <2>1, FS_Interval
  <2> DEFINE A == Names(s) \cap 1..i
             B == Names(s) \cap 1..k
  <2>3. IsFiniteSet(B) /\ A \in SUBSET B
    <3>1. IsFiniteSet(B)
      BY <2>2, FS_Intersection
    <3>2. 1..i \subseteq 1..k
      BY <2>1
    <3> QED
      BY <3>1, <3>2
  <2>4. Cardinality(A) <= Cardinality(B) /\ IsFiniteSet(A)
    BY <2>3, FS_Subset
  <2>5. Cardinality(A) \in Nat /\ Cardinality(B) \in Nat
    BY <2>3, <2>4, FS_CardinalityType
  <2>6. Cardinality({}) = 0
    BY FS_EmptySet
  <2>7. Depth(s, i) = Cardinality(A) - 0 /\ Depth(s, k) = Cardinality(B) - 0
    BY <1>6, <2>6 DEF Depth
  <2> HIDE DEF A, B
  <2> QED
    BY <2>4, <2>5, <2>7
<1>8. Kept(s) = Names(s)
  BY <1>7 DEF Kept
<1> QED
  BY <1>8 DEF s

(* requestTargetPath: what is walked, if anything is. *)
LEMMA TargetSettled ==
  ASSUME NEW target \in TargetType, NEW slash
  PROVE  LET p == TargetPath(target, slash) IN
         /\ p.ok \in BOOLEAN
         /\ target.form \in {"origin", "absolute"} => p = Walk(target.segs, slash)
         /\ p.ok => /\ Canonicalize(p.segs, slash) = p
                    /\ Kept(Flat(p.segs)) = Names(Flat(p.segs))
<1> DEFINE p == TargetPath(target, slash)
<1>1. ASSUME NEW segs \in Seq(Segment), segs # << >>, p = Canonicalize(segs, slash)
      PROVE  /\ p.ok \in BOOLEAN
             /\ p.ok => /\ Canonicalize(p.segs, slash) = p
                        /\ Kept(Flat(p.segs)) = Names(Flat(p.segs))
  <2> HIDE DEF p
  <2>1. CASE p.ok
    <3>1. Settled(p.segs, slash) /\ p = Path(p.segs)
      BY <1>1, <2>1, CanonicalSettled
    <3>2. p.ok \in BOOLEAN
      <4>1. Path(p.segs).ok = TRUE
        BY DEF Path
      <4> QED
        BY <3>1, <4>1
    <3>3. Canonicalize(p.segs, slash) = p
      BY <3>1, SettledFixed
    <3>4. Kept(Flat(p.segs)) = Names(Flat(p.segs))
      BY <3>1, SettledFlat
    <3> QED
      BY <3>2, <3>3, <3>4
  <2>2. CASE ~p.ok
    <3>1. p = NoPath
      BY <1>1, <2>2 DEF Canonicalize
    <3> QED
      BY <2>2, <3>1 DEF NoPath
  <2> QED
    BY <2>1, <2>2
<1>2. target.segs \in Seq(Segment) /\ target.segs # << >>
  <2>1. target.segs \in Seq(SegmentType) /\ target.segs # << >>
    BY DEF TargetType
  <2> QED
    BY <2>1, ReceivedSegments
<1>3. CASE target.form \in {"origin", "absolute"}
  <2>1. p = Canonicalize(target.segs, slash)
    BY <1>3 DEF TargetPath
  <2>2. p = Walk(target.segs, slash)
    BY <1>2, <2>1, CanonicalWalk
  <2> HIDE DEF p
  <2>3. /\ p.ok \in BOOLEAN
        /\ p.ok => /\ Canonicalize(p.segs, slash) = p
                   /\ Kept(Flat(p.segs)) = Names(Flat(p.segs))
    BY <1>1, <1>2, <2>1
  <2> QED
    BY <2>2, <2>3 DEF p
<1>4. CASE target.form = "bare"
  <2>1. p = Canonicalize(<<Empty>>, slash)
    BY <1>4 DEF TargetPath
  <2>2. \A e \in Segment : <<e>> \in Seq(Segment) /\ <<e>> # << >>
    OBVIOUS
  <2>3. <<Empty>> \in Seq(Segment) /\ <<Empty>> # << >>
    BY <2>2, WrittenType
  <2> HIDE DEF p
  <2>4. /\ p.ok \in BOOLEAN
        /\ p.ok => /\ Canonicalize(p.segs, slash) = p
                   /\ Kept(Flat(p.segs)) = Names(Flat(p.segs))
    BY <1>1, <2>1, <2>3
  <2> QED
    BY <1>4, <2>4 DEF p
<1>5. CASE target.form \in {"star", "fragment"}
  <2>1. p = NoPath
    BY <1>5 DEF TargetPath
  <2> HIDE DEF p
  <2>2. p.ok = FALSE
    BY <2>1 DEF NoPath
  <2> QED
    BY <1>5, <2>2 DEF p
<1>6. target.form \in {"origin", "absolute", "bare", "star", "fragment"}
  BY DEF TargetType
<1> QED
  BY <1>3, <1>4, <1>5, <1>6

-----------------------------------------------------------------------------
(* Types *)

(* What the variables of a dial hold, besides what AddressesHeld says. *)
DialTypes ==
    /\ sock \in {"none", "open", "closed"}
    /\ deadline \in BOOLEAN
    /\ ctx \in {"live", "done"}
    /\ hook \in {"off", "armed", "started", "ran", "stopped"}
    /\ result \in {"none", "conn", "error"}
    /\ dial.pc = "done" => result # "none"
    /\ dial.k \in 1..(Len(addrs) + 1)

(* A step that leaves the addresses and the index alone. *)
LEMMA TypesQuiet ==
  ASSUME DestInv, DialTypes, UNCHANGED addrs, UNCHANGED dial \/ \E l : Goto(l),
         sock' \in {"none", "open", "closed"}, deadline' \in BOOLEAN, ctx' \in {"live", "done"},
         hook' \in {"off", "armed", "started", "ran", "stopped"},
         result' \in {"none", "conn", "error"}, dial'.pc = "done" => result' # "none"
  PROVE  DialTypes'
<1>1. dial'.k = dial.k
  BY DEF Goto, DestInv, AddressesHeld
<1> QED
  BY <1>1 DEF DialTypes

(* Every way out of dialViaHTTPProxy reports an error. *)
LEMMA TypesFail ==
  ASSUME DestInv, DialTypes, Fail
  PROVE  DialTypes'
<1>1. UNCHANGED <<addrs, deadline, ctx>> /\ Goto("done") /\ result' = "error"
  BY DEF Fail
<1>2. /\ sock' \in {"none", "open", "closed"}
      /\ hook' \in {"off", "armed", "started", "ran", "stopped"}
  BY DEF Fail, DialTypes
<1>3. deadline' \in BOOLEAN /\ ctx' \in {"live", "done"}
  BY <1>1 DEF DialTypes
<1> QED
  BY <1>1, <1>2, <1>3, TypesQuiet

(* Every step of the dial keeps the types. *)
LEMMA TypesStep ==
  ASSUME DestInv, DestInv', DialTypes, [DialAny]_dialVars
  PROVE  DialTypes'
<1>0. /\ addrs \in Seq(Address) /\ Len(addrs) \in Nat /\ dial = [pc |-> dial.pc, k |-> dial.k]
      /\ addrs' \in Seq(Address) /\ Len(addrs') \in Nat
  BY DEF DestInv, AddressesHeld
<1>g. \A l : Goto(l) => dial'.pc = l /\ dial'.k = dial.k
  BY <1>0 DEF Goto
<1>1. CASE \E c \in Calls : Start(c)
  <2>1. UNCHANGED <<addrs, sock, deadline, ctx, hook, result>> /\ Goto("resolve")
    BY <1>1 DEF Start
  <2> QED
    BY <1>g, <2>1, TypesQuiet DEF DialTypes
<1>2. CASE ResolveLiteral \/ \E found \in Answers \cup {<< >>} : Lookup(found)
  <2>1. dial.k = 1
    BY <1>2 DEF ResolveLiteral, Lookup, At, DestInv, AddressesHeld
  <2>2. /\ UNCHANGED <<sock, deadline, ctx, hook>>
        /\ \/ Goto("route") /\ UNCHANGED result
           \/ Goto("done") /\ result' = "error"
    BY <1>2 DEF ResolveLiteral, Lookup, Filter
  <2>3. dial'.k = 1 /\ (dial'.pc = "done" => result' # "none")
    BY <1>g, <2>1, <2>2
  <2> QED
    BY <1>0, <2>2, <2>3 DEF DialTypes
<1>3. CASE RouteDirect
  <2>1. dial.k = 1
    BY <1>3 DEF RouteDirect, At, DestInv, AddressesHeld
  <2>2. UNCHANGED <<sock, deadline, ctx, hook, result>> /\ Goto("direct")
    BY <1>3 DEF RouteDirect
  <2> QED
    BY <1>0, <1>g, <2>1, <2>2 DEF DialTypes
<1>4. CASE RouteProxy
  BY <1>4, <1>g, TypesQuiet DEF RouteProxy, DialTypes
<1>5. CASE \E ok \in BOOLEAN : DialDirect(ok)
  <2>1. PICK ok \in BOOLEAN : DialDirect(ok)
    BY <1>5
  <2>2. dial.k \in 1..Len(addrs) /\ UNCHANGED <<addrs, deadline, ctx, hook>>
    BY <2>1 DEF DialDirect, At, DestInv, AddressesHeld
  <2>3. \/ Goto("done") /\ sock' \in {sock, "open"} /\ result' \in {"conn", "error"}
        \/ dial' = [dial EXCEPT !.k = @ + 1] /\ UNCHANGED <<sock, result>>
    BY <2>1 DEF DialDirect
  <2>4. CASE Goto("done") /\ sock' \in {sock, "open"} /\ result' \in {"conn", "error"}
    BY <1>g, <2>2, <2>4, TypesQuiet DEF DialTypes
  <2>5. CASE dial' = [dial EXCEPT !.k = @ + 1] /\ UNCHANGED <<sock, result>>
    <3>1. dial'.k = dial.k + 1 /\ dial'.pc = dial.pc
      BY <1>0, <2>5
    <3>2. dial'.k \in 1..(Len(addrs) + 1)
      BY <1>0, <2>2, <3>1
    <3> QED
      BY <2>2, <2>5, <3>1, <3>2 DEF DialTypes
  <2> QED
    BY <2>3, <2>4, <2>5
<1>6. CASE Fail
  BY <1>6, TypesFail
<1>7. CASE /\ UNCHANGED addrs
           /\ UNCHANGED dial \/ \E l : Goto(l)
           /\ sock' \in {sock, "open", "closed"} /\ deadline' \in {deadline, TRUE, FALSE}
           /\ ctx' \in {ctx, "done"} /\ hook' \in {hook, "armed", "started", "ran", "stopped"}
           /\ result' \in {result, "conn"} /\ (dial'.pc = "done" => result' # "none")
  BY <1>7, TypesQuiet DEF DialTypes
<1>n. ASSUME \E l \in ViaProxy : Goto(l), UNCHANGED <<addrs, ctx, result>>,
             sock' \in {sock, "open"}, deadline' \in {deadline, TRUE},
             hook' \in {hook, "armed", "started", "stopped"}
      PROVE  DialTypes'
  <2>1. dial'.pc # "done"
    BY <1>g, <1>n DEF ViaProxy
  <2> QED
    BY <1>7, <1>n, <2>1
<1>8. ASSUME \/ \E ok \in BOOLEAN : Connect(ok)
             \/ \E ok \in BOOLEAN : SetDeadline(ok)
             \/ Arm \/ CheckContext \/ StopCancel
             \/ \E ok \in BOOLEAN : ClearDeadline(ok)
             \/ Handshake \/ Send
             \/ \E status \in {"ok", "refused"} : Receive(status)
      PROVE  DialTypes'
  <2>1. CASE \E ok \in BOOLEAN : Connect(ok)
    BY <1>6, <1>n, <2>1 DEF Connect, ViaProxy
  <2>2. CASE \E ok \in BOOLEAN : SetDeadline(ok)
    BY <1>6, <1>n, <2>2 DEF SetDeadline, ViaProxy
  <2>3. CASE Arm
    BY <1>n, <2>3 DEF Arm, ViaProxy
  <2>4. CASE CheckContext
    BY <1>6, <1>n, <2>4 DEF CheckContext, ViaProxy
  <2>5. CASE StopCancel
    BY <1>6, <1>n, <2>5 DEF StopCancel, ViaProxy
  <2>6. CASE \E ok \in BOOLEAN : ClearDeadline(ok)
    BY <1>6, <1>7, <1>g, <2>6 DEF ClearDeadline
  <2>7. CASE Handshake \/ Send
    BY <1>n, <2>7 DEF Handshake, Send, ViaProxy
  <2>8. CASE \E status \in {"ok", "refused"} : Receive(status)
    BY <1>6, <1>n, <2>8 DEF Receive, ViaProxy
  <2> QED
    BY <1>8, <2>1, <2>2, <2>3, <2>4, <2>5, <2>6, <2>7, <2>8
<1>9. CASE Interrupted \/ Spoiled
  BY <1>6, <1>9 DEF Interrupted, Spoiled
<1>10. CASE Cancel
  BY <1>7, <1>10 DEF Cancel, DialTypes
<1>11. CASE HookClose
  BY <1>7, <1>11 DEF HookClose, DialTypes
<1>12. CASE UNCHANGED dialVars
  BY <1>7, <1>12 DEF dialVars, DialTypes
<1> QED
  BY <1>1, <1>2, <1>3, <1>4, <1>5, <1>8, <1>9, <1>10, <1>11, <1>12
     DEF DialAny, DialNext, DialStep, PeerStep

(* Nothing moves before DialSSRF is called. *)
LEMMA IdleStep ==
  ASSUME DialNext, At("idle")
  PROVE  UNCHANGED dial
BY DEF DialNext, DialStep, PeerStep, At, ResolveLiteral, Lookup, RouteDirect, RouteProxy,
       DialDirect, Connect, SetDeadline, Arm, CheckContext, Interrupted, StopCancel,
       ClearDeadline, Handshake, Send, Receive, Spoiled, Cancel, HookClose

-----------------------------------------------------------------------------
(* The specification of an outbound request *)

(* The request is one that was sent until it is let go. *)
RequestInv ==
    /\ handler \in {"decide", "admitted", "forward", "refused"}
    /\ handler # "forward" => req \in Requests
    /\ handler \in {"admitted", "refused"} => path = TargetPath(req.target, req.slash)
    /\ handler \in {"decide", "forward"} => path = NoPath

(* The path is settled by Decide and both are kept until Forward. *)
LEMMA RequestStep == RequestInv /\ [Next]_vars => RequestInv'
<1> SUFFICES ASSUME RequestInv, [Next]_vars PROVE RequestInv'
  OBVIOUS
<1>1. CASE Decide
  BY <1>1 DEF Decide, RequestInv
<1>2. CASE \E c \in Calls : Forward(c)
  BY <1>2 DEF Forward, RequestInv
<1>3. CASE UNCHANGED <<req, handler, path>>
  BY <1>3 DEF RequestInv
<1> QED
  BY <1>1, <1>2, <1>3 DEF Next, vars

(* The types of the dial, which has not begun before Forward. *)
TypesInv == DialTypes /\ (handler # "forward" => At("idle"))

(* They are kept. *)
LEMMA TypesInvStep ==
  ASSUME DestInv, DestInv', TypesInv, [Next]_vars
  PROVE  TypesInv'
<1>1. [DialAny]_dialVars
  BY DEF Next, vars, Decide, Forward, DialAny
<1>2. DialTypes'
  BY <1>1, TypesStep DEF TypesInv
<1>3. CASE Decide
  BY <1>2, <1>3 DEF Decide, TypesInv, dialVars, At
<1>4. CASE \E c \in Calls : Forward(c)
  BY <1>2, <1>4 DEF Forward, TypesInv
<1>5. CASE DialNext /\ UNCHANGED <<req, handler, path>>
  BY <1>2, <1>5, IdleStep DEF TypesInv, At
<1>6. CASE UNCHANGED vars
  BY <1>2, <1>6 DEF vars, dialVars, TypesInv, At
<1> QED
  BY <1>3, <1>4, <1>5, <1>6 DEF Next

(* The inductive invariant holds in every behaviour. *)
LEMMA OutboundInvariant ==
  Spec => [](ConnInv /\ DestInv /\ OriginInv /\ AdmittedInv /\ RequestInv /\ TypesInv)
<1>0. Init => OriginInv
  BY DEF Init, DialInit, OriginInv, ToSet
<1>1. Init => ConnInv /\ DestInv /\ AdmittedInv /\ RequestInv
  BY ConnInit, DestInit DEF Init, AdmittedInv, RequestInv
<1>2. Init => TypesInv
  <2> SUFFICES ASSUME DialInit PROVE TypesInv
    BY DEF Init
  <2>1. dial = [pc |-> "idle", k |-> 1] /\ addrs = << >>
    BY DEF DialInit
  <2>2. dial.pc = "idle" /\ dial.k \in 1..(Len(addrs) + 1)
    BY <2>1
  <2> QED
    BY <2>2 DEF TypesInv, DialTypes, DialInit, At
<1>3. [Next]_vars => [DialAny]_dialVars
  BY DEF Next, vars, Decide, Forward, DialAny
<1>4. /\ ConnInv /\ [Next]_vars => ConnInv'
      /\ DestInv /\ [Next]_vars => DestInv'
      /\ DestInv /\ OriginInv /\ [Next]_vars => OriginInv'
  BY <1>3, ConnStep, DestStep, OriginStep
<1>5. DestInv /\ DestInv' /\ TypesInv /\ [Next]_vars => TypesInv'
  BY TypesInvStep
<1> QED
  BY <1>0, <1>1, <1>2, <1>4, <1>5, AdmittedStep, RequestStep, PTL DEF Spec

(* Every address that DialSSRF connects to, or asks the proxy for, is one  *)
(* that its one lookup returned and that passes the rules of the endpoint, *)
(* whatever DNS answers; names go to a proxy only without allowed_ips.     *)
(* This is so as long as no literal of a private or blocked range is given *)
(* with a zone, which the filter does not recognise.                       *)
THEOREM AlwaysApprovedOnly ==
  ASSUME ZonesPublic
  PROVE  Spec => []ApprovedOnly
<1>1. DestInv /\ OriginInv => ApprovedOnly
  BY ApprovedMeant
<1> QED
  BY <1>1, OutboundInvariant, PTL

(* With a corporate proxy, DialSSRF connects directly only to what an      *)
(* entry of NO_PROXY exempts for this port.                                *)
THEOREM ProxyAlwaysKept == Spec => []ProxyKept
<1>1. DestInv => ProxyKept
  BY DEF DestInv
<1> QED
  BY <1>1, OutboundInvariant, PTL

(* A connection that DialSSRF returns is open, without a deadline, and no  *)
(* callback can close it any more, whenever the caller's context ends; a   *)
(* dial that fails, in any race with the callback, leaves none open.       *)
THEOREM ConnectionAlwaysOwned == Spec => []ConnectionOwned
<1>1. ConnInv => ConnectionOwned
  BY DEF ConnInv, ConnectionOwned
<1> QED
  BY <1>1, OutboundInvariant, PTL

(* decideHTTP admits an MCP or JSON-RPC body only if every call in it is   *)
(* allowed at the path, for any methods, tools, versions and batches.      *)
THEOREM CallsAlwaysJudged == Spec => []CallsJudged
<1>1. ASSUME AdmittedInv PROVE CallsJudged
  <2> SUFFICES ASSUME Admits(req, path), req.protocol \in {"mcp", "jsonrpc"},
                      req.body.kind = "json", NEW i \in DOMAIN req.body.items,
                      req.body.items[i].method # "none"
               PROVE  LET item == req.body.items[i] IN
                      /\ path.segs \in AllowedPaths
                      /\ \E tool \in {item.tool, "none"} :
                          /\ <<item.method, tool>> \in AllowedCalls
                          /\ item.method = "tools/call" /\ req.protocol = "mcp" => tool = item.tool
                      /\ req.protocol = "mcp" /\ ~VersionAllowed(req) =>
                             item.method = "initialize" /\ ~req.body.batch
    BY <1>1 DEF AdmittedInv, CallsJudged, ToSet
  <2>1. CASE req.protocol = "mcp"
    BY <2>1, MCPJudged
  <2>2. CASE req.protocol = "jsonrpc"
    BY <2>2, JSONRPCJudged
  <2> QED
    BY <2>1, <2>2
<1> QED
  BY <1>1, OutboundInvariant, PTL

(* decideHTTP admits a GraphQL body only if every field that an upstream   *)
(* would resolve at the root of a selected operation is allowed, for any   *)
(* document: expandRootFields finds them all.                              *)
THEOREM FieldsAlwaysJudged == Spec => []FieldsJudged
<1>1. ASSUME AdmittedInv, RequestInv PROVE FieldsJudged
  <2> SUFFICES ASSUME handler = "admitted", req.protocol = "graphql",
                      NEW i \in DOMAIN req.body.items,
                      req.body.items[i].query.kind = "document"
               PROVE  LET env == req.body.items[i] IN
                      \E op \in ToSet(env.query.ops) :
                          /\ env.name \in {"", op.name}
                          /\ RootFields(env.query, op.sel) \subseteq AllowedFields
    BY DEF FieldsJudged, ToSet
  <2>1. req.body.items \in Seq(EnvelopeType) /\ Admits(req, path)
    BY <1>1, RequestAssumption DEF RequestInv, AdmittedInv
  <2> QED
    BY <2>1, FieldsOfOperation
<1> QED
  BY <1>1, OutboundInvariant, PTL

(* The path that decideHTTP judges and forwards is the walk that the       *)
(* target describes, for any target: canonicalizeL7Path refuses exactly    *)
(* what leaves the root or keeps a dot, and what it returns it would       *)
(* return again, with no way up hidden in encoded slashes.                 *)
THEOREM PathAlwaysSettled == Spec => []PathSettled
<1>1. ASSUME ConnInv, DestInv, AdmittedInv, RequestInv, TypesInv PROVE PathSettled
  <2>1. ASSUME handler \in {"admitted", "refused"}
        PROVE  /\ path.ok \in BOOLEAN
               /\ req.target.form \in {"origin", "absolute"} =>
                     path = Walk(req.target.segs, req.slash)
               /\ path.ok => /\ Canonicalize(path.segs, req.slash) = path
                             /\ Kept(Flat(path.segs)) = Names(Flat(path.segs))
    <3>1. req.target \in TargetType /\ path = TargetPath(req.target, req.slash)
      BY <1>1, <2>1, RequestAssumption DEF RequestInv
    <3> QED
      BY <3>1, TargetSettled
  <2>2. path.ok \in BOOLEAN
    <3>1. handler \in {"decide", "forward"} => path = NoPath
      BY <1>1 DEF RequestInv
    <3>2. NoPath.ok \in BOOLEAN
      BY DEF NoPath
    <3>3. handler \in {"decide", "admitted", "forward", "refused"}
      BY <1>1 DEF RequestInv
    <3> QED
      BY <2>1, <3>1, <3>2, <3>3
  <2>3. handler = "admitted" => path.ok /\ Admits(req, path)
    BY <1>1 DEF AdmittedInv, Admits
  <2>4. DialTypeOK
    <3>1. /\ call \in Calls \cup {NoCall} /\ answer \in Seq(Address) /\ addrs \in Seq(Address)
          /\ dial.pc \in {"idle", "resolve", "done"} \cup Filtered
      BY <1>1 DEF DestInv, AddressesHeld
    <3>2. (result = "none") = ~At("done")
      BY <1>1 DEF ConnInv, TypesInv, DialTypes, At
    <3> QED
      BY <1>1, <3>1, <3>2 DEF DialTypeOK, TypesInv, DialTypes, Filtered, ViaProxy
  <2>5. TypeOK
    BY <1>1, <2>2, <2>3, <2>4 DEF TypeOK, RequestInv, TypesInv
  <2>6. handler = "admitted" /\ req.protocol = "rest" => path.segs \in AllowedPaths
    <3> SUFFICES ASSUME Admits(req, path), req.protocol = "rest" PROVE path.segs \in AllowedPaths
      BY <2>3
    <3> DEFINE rest == [kind |-> "rest"]
    <3>1. Parsed(req) = Members(<<rest>>)
      BY DEF Parsed
    <3>2. rest # Unjudged
      BY DEF Unjudged
    <3> HIDE DEF rest
    <3>3. 1 \in DOMAIN Parsed(req).members /\ Parsed(req).members[1] = rest
      BY <3>1 DEF Members
    <3>4. Permits(rest, path.segs)
      BY <3>2, <3>3 DEF Admits
    <3> QED
      BY <3>4 DEF Permits
  <2> QED
    BY <2>1, <2>3, <2>5, <2>6 DEF PathSettled
<1> QED
  BY <1>1, OutboundInvariant, PTL
=============================================================================
