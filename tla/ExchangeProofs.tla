---------------------------- MODULE ExchangeProofs ----------------------------
(***************************************************************************)
(* Proofs about an exchange through the middleware pipeline, for every     *)
(* pipeline FromEnviron builds, any headers, mutations and unit sizes and  *)
(* every response: the first stage that denies, blocks or fails closed has *)
(* the last word, the one merged decision does to the request what the     *)
(* stages' edits one by one would have done, bodies are what the answers   *)
(* make of them, and framing trailers are left alone.                      *)
(***************************************************************************)
EXTENDS ResponseChain, SequenceTheorems, WellFoundedInduction, TLAPS

-----------------------------------------------------------------------------
(* Induction up to a number, for sets *)

Less == {x \in Nat \X Nat : x[1] < x[2]}

(* Natural numbers have no infinite descent. *)
LEMMA LessWellFounded == IsWellFoundedOn(Less, Nat)
BY NatLessThanWellFounded DEF OpToRel, Less

(* A set with 0 that goes on up to m has all the numbers up to m. *)
LEMMA UpTo ==
  ASSUME NEW m \in Nat, NEW T, 0 \in T, \A n \in 0..(m - 1) : n \in T => n + 1 \in T
  PROVE  0..m \subseteq T
<1> DEFINE Bad == (0..m) \ T
<1> SUFFICES ASSUME Bad # {} PROVE FALSE
  OBVIOUS
<1>1. Bad \subseteq Nat
  OBVIOUS
<1>2. PICK x \in Bad : \A y \in Bad : ~(<<y, x>> \in Less)
  <2> HIDE DEF Bad
  <2> QED
    BY <1>1, LessWellFounded, WFMin
<1>3. \A y \in Bad : ~(y < x)
  BY <1>1, <1>2 DEF Less
<1>4. x - 1 \in 0..(m - 1) /\ x - 1 \in T
  BY <1>3
<1> QED
  BY <1>4

-----------------------------------------------------------------------------
(* Edits of headers, one after the other *)

(* f[n] are the headers after n of the edits ws, for n up to k. *)
Edits(f, k, h, name, ws) ==
    f = [n \in 0..k |->
            IF n = 0 THEN h ELSE Edit(f[n - 1], name[ws[n][2].name], ws[n][2], ws[n][1])]

(* Such an f exists, and Edited is where it ends. *)
LEMMA EditsExist ==
  ASSUME NEW h, NEW name, NEW ws, Len(ws) \in Nat
  PROVE  \E f : Edits(f, Len(ws), h, name, ws) /\ Edited(h, name, ws) = f[Len(ws)]
<1> DEFINE m == Len(ws)
           T == {k \in 0..m : \E f : Edits(f, k, h, name, ws)}
<1>1. 0 \in T
  <2>1. Edits([n \in 0..0 |-> h], 0, h, name, ws)
    BY DEF Edits
  <2> QED
    BY <2>1
<1>2. ASSUME NEW k \in 0..(m - 1), k \in T PROVE k + 1 \in T
  <2>1. PICK f : Edits(f, k, h, name, ws)
    BY <1>2
  <2> DEFINE last == Edit(f[k], name[ws[k + 1][2].name], ws[k + 1][2], ws[k + 1][1])
             g == [n \in 0..(k + 1) |-> IF n = k + 1 THEN last ELSE f[n]]
  <2>2. \A n \in 0..(k + 1) :
           g[n] = IF n = 0 THEN h ELSE Edit(g[n - 1], name[ws[n][2].name], ws[n][2], ws[n][1])
    BY <2>1 DEF Edits
  <2>3. Edits(g, k + 1, h, name, ws)
    BY <2>2 DEF Edits
  <2>4. k + 1 \in 0..m
    OBVIOUS
  <2> HIDE DEF g
  <2> QED
    BY <2>3, <2>4
<1> DEFINE g == CHOOSE f : Edits(f, Len(ws), h, name, ws)
<1>3. Edits(g, Len(ws), h, name, ws)
  <2>1. m \in Nat
    OBVIOUS
  <2> HIDE DEF T, m
  <2>2. 0..m \subseteq T
    BY <1>1, <1>2, <2>1, UpTo
  <2>3. m \in T
    BY <2>1, <2>2
  <2> QED
    BY <2>3 DEF T, m
<1>4. Edited(h, name, ws) = g[Len(ws)]
  BY DEF Edited, Edits
<1> HIDE DEF g
<1> QED
  BY <1>3, <1>4

(* Step by step. *)
LEMMA EditsSteps ==
  ASSUME NEW m \in Nat, NEW f, NEW h, NEW name, NEW ws, Edits(f, m, h, name, ws)
  PROVE  /\ f[0] = h
         /\ \A j \in 0..(m - 1) :
               f[j + 1] = Edit(f[j], name[ws[j + 1][2].name], ws[j + 1][2], ws[j + 1][1])
<1> DEFINE G(n) == IF n = 0 THEN h
                   ELSE Edit(f[n - 1], name[ws[n][2].name], ws[n][2], ws[n][1])
<1>1. f = [n \in 0..m |-> G(n)]
  BY DEF Edits
<1>2. G(0) = h
  OBVIOUS
<1>3. ASSUME NEW j \in 0..(m - 1)
      PROVE  G(j + 1) = Edit(f[j], name[ws[j + 1][2].name], ws[j + 1][2], ws[j + 1][1])
  OBVIOUS
<1> HIDE DEF G
<1>4. \A n \in 0..m : f[n] = G(n)
  BY <1>1
<1>5. 0 \in 0..m /\ \A j \in 0..(m - 1) : j + 1 \in 0..m
  OBVIOUS
<1> QED
  BY <1>2, <1>3, <1>4, <1>5

(* What every single edit keeps to, all of them do. *)
LEMMA EditedWithin ==
  ASSUME NEW h, NEW name, NEW ws, Len(ws) \in Nat, NEW T, h \in T,
         \A t \in T : \A n \in 1..Len(ws) :
            Edit(t, name[ws[n][2].name], ws[n][2], ws[n][1]) \in T
  PROVE  Edited(h, name, ws) \in T
<1>1. PICK f : Edits(f, Len(ws), h, name, ws) /\ Edited(h, name, ws) = f[Len(ws)]
  BY EditsExist
<1> DEFINE m == Len(ws)
           G == {n \in 0..m : f[n] \in T}
<1>2. 0 \in G
  BY <1>1 DEF Edits
<1>3. ASSUME NEW n \in 0..(m - 1), n \in G PROVE n + 1 \in G
  <2>1. f[n + 1] = Edit(f[n], name[ws[n + 1][2].name], ws[n + 1][2], ws[n + 1][1])
    BY <1>1, EditsSteps
  <2>2. n + 1 \in 1..Len(ws) /\ f[n] \in T
    BY <1>3
  <2> QED
    BY <2>1, <2>2
<1>4. 0..m \subseteq G
  <2>1. m \in Nat
    OBVIOUS
  <2> HIDE DEF G, m
  <2> QED
    BY <1>2, <1>3, <2>1, UpTo
<1> QED
  BY <1>1, <1>4

(* The same of the view and the accumulated headers, in Pipeline.Run. *)
Views(f, k, i0, seen, ms) ==
    f = [n \in 0..k |-> IF n = 0 THEN seen ELSE EditSeen(i0, f[n - 1], ms[n])]

(* They exist, and SeenAfter is where they end. *)
LEMMA ViewsExist ==
  ASSUME NEW i0, NEW seen, NEW ms, Len(ms) \in Nat
  PROVE  \E f : Views(f, Len(ms), i0, seen, ms) /\ SeenAfter(i0, seen, ms) = f[Len(ms)]
<1> DEFINE m == Len(ms)
           T == {k \in 0..m : \E f : Views(f, k, i0, seen, ms)}
<1>1. 0 \in T
  <2>1. Views([n \in 0..0 |-> seen], 0, i0, seen, ms)
    BY DEF Views
  <2> QED
    BY <2>1
<1>2. ASSUME NEW k \in 0..(m - 1), k \in T PROVE k + 1 \in T
  <2>1. PICK f : Views(f, k, i0, seen, ms)
    BY <1>2
  <2> DEFINE last == EditSeen(i0, f[k], ms[k + 1])
             g == [n \in 0..(k + 1) |-> IF n = k + 1 THEN last ELSE f[n]]
  <2>2. \A n \in 0..(k + 1) : g[n] = IF n = 0 THEN seen ELSE EditSeen(i0, g[n - 1], ms[n])
    BY <2>1 DEF Views
  <2>3. Views(g, k + 1, i0, seen, ms)
    BY <2>2 DEF Views
  <2>4. k + 1 \in 0..m
    OBVIOUS
  <2> HIDE DEF g
  <2> QED
    BY <2>3, <2>4
<1> DEFINE g == CHOOSE f : Views(f, Len(ms), i0, seen, ms)
<1>3. Views(g, Len(ms), i0, seen, ms)
  <2>1. m \in Nat
    OBVIOUS
  <2> HIDE DEF T, m
  <2>2. 0..m \subseteq T
    BY <1>1, <1>2, <2>1, UpTo
  <2>3. m \in T
    BY <2>1, <2>2
  <2> QED
    BY <2>3 DEF T, m
<1>4. SeenAfter(i0, seen, ms) = g[Len(ms)]
  BY DEF SeenAfter, Views
<1> HIDE DEF g
<1> QED
  BY <1>3, <1>4

(* What every mutation keeps to in Pipeline.Run, all of them do. *)
LEMMA SeenWithin ==
  ASSUME NEW i0, NEW seen, NEW ms, Len(ms) \in Nat, NEW T, seen \in T,
         \A t \in T : \A n \in 1..Len(ms) : EditSeen(i0, t, ms[n]) \in T
  PROVE  SeenAfter(i0, seen, ms) \in T
<1>1. PICK f : Views(f, Len(ms), i0, seen, ms) /\ SeenAfter(i0, seen, ms) = f[Len(ms)]
  BY ViewsExist
<1> DEFINE m == Len(ms)
           G == {n \in 0..m : f[n] \in T}
<1>2. 0 \in G
  BY <1>1 DEF Views
<1>3. ASSUME NEW n \in 0..(m - 1), n \in G PROVE n + 1 \in G
  BY <1>1, <1>3 DEF Views
<1>4. 0..m \subseteq G
  <2>1. m \in Nat
    OBVIOUS
  <2> HIDE DEF G, m
  <2> QED
    BY <1>2, <1>3, <2>1, UpTo
<1> QED
  BY <1>1, <1>4

-----------------------------------------------------------------------------
(* Types of the request *)

StageType == [kind: {"rejected", "remote", "grpc"}, failClosed: BOOLEAN]

(* The pipelines FromEnviron builds are sequences of stages. *)
LEMMA PipelineType == FromEnviron \subseteq Seq(StageType)
<1> SUFFICES ASSUME NEW p \in FromEnviron PROVE p \in Seq(StageType)
  OBVIOUS
<1> DEFINE F == {<< >>, <<Rejected>>, <<Remote>>, <<Rejected, Remote>>}
           G == {Rejected, Grpc(TRUE), Grpc(FALSE)}
<1>1. PICK x \in F \X SeqsUpTo(G, MaxGrpc) : p = x[1] \o x[2]
  BY DEF FromEnviron
<1>2. Rejected \in StageType /\ Remote \in StageType /\ G \subseteq StageType
  BY DEF Rejected, Remote, Grpc, StageType
<1>3. F \subseteq Seq(StageType)
  <2>1. ASSUME NEW y \in StageType, NEW z \in StageType
        PROVE  {<< >>, <<y>>, <<z>>, <<y, z>>} \subseteq Seq(StageType)
    OBVIOUS
  <2> QED
    BY <1>2, <2>1
<1> HIDE DEF F, G
<1>4. x[2] \in Seq(StageType)
  <2>1. PICK k \in 0..MaxGrpc : x[2] \in [1..k -> G]
    BY DEF SeqsUpTo
  <2>2. k \in Nat /\ x[2] \in [1..k -> StageType]
    BY <1>2, <2>1, ChainAssumption
  <2> QED
    BY <2>2
<1>5. x[1] \in Seq(StageType)
  BY <1>3
<1> QED
  BY <1>1, <1>4, <1>5

(* Lists of mutations. *)
LEMMA ListType ==
  ASSUME NEW ms \in Lists
  PROVE  /\ ms \in Seq(Mutations) /\ Len(ms) \in Nat /\ DOMAIN ms = 1..Len(ms)
         /\ \A n \in 1..Len(ms) : ms[n] \in Mutations
         /\ \A n \in 1..Len(ms) : ms[n].name \in Spellings
                 /\ ms[n].op \in {"remove", "set", "append", "skip"}
<1>1. PICK k \in 0..MaxList : ms \in [1..k -> Mutations]
  BY DEF Lists, SeqsUpTo
<1>2. k \in Nat
  BY ChainAssumption
<1>3. ms \in Seq(Mutations)
  BY <1>1, <1>2
<1>4. /\ Len(ms) \in Nat /\ DOMAIN ms = 1..Len(ms)
      /\ \A n \in 1..Len(ms) : ms[n] \in Mutations
  BY <1>3
<1>5. \A m \in Mutations :
         m.name \in Spellings /\ m.op \in {"remove", "set", "append", "skip"}
  BY DEF Mutations
<1> QED
  BY <1>3, <1>4, <1>5

(* One edit, by a writer that is one of the stages. *)
LEMMA EditType ==
  ASSUME NEW K, NEW V, NEW h \in [K -> Seq(V)], NEW x, NEW m, NEW k \in V
  PROVE  /\ Edit(h, x, m, k) \in [K -> Seq(V)]
         /\ \A y \in K : y # x => Edit(h, x, m, k)[y] = h[y]
         /\ x \in K /\ m.op = "remove" => Edit(h, x, m, k)[x] = Absent
<1> DEFINE v(o) == IF m.op = "remove" THEN Absent
                   ELSE IF m.op = "append" THEN Append(o, k)
                   ELSE IF m.op = "skip" /\ o # Absent THEN o
                   ELSE <<k>>
<1>1. \A o \in Seq(V) : v(o) \in Seq(V)
  <2> SUFFICES ASSUME NEW o \in Seq(V) PROVE v(o) \in Seq(V)
    OBVIOUS
  <2>1. << >> \in Seq(V) /\ <<k>> \in Seq(V) /\ Append(o, k) \in Seq(V)
    OBVIOUS
  <2> QED
    BY <2>1 DEF Absent
<1>2. Edit(h, x, m, k) = [h EXCEPT ![x] = v(h[x])]
  BY DEF Edit
<1>3. m.op = "remove" => v(h[x]) = Absent
  OBVIOUS
<1> HIDE DEF v
<1>4. h[x] \in Seq(V) \/ x \notin K
  OBVIOUS
<1> QED
  BY <1>1, <1>2, <1>3, <1>4

(* The list of a stage's edits. *)
LEMMA WrittenType ==
  ASSUME NEW k, NEW ms, Len(ms) \in Nat, DOMAIN ms = 1..Len(ms)
  PROVE  /\ Len(Written(k, ms)) = Len(ms) /\ DOMAIN Written(k, ms) = 1..Len(ms)
         /\ \A n \in 1..Len(ms) : Written(k, ms)[n][1] = k /\ Written(k, ms)[n][2] = ms[n]
BY DEF Written

(* Headers stay headers under a stage's edits. *)
LEMMA EditedType ==
  ASSUME NEW K, NEW V, NEW h \in [K -> Seq(V)], NEW name, NEW k \in V,
         NEW ms, Len(ms) \in Nat, DOMAIN ms = 1..Len(ms)
  PROVE  Edited(h, name, Written(k, ms)) \in [K -> Seq(V)]
<1> DEFINE T == [K -> Seq(V)]
           ws == Written(k, ms)
<1>1. /\ Len(ws) \in Nat /\ Len(ws) = Len(ms)
      /\ \A n \in 1..Len(ws) : ws[n][1] = k
  BY WrittenType
<1>2. \A t \in T : \A n \in 1..Len(ws) :
         Edit(t, name[ws[n][2].name], ws[n][2], ws[n][1]) \in T
  <2> SUFFICES ASSUME NEW t \in T, NEW n \in 1..Len(ws)
               PROVE  Edit(t, name[ws[n][2].name], ws[n][2], ws[n][1]) \in T
    OBVIOUS
  <2>1. ws[n][1] = k
    BY <1>1
  <2>2. \A x, m : Edit(t, x, m, k) \in T
    BY EditType
  <2> QED
    BY <2>1, <2>2
<1>3. h \in T
  OBVIOUS
<1> HIDE DEF T, ws
<1>4. Edited(h, name, ws) \in T
  BY <1>1, <1>2, <1>3, EditedWithin
<1> QED
  BY <1>4 DEF T, ws

(* What Pipeline.Run keeps while a stage's mutations are gone through. *)
LEMMA SeenType ==
  ASSUME NEW V, NEW k \in V, NEW v \in [Spellings -> Seq(V)], NEW a \in [Spellings -> Seq(V)],
         NEW ms \in Lists
  PROVE  SeenAfter(k, [view |-> v, acc |-> a], ms) \in
             [view: [Spellings -> Seq(V)], acc: [Spellings -> Seq(V)]]
<1> DEFINE H == [Spellings -> Seq(V)]
           T == [view: H, acc: H]
<1>1. ASSUME NEW t \in T, NEW n \in 1..Len(ms) PROVE EditSeen(k, t, ms[n]) \in T
  <2> DEFINE e == Edit(t.view, ms[n].name, ms[n], k)
             b == IF ms[n].op = "remove" \/ (ms[n].op = "skip" /\ t.view[ms[n].name] # Absent)
                  THEN t.acc ELSE [t.acc EXCEPT ![ms[n].name] = e[ms[n].name]]
  <2>1. e \in H
    BY EditType
  <2>2. ms[n].name \in Spellings
    BY ListType
  <2>3. EditSeen(k, t, ms[n]) = [view |-> e, acc |-> b]
    BY DEF EditSeen
  <2> HIDE DEF e
  <2>4. b \in H
    BY <2>1, <2>2
  <2> HIDE DEF b
  <2> QED
    BY <2>1, <2>3, <2>4
<1>2. [view |-> v, acc |-> a] \in T
  OBVIOUS
<1>3. Len(ms) \in Nat
  BY ListType
<1> HIDE DEF T
<1>4. SeenAfter(k, [view |-> v, acc |-> a], ms) \in T
  BY <1>1, <1>2, <1>3, SeenWithin
<1> QED
  BY <1>4 DEF T

-----------------------------------------------------------------------------
(* What a list of edits does to one header *)

(* One edit m of stage k, on a header with the values o. *)
One(o, m, k) ==
    IF m.op = "remove" THEN Absent
    ELSE IF m.op = "append" THEN Append(o, k)
    ELSE IF m.op = "skip" /\ o # Absent THEN o
    ELSE <<k>>

(* An edit is about one header. *)
LEMMA EditAt ==
  ASSUME NEW K, NEW h, DOMAIN h = K, NEW x, NEW m, NEW k
  PROVE  /\ DOMAIN Edit(h, x, m, k) = K
         /\ \A y \in K : Edit(h, x, m, k)[y] = IF y = x THEN One(h[y], m, k) ELSE h[y]
<1>1. Edit(h, x, m, k) = [h EXCEPT ![x] = One(@, m, k)]
  BY DEF Edit, One
<1> QED
  BY <1>1

(* The edits of ws and then those of vs are the edits of both lists. *)
LEMMA EditedConcat ==
  ASSUME NEW S, NEW ws \in Seq(S), NEW vs \in Seq(S), NEW h, NEW name
  PROVE  Edited(h, name, ws \o vs) = Edited(Edited(h, name, ws), name, vs)
<1> DEFINE us == ws \o vs
           n == Len(ws)
           m == Len(vs)
<1>1. /\ Len(us) = n + m /\ n \in Nat /\ m \in Nat
      /\ \A j \in 1..n : us[j] = ws[j]
      /\ \A j \in 1..m : us[n + j] = vs[j]
  OBVIOUS
<1> HIDE DEF us, n, m
<1>2. PICK f : Edits(f, n + m, h, name, us) /\ Edited(h, name, us) = f[n + m]
  BY <1>1, EditsExist
<1>3. PICK g : Edits(g, n, h, name, ws) /\ Edited(h, name, ws) = g[n]
  BY <1>1, EditsExist DEF n
<1>4. PICK e : Edits(e, m, g[n], name, vs) /\ Edited(g[n], name, vs) = e[m]
  BY <1>1, EditsExist DEF m
<1>f. f[0] = h /\ \A j \in 0..(n + m - 1) :
         f[j + 1] = Edit(f[j], name[us[j + 1][2].name], us[j + 1][2], us[j + 1][1])
  BY <1>1, <1>2, EditsSteps
<1>g. g[0] = h /\ \A j \in 0..(n - 1) :
         g[j + 1] = Edit(g[j], name[ws[j + 1][2].name], ws[j + 1][2], ws[j + 1][1])
  BY <1>1, <1>3, EditsSteps
<1>e. e[0] = g[n] /\ \A j \in 0..(m - 1) :
         e[j + 1] = Edit(e[j], name[vs[j + 1][2].name], vs[j + 1][2], vs[j + 1][1])
  BY <1>1, <1>4, EditsSteps
<1> DEFINE A == {j \in 0..n : f[j] = g[j]}
           B == {j \in 0..m : f[n + j] = e[j]}
<1>5. 0..n \subseteq A
  <2>1. 0 \in A
    BY <1>1, <1>f, <1>g
  <2>2. ASSUME NEW j \in 0..(n - 1), j \in A PROVE j + 1 \in A
    <3>1. us[j + 1] = ws[j + 1] /\ j \in 0..(n + m - 1) /\ j + 1 \in 0..n
      BY <1>1
    <3> QED
      BY <1>f, <1>g, <2>2, <3>1
  <2> HIDE DEF A
  <2> QED
    BY <1>1, <2>1, <2>2, UpTo
<1>6. 0..m \subseteq B
  <2>1. 0 \in B
    BY <1>1, <1>5, <1>e
  <2>2. ASSUME NEW j \in 0..(m - 1), j \in B PROVE j + 1 \in B
    <3>1. /\ us[n + (j + 1)] = vs[j + 1] /\ n + j \in 0..(n + m - 1) /\ j + 1 \in 0..m
          /\ n + (j + 1) = (n + j) + 1
      BY <1>1
    <3> QED
      BY <1>f, <1>e, <2>2, <3>1
  <2> HIDE DEF B
  <2> QED
    BY <1>1, <2>1, <2>2, UpTo
<1>7. f[n + m] = e[m]
  BY <1>1, <1>6
<1> QED
  BY <1>2, <1>3, <1>4, <1>7 DEF us

(* A header after the edits depends on that header alone. *)
LEMMA EditedLocal ==
  ASSUME NEW K, NEW x \in K, NEW g, NEW h, DOMAIN g = K, DOMAIN h = K, g[x] = h[x],
         NEW name, NEW ws, Len(ws) \in Nat
  PROVE  /\ Edited(g, name, ws)[x] = Edited(h, name, ws)[x]
         /\ DOMAIN Edited(h, name, ws) = K
<1> DEFINE m == Len(ws)
<1>1. m \in Nat
  OBVIOUS
<1>2. PICK a : Edits(a, m, g, name, ws) /\ Edited(g, name, ws) = a[m]
  BY EditsExist
<1>3. PICK b : Edits(b, m, h, name, ws) /\ Edited(h, name, ws) = b[m]
  BY EditsExist
<1> HIDE DEF m
<1>a. a[0] = g /\ \A j \in 0..(m - 1) :
         a[j + 1] = Edit(a[j], name[ws[j + 1][2].name], ws[j + 1][2], ws[j + 1][1])
  BY <1>1, <1>2, EditsSteps
<1>b. b[0] = h /\ \A j \in 0..(m - 1) :
         b[j + 1] = Edit(b[j], name[ws[j + 1][2].name], ws[j + 1][2], ws[j + 1][1])
  BY <1>1, <1>3, EditsSteps
<1> DEFINE T == {j \in 0..m : DOMAIN a[j] = K /\ DOMAIN b[j] = K /\ a[j][x] = b[j][x]}
<1>4. 0 \in T
  BY <1>1, <1>a, <1>b
<1>5. ASSUME NEW j \in 0..(m - 1), j \in T PROVE j + 1 \in T
  <2> DEFINE y == name[ws[j + 1][2].name]
             w == ws[j + 1][2]
             k == ws[j + 1][1]
  <2>1. a[j + 1] = Edit(a[j], y, w, k) /\ b[j + 1] = Edit(b[j], y, w, k)
    BY <1>a, <1>b
  <2> HIDE DEF y, w, k
  <2>2. DOMAIN a[j] = K /\ DOMAIN b[j] = K /\ a[j][x] = b[j][x]
    BY <1>5
  <2>3. /\ DOMAIN Edit(a[j], y, w, k) = K
        /\ Edit(a[j], y, w, k)[x] = IF x = y THEN One(a[j][x], w, k) ELSE a[j][x]
    BY <2>2, EditAt
  <2>4. /\ DOMAIN Edit(b[j], y, w, k) = K
        /\ Edit(b[j], y, w, k)[x] = IF x = y THEN One(b[j][x], w, k) ELSE b[j][x]
    BY <2>2, EditAt
  <2>5. j + 1 \in 0..m
    BY <1>1
  <2> QED
    BY <2>1, <2>2, <2>3, <2>4, <2>5
<1>6. m \in T
  <2> HIDE DEF T
  <2>1. 0..m \subseteq T
    BY <1>1, <1>4, <1>5, UpTo
  <2> QED
    BY <1>1, <2>1
<1> QED
  BY <1>2, <1>3, <1>6

(* A header that is only ever removed, and was gone before or is removed   *)
(* at all, is gone.                                                        *)
LEMMA EditedRemoves ==
  ASSUME NEW K, NEW x \in K, NEW h, DOMAIN h = K, NEW name, NEW ws, Len(ws) \in Nat,
         \A j \in 1..Len(ws) : name[ws[j][2].name] = x => ws[j][2].op = "remove",
         h[x] = Absent \/ \E j \in 1..Len(ws) : name[ws[j][2].name] = x
  PROVE  Edited(h, name, ws)[x] = Absent
<1> DEFINE m == Len(ws)
<1>1. m \in Nat
  OBVIOUS
<1>2. PICK a : Edits(a, m, h, name, ws) /\ Edited(h, name, ws) = a[m]
  BY EditsExist
<1>3. /\ \A j \in 1..m : name[ws[j][2].name] = x => ws[j][2].op = "remove"
      /\ h[x] = Absent \/ \E j \in 1..m : name[ws[j][2].name] = x
  OBVIOUS
<1> HIDE DEF m
<1>a. a[0] = h /\ \A j \in 0..(m - 1) :
         a[j + 1] = Edit(a[j], name[ws[j + 1][2].name], ws[j + 1][2], ws[j + 1][1])
  BY <1>1, <1>2, EditsSteps
<1> DEFINE Gone(j) == h[x] = Absent \/ \E l \in 1..j : name[ws[l][2].name] = x
           T == {j \in 0..m : DOMAIN a[j] = K /\ (Gone(j) => a[j][x] = Absent)}
<1>4. 0 \in T
  BY <1>1, <1>a
<1>5. ASSUME NEW j \in 0..(m - 1), j \in T PROVE j + 1 \in T
  <2> DEFINE y == name[ws[j + 1][2].name]
             w == ws[j + 1][2]
             k == ws[j + 1][1]
  <2>1. a[j + 1] = Edit(a[j], y, w, k) /\ DOMAIN a[j] = K
    BY <1>a, <1>5
  <2>2. y = x => w.op = "remove"
    BY <1>1, <1>3
  <2>3. Gone(j + 1) => Gone(j) \/ y = x
    <3>1. \A l \in 1..(j + 1) : l \in 1..j \/ l = j + 1
      OBVIOUS
    <3> QED
      BY <3>1
  <2>4. Gone(j) => a[j][x] = Absent
    BY <1>5
  <2>5. j + 1 \in 0..m
    BY <1>1
  <2> HIDE DEF y, w, k, Gone
  <2>6. /\ DOMAIN Edit(a[j], y, w, k) = K
        /\ Edit(a[j], y, w, k)[x] = IF x = y THEN One(a[j][x], w, k) ELSE a[j][x]
    BY <2>1, EditAt
  <2>7. Gone(j + 1) => a[j + 1][x] = Absent
    BY <2>1, <2>2, <2>3, <2>4, <2>6 DEF One
  <2> QED
    BY <2>1, <2>5, <2>6, <2>7
<1>6. m \in T
  <2> HIDE DEF T
  <2>1. 0..m \subseteq T
    BY <1>1, <1>4, <1>5, UpTo
  <2> QED
    BY <1>1, <2>1
<1> QED
  BY <1>2, <1>3, <1>6

(* The map shown to the stages follows the header, as long as the header   *)
(* is spelt canonically.                                                   *)
LEMMA SeenAsEdited ==
  ASSUME NEW n \in Names, NEW k, NEW v, DOMAIN v = Spellings, NEW a, NEW h, DOMAIN h = Names,
         v[n] = h[n], NEW ms \in Lists,
         \A j \in 1..Len(ms) : Canon[ms[j].name] = n => ms[j].name = n
  PROVE  SeenAfter(k, [view |-> v, acc |-> a], ms).view[n] = Edited(h, Canon, Written(k, ms))[n]
<1> DEFINE m == Len(ms)
           ws == Written(k, ms)
           seen == [view |-> v, acc |-> a]
<1>1. m \in Nat /\ DOMAIN ms = 1..m /\ n \in Spellings /\ Canon[n] = n
  BY ListType, ChainAssumption
<1>2. PICK f : Views(f, m, k, seen, ms) /\ SeenAfter(k, seen, ms) = f[m]
  BY <1>1, ViewsExist
<1>3. Len(ws) = m /\ \A j \in 1..m : ws[j][1] = k /\ ws[j][2] = ms[j]
  BY <1>1, WrittenType
<1>4. PICK g : Edits(g, m, h, Canon, ws) /\ Edited(h, Canon, ws) = g[m]
  <2> HIDE DEF ws
  <2>1. Len(ws) \in Nat
    BY <1>1, <1>3
  <2> QED
    BY <1>3, <2>1, EditsExist
<1>5. seen.view = v
  OBVIOUS
<1>6. \A j \in 1..m : Canon[ms[j].name] = n => ms[j].name = n
  OBVIOUS
<1> HIDE DEF m, ws, seen
<1>f. f[0] = seen /\ \A j \in 0..(m - 1) : f[j + 1] = EditSeen(k, f[j], ms[j + 1])
  BY <1>1, <1>2 DEF Views
<1>g. g[0] = h /\ \A j \in 0..(m - 1) :
         g[j + 1] = Edit(g[j], Canon[ms[j + 1].name], ms[j + 1], k)
  <2>1. \A j \in 0..(m - 1) : j + 1 \in 1..m
    BY <1>1
  <2> QED
    BY <1>1, <1>3, <1>4, <2>1, EditsSteps
<1> DEFINE T == {j \in 0..m : /\ DOMAIN f[j].view = Spellings /\ DOMAIN g[j] = Names
                              /\ f[j].view[n] = g[j][n]}
<1>7. 0 \in T
  BY <1>1, <1>5, <1>f, <1>g
<1>8. ASSUME NEW j \in 0..(m - 1), j \in T PROVE j + 1 \in T
  <2> DEFINE w == ms[j + 1]
  <2>1. /\ DOMAIN f[j].view = Spellings /\ DOMAIN g[j] = Names /\ f[j].view[n] = g[j][n]
        /\ j + 1 \in 0..m /\ j + 1 \in 1..m
    BY <1>1, <1>8
  <2>2. f[j + 1].view = Edit(f[j].view, w.name, w, k) /\ g[j + 1] = Edit(g[j], Canon[w.name], w, k)
    <3>1. EditSeen(k, f[j], w).view = Edit(f[j].view, w.name, w, k)
      BY DEF EditSeen
    <3> HIDE DEF w
    <3> QED
      BY <1>f, <1>g, <3>1 DEF w
  <2>3. Canon[w.name] = n <=> w.name = n
    BY <1>1, <1>6, <2>1
  <2> HIDE DEF w
  <2>4. /\ DOMAIN Edit(f[j].view, w.name, w, k) = Spellings
        /\ Edit(f[j].view, w.name, w, k)[n] =
              IF n = w.name THEN One(f[j].view[n], w, k) ELSE f[j].view[n]
    BY <1>1, <2>1, EditAt
  <2>5. /\ DOMAIN Edit(g[j], Canon[w.name], w, k) = Names
        /\ Edit(g[j], Canon[w.name], w, k)[n] =
              IF n = Canon[w.name] THEN One(g[j][n], w, k) ELSE g[j][n]
    BY <2>1, EditAt
  <2>6. f[j + 1].view[n] = g[j + 1][n]
    BY <2>1, <2>2, <2>3, <2>4, <2>5
  <2> QED
    BY <2>1, <2>2, <2>4, <2>5, <2>6
<1>9. m \in T
  <2> HIDE DEF T
  <2>1. 0..m \subseteq T
    BY <1>1, <1>7, <1>8, UpTo
  <2> QED
    BY <1>1, <2>1
<1> QED
  BY <1>2, <1>4, <1>9 DEF seen, ws

-----------------------------------------------------------------------------
(* The request *)

Writers == 0..Len(stages)

(* The stages asked so far let the request pass. *)
Asked ==
    /\ pc \in {"run", "forwarded"} =>
          \A j \in 1..Len(verdicts) :
              /\ verdicts[j] # "deny"
              /\ stages[j].kind # "rejected"
              /\ verdicts[j] = "fail" => ~stages[j].failClosed
    /\ pc = "forwarded" => i = Len(stages) + 1

QInv == TypeOK /\ Asked

(* Nobody was asked yet. *)
LEMMA RequestInit == Init => QInv
<1> SUFFICES ASSUME Init PROVE QInv
  OBVIOUS
<1>1. stages \in Seq(StageType) /\ Len(stages) \in Nat
  BY PipelineType DEF Init
<1>2. \A q \in SeqsUpTo({0}, MaxClient) : q \in Seq(Writers)
  <2> SUFFICES ASSUME NEW q \in SeqsUpTo({0}, MaxClient) PROVE q \in Seq(Writers)
    OBVIOUS
  <2>1. PICK k \in 0..MaxClient : q \in [1..k -> {0}]
    BY DEF SeqsUpTo
  <2>2. k \in Nat /\ q \in [1..k -> Writers]
    BY <1>1, <2>1, ChainAssumption DEF Writers
  <2> QED
    BY <2>2
<1>3. client \in Headers(Names)
  BY <1>2 DEF Init, Headers, Writers
<1>4. Absent \in Seq(Writers)
  BY DEF Absent
<1>5. \A s \in Names : client[s] # Absent => <<client[s][1]>> \in Seq(Writers)
  <2> SUFFICES ASSUME NEW s \in Names, client[s] # Absent PROVE <<client[s][1]>> \in Seq(Writers)
    OBVIOUS
  <2>1. client[s] \in Seq(Writers)
    BY <1>3 DEF Headers, Writers
  <2>2. client[s][1] \in Writers
    BY <2>1 DEF Absent
  <2> HIDE DEF Writers
  <2> QED
    BY <2>2
<1>6. view \in Headers(Spellings)
  BY <1>4, <1>5 DEF Init, Headers, Writers
<1>7. acc \in Headers(Spellings)
  BY <1>4 DEF Init, Headers, Writers
<1>8. /\ wire \in [header: Headers(Names), body: 0..Len(stages)]
      /\ body \in 0..Len(stages)
  BY <1>1, <1>3 DEF Init
<1>9. touched \in [Names -> SUBSET ({"map", "list", "remove", "rewrite"} \X Spellings)]
  BY DEF Init
<1>10. verdicts \in Seq({"allow", "skip", "fail", "deny"}) /\ Len(verdicts) = 0
  BY DEF Init
<1>11. muts \in Seq((1..Len(stages)) \X Mutations)
  BY DEF Init
<1>12. TypeOK
  BY <1>1, <1>3, <1>6, <1>7, <1>8, <1>9, <1>10, <1>11 DEF Init, TypeOK
<1> QED
  BY <1>10, <1>12 DEF QInv, Asked, Init

(* An answer that allows keeps the types. *)
LEMMA AllowType ==
  ASSUME TypeOK, NEW set \in SUBSET Spellings, NEW ms \in Lists, NEW gone \in SUBSET Spellings,
         NEW b \in BOOLEAN, Allow(set, ms, gone, b)
  PROVE  /\ intended' \in Headers(Names)
         /\ view' \in Headers(Spellings) /\ acc' \in Headers(Spellings)
         /\ muts' \in Seq((1..Len(stages)) \X Mutations)
         /\ removed' \subseteq Spellings
         /\ body' \in 0..Len(stages)
         /\ touched' \in [Names -> SUBSET ({"map", "list", "remove", "rewrite"} \X Spellings)]
<1> DEFINE mapped == set \ {ms[j].name : j \in DOMAIN ms}
           Put(h) == [s \in Spellings |-> IF s \in mapped THEN <<i>> ELSE h[s]]
           seen == SeenAfter(i, [view |-> Put(view), acc |-> Put(acc)], ms)
           Spells(n, S) == {s \in S : Canon[s] = n}
           start == [n \in Names |-> IF Spells(n, mapped) = {} THEN intended[n] ELSE <<i>>]
           listed == Edited(start, Canon, Written(i, ms))
           On(n) == {j \in DOMAIN ms : Canon[ms[j].name] = n}
<1>1. /\ muts' = muts \o Written(i, ms)
      /\ removed' = removed \cup gone
      /\ view' = [s \in Spellings |-> IF s \in gone THEN Absent ELSE seen.view[s]]
      /\ acc' = seen.acc
      /\ body' = IF b THEN i ELSE body
      /\ intended' = [n \in Names |-> IF Spells(n, gone) = {} THEN listed[n] ELSE Absent]
      /\ touched' = [n \in Names |->
                      touched[n] \cup {<<"map", s>> : s \in Spells(n, mapped)}
                          \cup {<<Style(touched[n], ms, j), ms[j].name>> : j \in On(n)}
                          \cup {<<"remove", s>> : s \in Spells(n, gone)}]
  BY DEF Allow
<1>2. Len(stages) \in Nat
  BY PipelineType DEF TypeOK
<1>3. i \in 1..Len(stages)
  BY <1>2 DEF Allow, Answer, TypeOK
<1>4. i \in Writers /\ <<i>> \in Seq(Writers) /\ Absent \in Seq(Writers)
  <2>1. i \in Writers
    BY <1>2, <1>3 DEF Writers
  <2> HIDE DEF Writers
  <2> QED
    BY <2>1 DEF Absent
<1>5. \A h \in [Spellings -> Seq(Writers)] : Put(h) \in [Spellings -> Seq(Writers)]
  BY <1>4
<1>6. seen \in [view: [Spellings -> Seq(Writers)], acc: [Spellings -> Seq(Writers)]]
  <2>1. view \in [Spellings -> Seq(Writers)] /\ acc \in [Spellings -> Seq(Writers)]
    BY DEF TypeOK, Headers, Writers
  <2>2. Put(view) \in [Spellings -> Seq(Writers)] /\ Put(acc) \in [Spellings -> Seq(Writers)]
    BY <1>5, <2>1
  <2> HIDE DEF Put, Writers
  <2> QED
    BY <1>4, <2>2, SeenType
<1>7. start \in [Names -> Seq(Writers)]
  BY <1>4 DEF TypeOK, Headers, Writers
<1>8. listed \in [Names -> Seq(Writers)]
  <2>1. Len(ms) \in Nat /\ DOMAIN ms = 1..Len(ms)
    BY ListType
  <2> HIDE DEF start, Writers
  <2> QED
    BY <1>4, <1>7, <2>1, EditedType
<1>9. view' \in Headers(Spellings) /\ acc' \in Headers(Spellings)
  <2> HIDE DEF seen
  <2> QED
    BY <1>1, <1>4, <1>6 DEF Headers, Writers
<1>10. intended' \in Headers(Names)
  <2> HIDE DEF listed
  <2> QED
    BY <1>1, <1>4, <1>8 DEF Headers, Writers
<1>11. muts' \in Seq((1..Len(stages)) \X Mutations)
  <2>1. /\ Len(ms) \in Nat /\ DOMAIN ms = 1..Len(ms)
        /\ \A n \in 1..Len(ms) : ms[n] \in Mutations
    BY ListType
  <2> DEFINE P == (1..Len(stages)) \X Mutations
  <2>2. Written(i, ms) = [n \in 1..Len(ms) |-> <<i, ms[n]>>]
    BY <2>1 DEF Written
  <2>3. \A n \in 1..Len(ms) : <<i, ms[n]>> \in P
    BY <1>3, <2>1
  <2>4. muts \in Seq(P)
    BY DEF TypeOK
  <2> HIDE DEF P
  <2>5. Written(i, ms) \in Seq(P)
    BY <2>1, <2>2, <2>3
  <2>6. muts' \in Seq(P)
    BY <1>1, <2>4, <2>5
  <2> QED
    BY <2>6 DEF P
<1>12. removed' \subseteq Spellings /\ body' \in 0..Len(stages)
  BY <1>1, <1>2, <1>3 DEF TypeOK
<1>13. touched' \in [Names -> SUBSET ({"map", "list", "remove", "rewrite"} \X Spellings)]
  <2> DEFINE Y == {"map", "list", "remove", "rewrite"} \X Spellings
             Old(n) == touched[n]
             Map(n) == {<<"map", s>> : s \in Spells(n, mapped)}
             List(n) == {<<Style(touched[n], ms, j), ms[j].name>> : j \in On(n)}
             Gone(n) == {<<"remove", s>> : s \in Spells(n, gone)}
  <2>1. \A n \in Names : Old(n) \subseteq Y
    BY DEF TypeOK
  <2>2. \A n \in Names : Map(n) \subseteq Y /\ Gone(n) \subseteq Y
    OBVIOUS
  <2>3. ASSUME NEW n \in Names PROVE List(n) \subseteq Y
    <3>1. ASSUME NEW j \in On(n) PROVE <<Style(touched[n], ms, j), ms[j].name>> \in Y
      <4>1. j \in 1..Len(ms) /\ ms[j].name \in Spellings
        BY ListType
      <4>2. Style(touched[n], ms, j) \in {"map", "list", "remove", "rewrite"}
        BY DEF Style
      <4> QED
        BY <4>1, <4>2
    <3> HIDE DEF Y, On
    <3> QED
      BY <3>1
  <2>4. touched' = [n \in Names |-> Old(n) \cup Map(n) \cup List(n) \cup Gone(n)]
    BY <1>1
  <2> HIDE DEF Y, Old, Map, List, Gone
  <2>5. touched' \in [Names -> SUBSET Y]
    BY <2>1, <2>2, <2>3, <2>4
  <2> QED
    BY <2>5 DEF Y
<1> QED
  BY <1>9, <1>10, <1>11, <1>12, <1>13

(* runMiddleware's merge yields headers. *)
LEMMA MergedType ==
  ASSUME TypeOK, NEW pick \in Picks
  PROVE  Merged(pick) \in Headers(Names)
<1> DEFINE H == [Names -> Seq(Writers)]
           mapped == [n \in Names |-> IF pick[n] \in Unhandled THEN acc[pick[n]] ELSE client[n]]
           listed == Edited(mapped, Canon, muts)
<1>1. Merged(pick) = [n \in Names |-> IF \E s \in removed : Canon[s] = n THEN Absent ELSE listed[n]]
  BY DEF Merged
<1>2. \A n \in Names : pick[n] \in Spellings
  BY DEF Picks
<1>3. mapped \in H
  BY <1>2 DEF TypeOK, Headers, Writers
<1>4. Len(muts) \in Nat /\ \A n \in 1..Len(muts) : muts[n][1] \in Writers
  <2> DEFINE P == (1..Len(stages)) \X Mutations
  <2>1. muts \in Seq(P) /\ Len(stages) \in Nat
    BY PipelineType DEF TypeOK
  <2>2. \A x \in P : x[1] \in Writers
    BY <2>1 DEF Writers
  <2> HIDE DEF P
  <2> QED
    BY <2>1, <2>2
<1>5. \A t \in H : \A n \in 1..Len(muts) :
         Edit(t, Canon[muts[n][2].name], muts[n][2], muts[n][1]) \in H
  <2> SUFFICES ASSUME NEW t \in H, NEW n \in 1..Len(muts)
               PROVE  Edit(t, Canon[muts[n][2].name], muts[n][2], muts[n][1]) \in H
    OBVIOUS
  <2>1. \A x, m, k : k \in Writers => Edit(t, x, m, k) \in H
    BY EditType
  <2> HIDE DEF H, Writers
  <2> QED
    BY <1>4, <2>1
<1>6. listed \in H
  <2> HIDE DEF H, mapped
  <2> QED
    BY <1>3, <1>4, <1>5, EditedWithin
<1>7. Absent \in Seq(Writers)
  BY DEF Absent
<1> HIDE DEF listed
<1> QED
  BY <1>1, <1>6, <1>7 DEF Headers, Writers

(* Every step of the request side preserves the invariant. *)
LEMMA RequestStep == QInv /\ Next => QInv' /\ stages' = stages
<1> SUFFICES ASSUME QInv, Next PROVE QInv' /\ stages' = stages
  OBVIOUS
<1>t. TypeOK /\ Asked
  BY DEF QInv
<1>s. Len(stages) \in Nat /\ \A j \in 1..Len(stages) : stages[j] \in StageType
  BY <1>t, PipelineType DEF TypeOK
<1>v. ASSUME NEW v \in {"allow", "skip", "fail", "deny"}, Answer(v)
      PROVE  /\ i \in 1..Len(stages) /\ pc = "run"
             /\ verdicts' \in Seq({"allow", "skip", "fail", "deny"})
             /\ Len(verdicts) = i - 1 /\ Len(verdicts') = i
             /\ \A j \in 1..(i - 1) : verdicts'[j] = verdicts[j]
             /\ verdicts'[i] = v
  <2> DEFINE Y == {"allow", "skip", "fail", "deny"}
  <2>1. verdicts \in Seq(Y) /\ i \in 1..Len(stages) /\ pc = "run" /\ Len(verdicts) = i - 1
    BY <1>t, <1>s, <1>v DEF TypeOK, Answer
  <2>2. verdicts' = Append(verdicts, v) /\ v \in Y
    BY <1>v DEF Answer
  <2> HIDE DEF Y
  <2>3. /\ verdicts' \in Seq(Y) /\ Len(verdicts') = Len(verdicts) + 1
        /\ \A j \in 1..Len(verdicts) : verdicts'[j] = verdicts[j]
        /\ verdicts'[Len(verdicts) + 1] = v
    BY <2>1, <2>2
  <2> QED
    BY <2>1, <2>3 DEF Y
<1>q. ASSUME NEW v \in {"allow", "skip", "fail"}, Answer(v), stages' = stages,
             stages[i].kind # "rejected", v = "fail" => ~stages[i].failClosed, NextStage
      PROVE  Asked'
  <2>1. /\ pc = "run" /\ Len(verdicts) = i - 1 /\ Len(verdicts') = i /\ i \in Nat
        /\ \A j \in 1..(i - 1) : verdicts'[j] = verdicts[j]
        /\ verdicts'[i] = v
    BY <1>s, <1>v, <1>q
  <2>2. ASSUME NEW j \in 1..i
        PROVE  /\ verdicts'[j] # "deny" /\ stages[j].kind # "rejected"
               /\ verdicts'[j] = "fail" => ~stages[j].failClosed
    <3>1. CASE j = i
      BY <1>q, <2>1, <3>1
    <3>2. CASE j # i
      BY <1>t, <2>1, <3>2 DEF Asked
    <3> QED
      BY <3>1, <3>2
  <2>3. pc' = "run"
    BY <1>q, <2>1 DEF NextStage
  <2> QED
    BY <1>q, <2>1, <2>2, <2>3 DEF Asked
<1>1. CASE StageDeny
  <2>1. /\ i \in 1..Len(stages) /\ verdicts' \in Seq({"allow", "skip", "fail", "deny"})
        /\ Len(verdicts') = i
    BY <1>1, <1>v DEF StageDeny
  <2>2. TypeOK'
    BY <1>1, <1>t, <1>s, <2>1 DEF StageDeny, TypeOK, Headers
  <2> QED
    BY <1>1, <2>2 DEF StageDeny, QInv, Asked
<1>2. CASE StageFail
  <2>1. /\ i \in 1..Len(stages) /\ verdicts' \in Seq({"allow", "skip", "fail", "deny"})
        /\ Len(verdicts') = i /\ pc = "run"
    BY <1>2, <1>v DEF StageFail
  <2>2. CASE stages[i].failClosed
    <3>1. TypeOK'
      BY <1>2, <1>t, <1>s, <2>1, <2>2 DEF StageFail, TypeOK, Headers
    <3> QED
      BY <1>2, <2>2, <3>1 DEF StageFail, QInv, Asked
  <2>3. CASE ~stages[i].failClosed
    <3>1. TypeOK'
      BY <1>2, <1>t, <1>s, <2>1, <2>3 DEF StageFail, NextStage, TypeOK, Headers
    <3>2. Asked'
      BY <1>2, <1>q, <2>3 DEF StageFail
    <3> QED
      BY <1>2, <3>1, <3>2 DEF StageFail, QInv
  <2> QED
    BY <2>2, <2>3
<1>3. CASE StageSkip
  <2>1. /\ i \in 1..Len(stages) /\ verdicts' \in Seq({"allow", "skip", "fail", "deny"})
        /\ Len(verdicts') = i /\ pc = "run"
    BY <1>3, <1>v DEF StageSkip
  <2>2. TypeOK'
    BY <1>3, <1>t, <1>s, <2>1 DEF StageSkip, NextStage, TypeOK, Headers
  <2>3. Asked'
    BY <1>3, <1>q DEF StageSkip
  <2> QED
    BY <1>3, <2>2, <2>3 DEF StageSkip, QInv
<1>4. ASSUME NEW set \in SUBSET Spellings, NEW gone \in SUBSET Spellings, NEW ms \in Lists,
             NEW b \in BOOLEAN, Allow(set, ms, gone, b), stages[i].kind # "rejected"
      PROVE  QInv' /\ stages' = stages
  <2>1. Answer("allow") /\ NextStage /\ UNCHANGED <<stages, client, wire>>
    BY <1>4 DEF Allow
  <2>2. /\ i \in 1..Len(stages) /\ verdicts' \in Seq({"allow", "skip", "fail", "deny"})
        /\ Len(verdicts') = i /\ pc = "run"
    BY <1>v, <2>1
  <2>3. /\ intended' \in Headers(Names)
        /\ view' \in Headers(Spellings) /\ acc' \in Headers(Spellings)
        /\ muts' \in Seq((1..Len(stages)) \X Mutations)
        /\ removed' \subseteq Spellings
        /\ body' \in 0..Len(stages)
        /\ touched' \in [Names -> SUBSET ({"map", "list", "remove", "rewrite"} \X Spellings)]
    BY <1>t, <1>4, AllowType
  <2>4. TypeOK'
    BY <1>t, <1>s, <2>1, <2>2, <2>3 DEF TypeOK, Headers, NextStage
  <2>5. Asked'
    BY <1>4, <1>q, <2>1
  <2> QED
    BY <2>1, <2>4, <2>5 DEF QInv
<1>5. ASSUME NEW b \in BOOLEAN, NEW ms \in Lists, GrpcAllow(ms, b)
      PROVE  QInv' /\ stages' = stages
  <2> DEFINE Named(removal) == {ms[j].name : j \in {j \in DOMAIN ms :
                                                 (ms[j].op = "remove") = removal}}
  <2>1. Named(TRUE) \in SUBSET Spellings /\ Named(FALSE) \in SUBSET Spellings
    BY ListType
  <2>2. Allow(Named(FALSE), ms, Named(TRUE), b) /\ stages[i].kind = "grpc"
    BY <1>5 DEF GrpcAllow
  <2> HIDE DEF Named
  <2> QED
    BY <1>4, <2>1, <2>2
<1>6. ASSUME NEW b \in BOOLEAN, NEW set \in SUBSET Spellings, NEW gone \in SUBSET Spellings,
             NEW ms \in Lists, RemoteAllow(set, ms, gone, b)
      PROVE  QInv' /\ stages' = stages
  BY <1>4, <1>6 DEF RemoteAllow
<1>7. ASSUME NEW pick \in Picks, Finish(pick) PROVE QInv' /\ stages' = stages
  <2>1. Merged(pick) \in Headers(Names)
    BY <1>t, MergedType
  <2>2. i = Len(stages) + 1 /\ pc = "run"
    BY <1>t, <1>s, <1>7 DEF Finish, TypeOK
  <2>3. TypeOK'
    BY <1>t, <1>s, <1>7, <2>1 DEF Finish, TypeOK, Headers
  <2>4. Asked'
    BY <1>t, <1>7, <2>2 DEF Finish, Asked
  <2> QED
    BY <1>7, <2>3, <2>4 DEF Finish, QInv
<1> QED
  BY <1>1, <1>2, <1>3, <1>5, <1>6, <1>7 DEF Next

-----------------------------------------------------------------------------
(* The merged decision *)

Named(s) == \E j \in 1..Len(muts) : muts[j][2].name = s
Dropped(n) == \E s \in removed : Canon[s] = n

(* Only the first stage sets headers by map, on a request nobody edited. *)
Fresh ==
    i = 1 => /\ muts = << >> /\ removed = {}
             /\ \A n \in Names : touched[n] = {}
             /\ \A s \in Spellings : acc[s] = Absent

(* What runMiddleware sets from the map is what that stage set. *)
Mapped ==
    /\ \A s \in Spellings : acc[s] # Absent /\ ~Named(s) =>
          acc[s] = <<1>> /\ <<"map", s>> \in touched[Canon[s]]
    /\ \A n \in Names, s \in Spellings : <<"map", s>> \in touched[n] =>
          Canon[s] = n /\ acc[s] # Absent

(* Every edit in the decision has left its style. *)
Styled ==
    /\ \A j \in 1..Len(muts) : \E e \in touched[Canon[muts[j][2].name]] :
          e[1] \in IF muts[j][2].op = "remove" THEN {"remove"} ELSE {"list", "rewrite"}
    /\ \A s \in removed : \E e \in touched[Canon[s]] : e[1] = "remove"

(* The headers before the mutations: the client's, or those set by map. *)
First == [n \in Names |-> IF "map" \in Styles(n) THEN <<1>> ELSE client[n]]

(* Carried out stage by stage, the edits so far do what they would do in   *)
(* one go.                                                                 *)
Accumulated ==
    \A n \in Names : Clean(n) =>
        intended[n] = IF Dropped(n) THEN Absent ELSE Edited(First, Canon, muts)[n]

Canonical(n) == (\A e \in touched[n] : e[2] = n) /\ Len(client[n]) <= 1

(* Stages are shown what the edits so far make of the request. *)
Shown == \A n \in Names : Canonical(n) => view[n] = intended[n]

Sent ==
    pc = "forwarded" => /\ wire.body = body
                        /\ \A n \in Names : Clean(n) => wire.header[n] = intended[n]

Merging == Fresh /\ Mapped /\ Styled /\ Accumulated /\ Shown /\ Sent

(* No edits, no change. *)
LEMMA EditedNothing ==
  ASSUME NEW h, NEW name
  PROVE  Edited(h, name, << >>) = h
<1>1. Len(<< >>) = 0
  OBVIOUS
<1>2. PICK f : Edits(f, 0, h, name, << >>) /\ Edited(h, name, << >>) = f[0]
  BY <1>1, EditsExist
<1> QED
  BY <1>2, EditsSteps

(* The remote stage is the first one, unless a refusal comes before it. *)
LEMMA RemoteFirst ==
  ASSUME NEW p \in FromEnviron, NEW k \in 1..Len(p), p[k].kind = "remote"
  PROVE  k = 1 \/ p[1].kind = "rejected"
<1> DEFINE F == {<< >>, <<Rejected>>, <<Remote>>, <<Rejected, Remote>>}
           G == {Rejected, Grpc(TRUE), Grpc(FALSE)}
<1>1. PICK x \in F \X SeqsUpTo(G, MaxGrpc) : p = x[1] \o x[2]
  BY DEF FromEnviron
<1>2. x[1] \in F /\ x[2] \in SeqsUpTo(G, MaxGrpc)
  BY <1>1
<1>3. \A y \in G : y.kind # "remote"
  BY DEF Rejected, Grpc
<1> HIDE DEF G
<1>4. x[2] \in Seq(G)
  <2>1. PICK l \in 0..MaxGrpc : x[2] \in [1..l -> G]
    BY <1>2 DEF SeqsUpTo
  <2>2. l \in Nat
    BY ChainAssumption
  <2> QED
    BY <2>1, <2>2
<1>5. Rejected.kind = "rejected"
  BY DEF Rejected
<1>6. CASE x[1] = << >>
  <2>1. p = x[2]
    BY <1>1, <1>4, <1>6
  <2> QED
    BY <1>3, <1>4, <2>1
<1>7. CASE x[1] = <<Rejected>> \/ x[1] = <<Rejected, Remote>>
  <2>1. ASSUME NEW a, NEW w, w = <<a>> \/ \E c : w = <<a, c>> PROVE (w \o x[2])[1] = a
    <3>1. CASE w = <<a>>
      BY <1>4, <3>1
    <3>2. CASE \E c : w = <<a, c>>
      BY <1>4, <3>2
    <3> QED
      BY <2>1, <3>1, <3>2
  <2>2. p[1] = Rejected
    BY <1>1, <1>7, <2>1
  <2> QED
    BY <1>5, <2>2
<1>8. CASE x[1] = <<Remote>>
  <2>1. ASSUME NEW a PROVE /\ Len(<<a>> \o x[2]) = 1 + Len(x[2]) /\ Len(x[2]) \in Nat
                           /\ \A l \in 2..(1 + Len(x[2])) : (<<a>> \o x[2])[l] = x[2][l - 1]
    BY <1>4
  <2>2. /\ Len(p) = 1 + Len(x[2]) /\ Len(x[2]) \in Nat
        /\ \A l \in 2..(1 + Len(x[2])) : p[l] = x[2][l - 1]
    BY <1>1, <1>8, <2>1
  <2>3. \A l \in 1..Len(x[2]) : x[2][l] \in G
    BY <1>4
  <2>4. k # 1 => k \in 2..(1 + Len(x[2])) /\ k - 1 \in 1..Len(x[2])
    BY <2>2
  <2> QED
    BY <1>3, <2>2, <2>3, <2>4
<1> QED
  BY <1>2, <1>6, <1>7, <1>8

(* In the accumulated map c, made of a by the mutations ms, the names they *)
(* do not mention are as they were, and nothing is taken out.              *)
Keeps(c, a, ms) ==
    \A s \in Spellings : /\ (\A j \in 1..Len(ms) : ms[j].name # s) => c[s] = a[s]
                         /\ a[s] # Absent => c[s] # Absent

(* A list that was appended to is not empty. *)
LEMMA Appended == ASSUME NEW V, NEW o \in Seq(V), NEW k \in V PROVE Append(o, k) # << >>
<1>1. Len(Append(o, k)) = Len(o) + 1 /\ Len(o) \in Nat
  OBVIOUS
<1>2. Len(<< >>) = 0
  OBVIOUS
<1>3. Len(Append(o, k)) # Len(<< >>)
  BY <1>1, <1>2
<1> QED
  BY <1>3, Zenon

(* So it is after a stage's mutations. *)
LEMMA AccAfter ==
  ASSUME NEW V, NEW k \in V, NEW v \in [Spellings -> Seq(V)], NEW a \in [Spellings -> Seq(V)],
         NEW ms \in Lists
  PROVE  Keeps(SeenAfter(k, [view |-> v, acc |-> a], ms).acc, a, ms)
<1> SUFFICES ASSUME NEW s \in Spellings
             PROVE  /\ (\A j \in 1..Len(ms) : ms[j].name # s) =>
                          SeenAfter(k, [view |-> v, acc |-> a], ms).acc[s] = a[s]
                    /\ a[s] # Absent => SeenAfter(k, [view |-> v, acc |-> a], ms).acc[s] # Absent
  BY DEF Keeps
<1> DEFINE H == [Spellings -> Seq(V)]
           free == \A j \in 1..Len(ms) : ms[j].name # s
           T == {t \in [view: H, acc: H] : /\ free => t.acc[s] = a[s]
                                           /\ a[s] # Absent => t.acc[s] # Absent}
           seen == [view |-> v, acc |-> a]
<1>1. ASSUME NEW t \in T, NEW n \in 1..Len(ms) PROVE EditSeen(k, t, ms[n]) \in T
  <2> DEFINE m == ms[n]
             e == Edit(t.view, m.name, m, k)
             idle == m.op = "remove" \/ (m.op = "skip" /\ t.view[m.name] # Absent)
             c == IF idle THEN t.acc ELSE [t.acc EXCEPT ![m.name] = e[m.name]]
  <2>1. EditSeen(k, t, m) = [view |-> e, acc |-> c]
    BY DEF EditSeen
  <2>2. /\ m.name \in Spellings /\ (free => m.name # s)
        /\ m.op \in {"remove", "set", "append", "skip"}
    BY ListType
  <2>3. /\ t.view \in H /\ t.acc \in H /\ (free => t.acc[s] = a[s])
        /\ a[s] # Absent => t.acc[s] # Absent
    OBVIOUS
  <2> HIDE DEF m, free
  <2>4. e \in H
    BY <2>3, EditType
  <2>5. ~idle => e[m.name] # Absent
    <3>1. e[m.name] = One(t.view[m.name], m, k)
      <4>1. DOMAIN t.view = Spellings
        BY <2>3
      <4> QED
        BY <2>2, <4>1, EditAt
    <3>2. t.view[m.name] \in Seq(V)
      BY <2>2, <2>3
    <3>3. \A o \in Seq(V) : Append(o, k) # << >>
      BY Appended
    <3>4. <<k>> # << >>
      OBVIOUS
    <3> HIDE DEF e
    <3> QED
      BY <2>2, <3>1, <3>2, <3>3, <3>4 DEF One, Absent
  <2> HIDE DEF e, idle
  <2>6. c \in H /\ (free => c[s] = a[s]) /\ (a[s] # Absent => c[s] # Absent)
    <3>1. CASE idle
      BY <2>3, <3>1
    <3>2. CASE ~idle
      <4>1. e[m.name] \in Seq(V)
        BY <2>2, <2>4
      <4>2. c = [t.acc EXCEPT ![m.name] = e[m.name]]
        BY <3>2
      <4>3. /\ c \in H /\ c[m.name] = e[m.name]
            /\ \A z \in Spellings : z # m.name => c[z] = t.acc[z]
        BY <2>2, <2>3, <4>1, <4>2
      <4> HIDE DEF c
      <4> QED
        BY <2>2, <2>3, <2>5, <3>2, <4>3
    <3> QED
      BY <3>1, <3>2
  <2> HIDE DEF c
  <2>7. [view |-> e, acc |-> c] \in T
    BY <2>4, <2>6
  <2> QED
    BY <2>1, <2>7 DEF m
<1>2. seen \in T
  OBVIOUS
<1>3. Len(ms) \in Nat
  BY ListType
<1> HIDE DEF T, seen
<1>4. SeenAfter(k, seen, ms) \in T
  BY <1>1, <1>2, <1>3, SeenWithin
<1> QED
  BY <1>4 DEF T, seen

Mapping(set, ms) == set \ {ms[j].name : j \in DOMAIN ms}

(* The request, the view and the accumulated map after the map of an       *)
(* answer, before its mutations.                                           *)
Begin(set, ms) ==
    [n \in Names |-> IF \E s \in Mapping(set, ms) : Canon[s] = n THEN <<i>> ELSE intended[n]]
Put(h, set, ms) == [s \in Spellings |-> IF s \in Mapping(set, ms) THEN <<i>> ELSE h[s]]
Seen(set, ms) == SeenAfter(i, [view |-> Put(view, set, ms), acc |-> Put(acc, set, ms)], ms)

(* What an answer that allows does, header by header. *)
Allowed(set, ms, gone) ==
    /\ \A n \in Names :
          intended'[n] = IF \E s \in gone : Canon[s] = n THEN Absent
                         ELSE Edited(Begin(set, ms), Canon, Written(i, ms))[n]
    /\ \A s \in Spellings : view'[s] = IF s \in gone THEN Absent ELSE Seen(set, ms).view[s]
    /\ acc' = Seen(set, ms).acc
    /\ Put(view, set, ms) \in [Spellings -> Seq(Writers)]
    /\ Put(acc, set, ms) \in [Spellings -> Seq(Writers)]
    /\ i \in 1..Len(stages) /\ i \in Writers /\ i' = i + 1
    /\ pc = "run" /\ pc' = "run" /\ client' = client
    /\ muts' = muts \o Written(i, ms) /\ removed' = removed \cup gone

(* Allow does that. *)
LEMMA AllowEdits ==
  ASSUME TypeOK, NEW set \in SUBSET Spellings, NEW ms \in Lists, NEW gone \in SUBSET Spellings,
         NEW b \in BOOLEAN, Allow(set, ms, gone, b)
  PROVE  Allowed(set, ms, gone)
<1> DEFINE mapped == set \ {ms[j].name : j \in DOMAIN ms}
           With(h) == [s \in Spellings |-> IF s \in mapped THEN <<i>> ELSE h[s]]
           Spells(x, S) == {s \in S : Canon[s] = x}
           begin == [x \in Names |-> IF Spells(x, mapped) = {} THEN intended[x] ELSE <<i>>]
           seen == SeenAfter(i, [view |-> With(view), acc |-> With(acc)], ms)
           listed == Edited(begin, Canon, Written(i, ms))
<1>1. /\ view' = [s \in Spellings |-> IF s \in gone THEN Absent ELSE seen.view[s]]
      /\ acc' = seen.acc
      /\ intended' = [x \in Names |-> IF Spells(x, gone) = {} THEN listed[x] ELSE Absent]
      /\ muts' = muts \o Written(i, ms) /\ removed' = removed \cup gone
      /\ Answer("allow") /\ NextStage /\ client' = client
  BY DEF Allow
<1>2. mapped = Mapping(set, ms)
  BY DEF Mapping
<1>3. begin = Begin(set, ms)
  BY <1>2 DEF Begin
<1>4. Len(stages) \in Nat
  BY PipelineType DEF TypeOK
<1>5. i \in 1..Len(stages) /\ i' = i + 1 /\ pc = "run" /\ pc' = "run"
  BY <1>1, <1>4 DEF Answer, NextStage, TypeOK
<1>6. i \in Writers
  BY <1>4, <1>5 DEF Writers
<1>7. view \in [Spellings -> Seq(Writers)] /\ acc \in [Spellings -> Seq(Writers)]
  BY DEF TypeOK, Headers, Writers
<1>8. With(view) \in [Spellings -> Seq(Writers)] /\ With(acc) \in [Spellings -> Seq(Writers)]
  <2> HIDE DEF Writers, mapped
  <2>1. <<i>> \in Seq(Writers)
    BY <1>6
  <2> QED
    BY <1>7, <2>1
<1>9. \A n \in Names :
         intended'[n] = IF \E s \in gone : Canon[s] = n THEN Absent ELSE listed[n]
  <2> HIDE DEF listed
  <2> QED
    BY <1>1
<1>10. listed = Edited(Begin(set, ms), Canon, Written(i, ms))
  <2> HIDE DEF begin
  <2> QED
    BY <1>3
<1>11. \A s \in Spellings : view'[s] = IF s \in gone THEN Absent ELSE seen.view[s]
  <2> HIDE DEF seen
  <2> QED
    BY <1>1
<1>12. With(view) = Put(view, set, ms) /\ With(acc) = Put(acc, set, ms)
  BY <1>2 DEF Put
<1>13. seen = Seen(set, ms)
  <2> HIDE DEF With
  <2> QED
    BY <1>12 DEF Seen
<1> HIDE DEF listed, mapped, seen, With
<1> QED
  BY <1>1, <1>5, <1>6, <1>8, <1>9, <1>10, <1>11, <1>12, <1>13 DEF Allowed

(* The styles an answer leaves. *)
Marked(set, ms, gone) ==
    /\ \A n \in Names : touched[n] \subseteq touched'[n]
    /\ \A s \in Mapping(set, ms) : <<"map", s>> \in touched'[Canon[s]]
    /\ \A s \in gone : <<"remove", s>> \in touched'[Canon[s]]
    /\ \A j \in 1..Len(ms) : /\ ms[j].name \in Spellings /\ Canon[ms[j].name] \in Names
                             /\ <<Style(touched[Canon[ms[j].name]], ms, j), ms[j].name>>
                                   \in touched'[Canon[ms[j].name]]
    /\ \A n \in Names, s \in Spellings : <<"map", s>> \in touched'[n] =>
          <<"map", s>> \in touched[n] \/ (s \in Mapping(set, ms) /\ Canon[s] = n)

(* Allow leaves them. *)
LEMMA AllowStyles ==
  ASSUME TypeOK, NEW set \in SUBSET Spellings, NEW ms \in Lists, NEW gone \in SUBSET Spellings,
         NEW b \in BOOLEAN, Allow(set, ms, gone, b)
  PROVE  Marked(set, ms, gone)
<1> DEFINE mapped == set \ {ms[j].name : j \in DOMAIN ms}
           Spells(n, S) == {s \in S : Canon[s] = n}
           On(n) == {j \in DOMAIN ms : Canon[ms[j].name] = n}
           Map(n) == {<<"map", s>> : s \in Spells(n, mapped)}
           List(n) == {<<Style(touched[n], ms, j), ms[j].name>> : j \in On(n)}
           Gone(n) == {<<"remove", s>> : s \in Spells(n, gone)}
<1>1. touched' = [n \in Names |-> touched[n] \cup Map(n) \cup List(n) \cup Gone(n)]
  BY DEF Allow
<1>2. mapped = Mapping(set, ms) /\ mapped \subseteq Spellings
  BY DEF Mapping
<1>3. \A s \in Spellings : Canon[s] \in Names
  BY ChainAssumption
<1>4. \A s \in mapped : <<"map", s>> \in Map(Canon[s])
  OBVIOUS
<1>5. \A s \in gone : <<"remove", s>> \in Gone(Canon[s])
  OBVIOUS
<1>6. ASSUME NEW j \in 1..Len(ms)
      PROVE  /\ ms[j].name \in Spellings
             /\ <<Style(touched[Canon[ms[j].name]], ms, j), ms[j].name>> \in List(Canon[ms[j].name])
  BY ListType
<1>7. ASSUME NEW n \in Names, NEW s \in Spellings
      PROVE  /\ <<"map", s>> \in Map(n) => s \in mapped /\ Canon[s] = n
             /\ <<"map", s>> \notin List(n) /\ <<"map", s>> \notin Gone(n)
  <2>1. \A j : Style(touched[n], ms, j) # "map"
    BY DEF Style
  <2>2. <<"map", s>> \notin List(n)
    <3> DEFINE St(j) == Style(touched[n], ms, j)
    <3>1. \A j : St(j) # "map"
      BY <2>1
    <3>2. List(n) = {<<St(j), ms[j].name>> : j \in On(n)}
      OBVIOUS
    <3> HIDE DEF St, On, List
    <3> QED
      BY <3>1, <3>2
  <2> QED
    BY <2>2
<1> HIDE DEF Map, List, Gone, mapped
<1> QED
  BY <1>1, <1>2, <1>3, <1>4, <1>5, <1>6, <1>7 DEF Marked

(* Styles only grow, so a name that is clean was clean before. *)
LEMMA CleanBefore ==
  ASSUME NEW n \in Names, touched[n] \subseteq touched'[n]
  PROVE  /\ \A t : t \in Styles(n) => t \in Styles(n)'
         /\ Clean(n)' => Clean(n)
<1>1. \A t : t \in Styles(n) => t \in Styles(n)'
  BY DEF Styles
<1> QED
  BY <1>1 DEF Clean

(* Where the mutations of an answer stand in the decision. *)
LEMMA AllowMuts ==
  ASSUME TypeOK, NEW ms \in Lists, i \in 1..Len(stages), muts' = muts \o Written(i, ms)
  PROVE  /\ Len(muts) \in Nat /\ Len(ms) \in Nat /\ Len(muts') = Len(muts) + Len(ms)
         /\ \A j \in 1..Len(muts) : muts'[j] = muts[j] /\ muts[j][2].name \in Spellings
         /\ \A j \in 1..Len(ms) : muts'[Len(muts) + j][2] = ms[j]
         /\ muts \in Seq((1..Len(stages)) \X Mutations)
         /\ Written(i, ms) \in Seq((1..Len(stages)) \X Mutations)
         /\ \A s : Named(s)' <=> Named(s) \/ \E j \in 1..Len(ms) : ms[j].name = s
<1> DEFINE P == (1..Len(stages)) \X Mutations
           ws == Written(i, ms)
           n == Len(muts)
           m == Len(ms)
<1>1. m \in Nat /\ DOMAIN ms = 1..m /\ \A j \in 1..m : ms[j] \in Mutations
  BY ListType
<1>2. Len(ws) = m /\ \A j \in 1..m : ws[j][1] = i /\ ws[j][2] = ms[j]
  BY <1>1, WrittenType
<1>3. ws \in Seq(P)
  <2>1. ws = [j \in 1..m |-> <<i, ms[j]>>]
    BY <1>1 DEF Written
  <2>2. \A j \in 1..m : <<i, ms[j]>> \in P
    BY <1>1
  <2> HIDE DEF P, ws
  <2> QED
    BY <1>1, <2>1, <2>2
<1>4. muts \in Seq(P)
  BY DEF TypeOK
<1>5. \A x \in P : x[2].name \in Spellings
  BY DEF Mutations
<1> HIDE DEF P, ws, n, m
<1>6. n \in Nat /\ \A j \in 1..n : muts[j][2].name \in Spellings
  BY <1>4, <1>5 DEF n
<1>7. Len(muts') = n + m /\ (\A j \in 1..n : muts'[j] = muts[j])
      /\ \A j \in 1..m : muts'[n + j] = ws[j]
  <2>1. muts' = muts \o ws
    BY DEF ws
  <2>2. /\ Len(muts \o ws) = Len(muts) + Len(ws)
        /\ \A j \in 1..Len(muts) : (muts \o ws)[j] = muts[j]
        /\ \A j \in 1..Len(ws) : (muts \o ws)[Len(muts) + j] = ws[j]
    BY <1>3, <1>4
  <2> QED
    BY <1>2, <2>1, <2>2 DEF n
<1>8. \A j \in 1..m : muts'[n + j][2] = ms[j]
  BY <1>2, <1>7
<1>9. ASSUME NEW s PROVE Named(s)' <=> Named(s) \/ \E j \in 1..m : ms[j].name = s
  <2>1. ASSUME Named(s)' PROVE Named(s) \/ \E j \in 1..m : ms[j].name = s
    <3>1. PICK j \in 1..(n + m) : muts'[j][2].name = s
      BY <1>7, <2>1 DEF Named
    <3>2. CASE j \in 1..n
      BY <1>7, <3>1, <3>2 DEF Named, n
    <3>3. CASE j - n \in 1..m
      <4>1. n + (j - n) = j
        BY <1>1, <1>6
      <4> QED
        BY <1>8, <3>1, <3>3, <4>1
    <3> QED
      BY <1>1, <1>6, <3>2, <3>3
  <2>2. Named(s) => Named(s)'
    <3> SUFFICES ASSUME NEW j \in 1..n, muts[j][2].name = s PROVE Named(s)'
      BY DEF Named, n
    <3>1. j \in 1..(n + m) /\ muts'[j][2].name = s
      BY <1>1, <1>6, <1>7
    <3> QED
      BY <1>7, <3>1 DEF Named
  <2>3. ASSUME NEW j \in 1..m, ms[j].name = s PROVE Named(s)'
    <3>1. n + j \in 1..(n + m)
      BY <1>1, <1>6
    <3>2. muts'[n + j][2].name = s
      BY <1>8, <2>3
    <3> QED
      BY <1>7, <3>1, <3>2 DEF Named
  <2> QED
    BY <2>1, <2>2, <2>3
<1> QED
  BY <1>1, <1>3, <1>4, <1>6, <1>7, <1>8, <1>9 DEF P, ws, n, m

(* The map and the styles after an answer. *)
LEMMA AllowMapped ==
  ASSUME TypeOK, Mapped, Styled, NEW set \in SUBSET Spellings, NEW ms \in Lists,
         NEW gone \in SUBSET Spellings, NEW b \in BOOLEAN, Allow(set, ms, gone, b),
         Mapping(set, ms) # {} => i = 1
  PROVE  Mapped' /\ Styled'
<1> DEFINE mp == Mapping(set, ms)
           put == Put(acc, set, ms)
<1>c. \A s \in Spellings : Canon[s] \in Names
  BY ChainAssumption
<1>1. /\ acc' = Seen(set, ms).acc
      /\ Put(view, set, ms) \in [Spellings -> Seq(Writers)]
      /\ put \in [Spellings -> Seq(Writers)]
      /\ i \in 1..Len(stages) /\ i \in Writers
      /\ muts' = muts \o Written(i, ms) /\ removed' = removed \cup gone
  <2>1. Allowed(set, ms, gone)
    BY AllowEdits
  <2> QED
    BY <2>1 DEF Allowed
<1>2. /\ \A n \in Names : touched[n] \subseteq touched'[n]
      /\ \A s \in mp : <<"map", s>> \in touched'[Canon[s]]
      /\ \A s \in gone : <<"remove", s>> \in touched'[Canon[s]]
      /\ \A j \in 1..Len(ms) : /\ ms[j].name \in Spellings /\ Canon[ms[j].name] \in Names
                               /\ <<Style(touched[Canon[ms[j].name]], ms, j), ms[j].name>>
                                     \in touched'[Canon[ms[j].name]]
      /\ \A n \in Names, s \in Spellings : <<"map", s>> \in touched'[n] =>
            <<"map", s>> \in touched[n] \/ (s \in mp /\ Canon[s] = n)
  <2>1. Marked(set, ms, gone)
    BY AllowStyles
  <2> QED
    BY <2>1 DEF Marked
<1>3. /\ Len(muts) \in Nat /\ Len(ms) \in Nat /\ Len(muts') = Len(muts) + Len(ms)
      /\ \A j \in 1..Len(muts) : muts'[j] = muts[j] /\ muts[j][2].name \in Spellings
      /\ \A j \in 1..Len(ms) : muts'[Len(muts) + j][2] = ms[j]
      /\ \A s : Named(s)' <=> Named(s) \/ \E j \in 1..Len(ms) : ms[j].name = s
  BY <1>1, AllowMuts
<1>4. ASSUME NEW s \in Spellings
      PROVE  /\ (\A j \in 1..Len(ms) : ms[j].name # s) => acc'[s] = put[s]
             /\ put[s] # Absent => acc'[s] # Absent
  <2> DEFINE pv == Put(view, set, ms)
  <2>1. pv \in [Spellings -> Seq(Writers)] /\ put \in [Spellings -> Seq(Writers)] /\ i \in Writers
    BY <1>1
  <2>2. acc' = SeenAfter(i, [view |-> pv, acc |-> put], ms).acc
    BY <1>1 DEF Seen
  <2> HIDE DEF pv, put, Writers
  <2>3. Keeps(SeenAfter(i, [view |-> pv, acc |-> put], ms).acc, put, ms)
    BY <2>1, AccAfter
  <2> QED
    BY <2>2, <2>3 DEF Keeps
<1>5. /\ \A s \in Spellings : put[s] = IF s \in mp THEN <<i>> ELSE acc[s]
      /\ <<i>> # Absent /\ (mp # {} => i = 1)
  BY DEF Absent, Put
<1> HIDE DEF put, mp
<1>7. ASSUME NEW s \in Spellings, acc'[s] # Absent, ~Named(s)'
      PROVE  acc'[s] = <<1>> /\ <<"map", s>> \in touched'[Canon[s]]
  <2>1. ~Named(s) /\ acc'[s] = put[s]
    BY <1>3, <1>4, <1>7
  <2>2. CASE s \in mp
    BY <1>2, <1>5, <2>1, <2>2
  <2>3. CASE s \notin mp
    BY <1>c, <1>2, <1>5, <1>7, <2>1, <2>3 DEF Mapped
  <2> QED
    BY <2>2, <2>3
<1>8. ASSUME NEW n \in Names, NEW s \in Spellings, <<"map", s>> \in touched'[n]
      PROVE  Canon[s] = n /\ acc'[s] # Absent
  <2>1. CASE s \in mp /\ Canon[s] = n
    BY <1>4, <1>5, <2>1
  <2>2. CASE <<"map", s>> \in touched[n]
    BY <1>4, <1>5, <2>2 DEF Mapped
  <2> QED
    BY <1>2, <1>8, <2>1, <2>2
<1>9. Mapped'
  BY <1>7, <1>8 DEF Mapped
<1>10. ASSUME NEW j \in 1..Len(muts')
       PROVE  \E e \in touched'[Canon[muts'[j][2].name]] :
                 e[1] \in IF muts'[j][2].op = "remove" THEN {"remove"} ELSE {"list", "rewrite"}
  <2>1. CASE j \in 1..Len(muts)
    <3>1. /\ Canon[muts[j][2].name] \in Names
          /\ \E e \in touched[Canon[muts[j][2].name]] :
                e[1] \in IF muts[j][2].op = "remove" THEN {"remove"} ELSE {"list", "rewrite"}
      BY <1>c, <1>3, <2>1 DEF Styled
    <3>2. muts'[j] = muts[j]
      BY <1>3, <2>1
    <3> QED
      BY <1>2, <3>1, <3>2, Zenon
  <2>2. CASE j - Len(muts) \in 1..Len(ms)
    <3> DEFINE l == j - Len(muts)
               x == Canon[ms[l].name]
               e == <<Style(touched[x], ms, l), ms[l].name>>
    <3>1. Len(muts) + l = j
      BY <1>3
    <3>2. muts'[j][2] = ms[l]
      BY <1>3, <2>2, <3>1
    <3>3. e \in touched'[x]
      BY <1>2, <2>2
    <3>4. e[1] \in IF ms[l].op = "remove" THEN {"remove"} ELSE {"list", "rewrite"}
      BY DEF Style
    <3> HIDE DEF e, l
    <3> QED
      BY <3>2, <3>3, <3>4
  <2>3. j \in 1..Len(muts) \/ j - Len(muts) \in 1..Len(ms)
    BY <1>3
  <2> QED
    BY <2>1, <2>2, <2>3
<1>11. ASSUME NEW s \in removed' PROVE \E e \in touched'[Canon[s]] : e[1] = "remove"
  <2>1. CASE s \in gone
    <3>1. <<"remove", s>> \in touched'[Canon[s]]
      BY <1>2, <2>1
    <3>2. <<"remove", s>>[1] = "remove"
      OBVIOUS
    <3> QED
      BY <3>1, <3>2
  <2>2. CASE s \in removed
    <3>1. Canon[s] \in Names /\ \E e \in touched[Canon[s]] : e[1] = "remove"
      BY <1>c, <2>2 DEF Styled, TypeOK
    <3> QED
      BY <1>2, <3>1
  <2> QED
    BY <1>1, <1>11, <2>1, <2>2
<1>12. Styled'
  BY <1>10, <1>11 DEF Styled
<1> QED
  BY <1>9, <1>12

(* An answer carried out after the earlier ones does what it would do as   *)
(* the end of one list.                                                    *)
LEMMA AllowAccumulated ==
  ASSUME TypeOK, Fresh, Styled, Accumulated, NEW set \in SUBSET Spellings, NEW ms \in Lists,
         NEW gone \in SUBSET Spellings, NEW b \in BOOLEAN, Allow(set, ms, gone, b),
         Mapping(set, ms) # {} => i = 1,
         touched' \in [Names -> SUBSET ({"map", "list", "remove", "rewrite"} \X Spellings)]
  PROVE  Accumulated'
<1> DEFINE mp == Mapping(set, ms)
           ws == Written(i, ms)
           begin == Begin(set, ms)
<1>1. Allowed(set, ms, gone)
  BY AllowEdits
<1>2. /\ \A n \in Names :
            intended'[n] = IF \E s \in gone : Canon[s] = n THEN Absent
                           ELSE Edited(begin, Canon, ws)[n]
      /\ i \in 1..Len(stages) /\ client' = client
      /\ muts' = muts \o ws /\ removed' = removed \cup gone
  BY <1>1 DEF Allowed
<1>3. /\ \A n \in Names : touched[n] \subseteq touched'[n]
      /\ \A s \in mp : <<"map", s>> \in touched'[Canon[s]]
      /\ \A j \in 1..Len(ms) : <<Style(touched[Canon[ms[j].name]], ms, j), ms[j].name>>
                                     \in touched'[Canon[ms[j].name]]
      /\ \A n \in Names, s \in Spellings : <<"map", s>> \in touched'[n] =>
            <<"map", s>> \in touched[n] \/ (s \in mp /\ Canon[s] = n)
  <2>1. Marked(set, ms, gone)
    BY AllowStyles
  <2> QED
    BY <2>1 DEF Marked
<1>4. /\ muts \in Seq((1..Len(stages)) \X Mutations)
      /\ ws \in Seq((1..Len(stages)) \X Mutations)
  BY <1>2, AllowMuts
<1>5. /\ Len(ws) = Len(ms) /\ Len(ws) \in Nat
      /\ \A j \in 1..Len(ws) : ws[j][2] = ms[j]
  <2>1. Len(ms) \in Nat /\ DOMAIN ms = 1..Len(ms)
    BY ListType
  <2> QED
    BY <2>1, WrittenType
<1>6. DOMAIN begin = Names /\ \A n \in Names :
         begin[n] = IF \E s \in mp : Canon[s] = n THEN <<i>> ELSE intended[n]
  BY DEF Begin
<1> SUFFICES ASSUME NEW n \in Names, Clean(n)'
             PROVE  intended'[n] = IF Dropped(n)' THEN Absent ELSE Edited(First', Canon, muts')[n]
  BY DEF Accumulated
<1>7. Clean(n) /\ touched[n] \subseteq touched'[n]
  BY <1>3, CleanBefore
<1>8. Dropped(n)' <=> Dropped(n) \/ \E s \in gone : Canon[s] = n
  BY <1>2 DEF Dropped
<1>9. intended[n] = IF Dropped(n) THEN Absent ELSE Edited(First, Canon, muts)[n]
  BY <1>7 DEF Accumulated
<1>10. /\ DOMAIN First = Names /\ DOMAIN First' = Names
       /\ First[n] = IF "map" \in Styles(n) THEN <<1>> ELSE client[n]
       /\ First'[n] = IF "map" \in Styles(n)' THEN <<1>> ELSE client[n]
  BY <1>2 DEF First
<1>11. "map" \in Styles(n)' <=> "map" \in Styles(n) \/ \E s \in mp : Canon[s] = n
  <2>1. ASSUME "map" \in Styles(n)' PROVE "map" \in Styles(n) \/ \E s \in mp : Canon[s] = n
    <3>1. PICK e \in touched'[n] : e[1] = "map"
      BY <2>1 DEF Styles
    <3>2. e[2] \in Spellings /\ e = <<"map", e[2]>>
      <4>1. e \in {"map", "list", "remove", "rewrite"} \X Spellings
        OBVIOUS
      <4> QED
        BY <3>1, <4>1
    <3>3. e \in touched[n] \/ (e[2] \in mp /\ Canon[e[2]] = n)
      BY <1>3, <3>2
    <3> QED
      BY <3>1, <3>3 DEF Styles
  <2>2. "map" \in Styles(n) => "map" \in Styles(n)'
    BY <1>7 DEF Styles
  <2>3. ASSUME NEW s \in mp, Canon[s] = n PROVE "map" \in Styles(n)'
    <3>1. <<"map", s>> \in touched'[n]
      BY <1>3, <2>3
    <3> QED
      BY <3>1 DEF Styles
  <2> QED
    BY <2>1, <2>2, <2>3
<1> HIDE DEF mp, ws, begin
<1>12. CASE \E s \in gone : Canon[s] = n
  BY <1>2, <1>8, <1>12
<1>13. CASE Dropped(n) /\ ~\E s \in gone : Canon[s] = n
  <2>1. i # 1 /\ mp = {}
    BY <1>13 DEF Dropped, Fresh, mp
  <2>2. begin[n] = Absent
    BY <1>6, <1>9, <1>13, <2>1
  <2>3. PICK e \in touched[n] : e[1] = "remove"
    BY <1>13 DEF Dropped, Styled
  <2>4. ASSUME NEW j \in 1..Len(ws), Canon[ws[j][2].name] = n PROVE ws[j][2].op = "remove"
    <3>1. <<Style(touched[n], ms, j), ms[j].name>> \in touched'[n]
      <4>1. j \in 1..Len(ms) /\ Canon[ms[j].name] = n
        BY <1>5, <2>4
      <4> QED
        BY <1>3, <4>1
    <3>2. Style(touched[n], ms, j) \in Styles(n)'
      BY <3>1 DEF Styles
    <3>3. Style(touched[n], ms, j) # "rewrite"
      BY <3>2 DEF Clean
    <3> QED
      BY <1>5, <2>3, <3>3 DEF Style
  <2>5. Edited(begin, Canon, ws)[n] = Absent
    BY <1>5, <1>6, <2>2, <2>4, EditedRemoves
  <2> QED
    BY <1>2, <1>8, <1>13, <2>5
<1>14. CASE ~Dropped(n)' /\ \E s \in mp : Canon[s] = n
  <2>1. i = 1 /\ muts = << >>
    BY <1>14 DEF Fresh, mp
  <2>2. muts' = ws
    BY <1>2, <1>4, <2>1
  <2>3. begin[n] = First'[n]
    BY <1>6, <1>10, <1>11, <1>14, <2>1
  <2>4. Edited(begin, Canon, ws)[n] = Edited(First', Canon, ws)[n]
    BY <1>5, <1>6, <1>10, <2>3, EditedLocal
  <2> QED
    BY <1>2, <1>8, <1>14, <2>2, <2>4
<1>15. CASE ~Dropped(n)' /\ ~\E s \in mp : Canon[s] = n
  <2> DEFINE old == Edited(First, Canon, muts)
             now == Edited(First', Canon, muts)
  <2>1. First'[n] = First[n] /\ Len(muts) \in Nat
    BY <1>4, <1>10, <1>11, <1>15
  <2>2. now[n] = old[n] /\ DOMAIN now = Names
    <3>1. Edited(First, Canon, muts)[n] = Edited(First', Canon, muts)[n]
          /\ DOMAIN Edited(First', Canon, muts) = Names
      BY <1>10, <2>1, EditedLocal
    <3> QED
      BY <3>1
  <2>3. Edited(First', Canon, muts') = Edited(now, Canon, ws)
    BY <1>2, <1>4, EditedConcat
  <2>4. begin[n] = old[n]
    BY <1>6, <1>8, <1>9, <1>15
  <2> HIDE DEF old, now
  <2>5. Edited(begin, Canon, ws)[n] = Edited(now, Canon, ws)[n]
    BY <1>5, <1>6, <2>2, <2>4, EditedLocal
  <2> QED
    BY <1>2, <1>8, <1>15, <2>3, <2>5
<1> QED
  BY <1>8, <1>12, <1>13, <1>14, <1>15

(* The map shown to the next stage still follows the request. *)
LEMMA AllowShown ==
  ASSUME TypeOK, Shown, NEW set \in SUBSET Spellings, NEW ms \in Lists,
         NEW gone \in SUBSET Spellings, NEW b \in BOOLEAN, Allow(set, ms, gone, b)
  PROVE  Shown'
<1> DEFINE mp == Mapping(set, ms)
           ws == Written(i, ms)
           begin == Begin(set, ms)
           pv == Put(view, set, ms)
           pa == Put(acc, set, ms)
<1>1. Allowed(set, ms, gone)
  BY AllowEdits
<1>2. /\ \A n \in Names :
            intended'[n] = IF \E s \in gone : Canon[s] = n THEN Absent
                           ELSE Edited(begin, Canon, ws)[n]
      /\ \A s \in Spellings : view'[s] = IF s \in gone THEN Absent ELSE Seen(set, ms).view[s]
      /\ client' = client
  BY <1>1 DEF Allowed
<1>3. /\ \A n \in Names : touched[n] \subseteq touched'[n]
      /\ \A s \in mp : <<"map", s>> \in touched'[Canon[s]]
      /\ \A s \in gone : <<"remove", s>> \in touched'[Canon[s]]
      /\ \A j \in 1..Len(ms) : <<Style(touched[Canon[ms[j].name]], ms, j), ms[j].name>>
                                     \in touched'[Canon[ms[j].name]]
  <2>1. Marked(set, ms, gone)
    BY AllowStyles
  <2> QED
    BY <2>1 DEF Marked
<1> SUFFICES ASSUME NEW n \in Names, Canonical(n)' PROVE view'[n] = intended'[n]
  BY DEF Shown
<1>4. n \in Spellings /\ Canon[n] = n
  BY ChainAssumption
<1>5. \A e \in touched'[n] : e[2] = n
  BY DEF Canonical
<1>6. view[n] = intended[n]
  BY <1>2, <1>3 DEF Canonical, Shown
<1>e. \A t, s : <<t, s>> \in touched'[n] => s = n
  <2> SUFFICES ASSUME NEW t, NEW s, <<t, s>> \in touched'[n] PROVE s = n
    OBVIOUS
  <2>1. <<t, s>>[2] = s
    OBVIOUS
  <2> QED
    BY <1>5, <2>1
<1>7. \A s \in mp \cup gone : Canon[s] = n => s = n
  <2> HIDE DEF mp
  <2> QED
    BY <1>3, <1>e
<1>8. \A j \in 1..Len(ms) : Canon[ms[j].name] = n => ms[j].name = n
  BY <1>3, <1>e
<1>9. pv[n] = begin[n] /\ DOMAIN pv = Spellings /\ DOMAIN begin = Names
  <2>1. (\E s \in mp : Canon[s] = n) <=> n \in mp
    BY <1>4, <1>7
  <2> QED
    BY <1>4, <1>6, <2>1 DEF Put, Begin
<1> HIDE DEF mp, ws, begin, pv, pa
<1>10. SeenAfter(i, [view |-> pv, acc |-> pa], ms).view[n] = Edited(begin, Canon, ws)[n]
  BY <1>8, <1>9, SeenAsEdited DEF ws
<1>11. Seen(set, ms).view[n] = Edited(begin, Canon, ws)[n]
  BY <1>10 DEF Seen, pv, pa
<1>12. (\E s \in gone : Canon[s] = n) <=> n \in gone
  BY <1>4, <1>7
<1> QED
  BY <1>2, <1>4, <1>11, <1>12

(* runMiddleware's merge does what the stages' edits one after the other   *)
(* have done.                                                              *)
LEMMA MergedRight ==
  ASSUME TypeOK, Mapped, Styled, Accumulated, NEW pick \in Picks, NEW n \in Names, Clean(n)
  PROVE  Merged(pick)[n] = intended[n]
<1> DEFINE mapped == [x \in Names |-> IF pick[x] \in Unhandled THEN acc[pick[x]] ELSE client[x]]
<1>1. Merged(pick)[n] = IF Dropped(n) THEN Absent ELSE Edited(mapped, Canon, muts)[n]
  BY DEF Merged, Dropped
<1>2. intended[n] = IF Dropped(n) THEN Absent ELSE Edited(First, Canon, muts)[n]
  BY DEF Accumulated
<1>3. /\ DOMAIN mapped = Names /\ DOMAIN First = Names /\ Len(muts) \in Nat
      /\ mapped[n] = IF pick[n] \in Unhandled THEN acc[pick[n]] ELSE client[n]
      /\ First[n] = IF "map" \in Styles(n) THEN <<1>> ELSE client[n]
      /\ DOMAIN muts = 1..Len(muts)
  BY DEF First, TypeOK
<1> HIDE DEF mapped
<1>4. \A s : s \in Unhandled <=> s \in Spellings /\ acc[s] # Absent /\ ~Named(s)
  BY <1>3 DEF Unhandled, Named
<1>5. /\ pick[n] \in Spellings
      /\ (\E s \in Unhandled : Canon[s] = n) => pick[n] \in Unhandled /\ Canon[pick[n]] = n
      /\ (~\E s \in Unhandled : Canon[s] = n) => pick[n] = n
  BY DEF Picks
<1>6. n \in Spellings /\ Canon[n] = n
  BY ChainAssumption
<1>7. CASE pick[n] \in Unhandled
  <2>1. Canon[pick[n]] = n
    BY <1>5, <1>6, <1>7
  <2>2. acc[pick[n]] = <<1>> /\ <<"map", pick[n]>> \in touched[n]
    BY <1>4, <1>7, <2>1 DEF Mapped
  <2>3. "map" \in Styles(n)
    BY <2>2 DEF Styles
  <2>4. mapped[n] = First[n]
    BY <1>3, <1>7, <2>2, <2>3
  <2>5. Edited(mapped, Canon, muts)[n] = Edited(First, Canon, muts)[n]
    BY <1>3, <2>4, EditedLocal
  <2> QED
    BY <1>1, <1>2, <2>5
<1>8. CASE pick[n] \notin Unhandled /\ "map" \notin Styles(n)
  <2>1. mapped[n] = First[n]
    BY <1>3, <1>8
  <2>2. Edited(mapped, Canon, muts)[n] = Edited(First, Canon, muts)[n]
    BY <1>3, <2>1, EditedLocal
  <2> QED
    BY <1>1, <1>2, <2>2
<1>9. CASE pick[n] \notin Unhandled /\ "map" \in Styles(n)
  <2>1. PICK e \in touched[n] : e[1] = "map"
    BY <1>9 DEF Styles
  <2>2. e[2] \in Spellings /\ <<"map", e[2]>> \in touched[n]
    <3>1. e \in {"map", "list", "remove", "rewrite"} \X Spellings
      BY DEF TypeOK
    <3>2. e = <<"map", e[2]>>
      BY <2>1, <3>1
    <3> QED
      BY <3>1, <3>2
  <2>3. Canon[e[2]] = n /\ acc[e[2]] # Absent
    BY <2>2 DEF Mapped
  <2>4. Named(e[2])
    BY <1>4, <1>5, <1>9, <2>2, <2>3
  <2>5. \E j \in 1..Len(muts) : Canon[muts[j][2].name] = n
    BY <2>3, <2>4 DEF Named
  <2>6. "list" \notin Styles(n) /\ "rewrite" \notin Styles(n)
    BY <1>9 DEF Clean
  <2>7. ASSUME NEW j \in 1..Len(muts), Canon[muts[j][2].name] = n PROVE muts[j][2].op = "remove"
    <3>1. PICK d \in touched[n] :
             d[1] \in IF muts[j][2].op = "remove" THEN {"remove"} ELSE {"list", "rewrite"}
      BY <2>7 DEF Styled
    <3>2. d[1] \in Styles(n)
      BY DEF Styles
    <3> QED
      BY <2>6, <3>1, <3>2
  <2>8. Edited(mapped, Canon, muts)[n] = Absent
    BY <1>3, <2>5, <2>7, EditedRemoves
  <2>9. Edited(First, Canon, muts)[n] = Absent
    BY <1>3, <2>5, <2>7, EditedRemoves
  <2> QED
    BY <1>1, <1>2, <2>8, <2>9
<1> QED
  BY <1>7, <1>8, <1>9

(* An answer that allows preserves it, whoever gave it: only the first     *)
(* stage sets headers by map.                                              *)
LEMMA AllowMerging ==
  ASSUME QInv, Merging, NEW set \in SUBSET Spellings, NEW ms \in Lists,
         NEW gone \in SUBSET Spellings, NEW b \in BOOLEAN, Allow(set, ms, gone, b),
         Mapping(set, ms) # {} => i = 1
  PROVE  Merging'
<1>1. TypeOK /\ Fresh /\ Mapped /\ Styled /\ Accumulated /\ Shown
  BY DEF QInv, Merging
<1>2. Mapped' /\ Styled'
  BY <1>1, AllowMapped
<1>3. Accumulated'
  <2>1. touched' \in [Names -> SUBSET ({"map", "list", "remove", "rewrite"} \X Spellings)]
    BY <1>1, AllowType
  <2> QED
    BY <1>1, <2>1, AllowAccumulated
<1>4. Shown'
  BY <1>1, AllowShown
<1>5. Fresh' /\ Sent'
  <2>1. Allowed(set, ms, gone)
    BY <1>1, AllowEdits
  <2>2. i \in Nat /\ i # 0 /\ i' = i + 1 /\ pc' = "run"
    BY <1>1, <2>1, PipelineType DEF Allowed, TypeOK
  <2> QED
    BY <2>2 DEF Fresh, Sent
<1> QED
  BY <1>2, <1>3, <1>4, <1>5 DEF Merging

(* Nobody has edited anything. *)
LEMMA MergingInit == Init => Merging
<1> SUFFICES ASSUME Init PROVE Merging
  OBVIOUS
<1>1. /\ muts = << >> /\ removed = {} /\ touched = [n \in Names |-> {}] /\ intended = client
      /\ acc = [s \in Spellings |-> Absent] /\ pc = "run"
      /\ view = [s \in Spellings |->
                    IF s \in Names /\ client[s] # Absent THEN <<client[s][1]>> ELSE Absent]
  BY DEF Init
<1>2. Len(muts) = 0
  BY <1>1
<1>3. client \in [Names -> Seq(Writers)]
  BY RequestInit DEF QInv, TypeOK, Headers, Writers
<1>4. Fresh /\ Mapped /\ Styled /\ Sent
  BY <1>1, <1>2 DEF Fresh, Mapped, Styled, Sent
<1>5. Accumulated
  <2>1. First = client
    BY <1>1, <1>3 DEF First, Styles
  <2>2. Edited(First, Canon, muts) = client
    BY <1>1, <2>1, EditedNothing
  <2> QED
    BY <1>1, <2>2 DEF Accumulated, Dropped
<1>6. Shown
  <2> SUFFICES ASSUME NEW n \in Names, Len(client[n]) <= 1 PROVE view[n] = intended[n]
    BY DEF Shown, Canonical
  <2>1. n \in Spellings
    BY ChainAssumption
  <2>2. client[n] \in Seq(Writers)
    BY <1>3
  <2>3. client[n] # << >> => client[n] = <<client[n][1]>>
    <3> DEFINE c == client[n]
    <3>1. c \in Seq(Writers) /\ Len(c) <= 1
      BY <2>2
    <3> HIDE DEF c, Writers
    <3>2. c # << >> => Len(c) = 1
      <4>1. Len(c) \in Nat /\ (Len(c) = 0 => c = << >>)
        BY <3>1, EmptySeq
      <4>2. \A l \in Nat : l <= 1 => l = 0 \/ l = 1
        OBVIOUS
      <4>3. Len(c) = 0 \/ Len(c) = 1
        BY <3>1, <4>1, <4>2
      <4> QED
        BY <4>1, <4>3
    <3>3. Len(c) = 1 => c = <<c[1]>>
      <4> SUFFICES ASSUME Len(c) = 1 PROVE c = <<c[1]>>
        OBVIOUS
      <4>1. DOMAIN c = 1..1 /\ c = [x \in 1..1 |-> c[x]]
        BY <3>1
      <4> QED
        BY <3>1, <4>1
    <3> QED
      BY <3>2, <3>3 DEF c
  <2> QED
    BY <1>1, <2>1, <2>3 DEF Absent
<1> QED
  BY <1>4, <1>5, <1>6 DEF Merging

(* Every step of the request side preserves it. *)
LEMMA MergingStep == QInv /\ Merging /\ Next => Merging'
<1> SUFFICES ASSUME QInv, Merging, Next PROVE Merging'
  OBVIOUS
<1>t. TypeOK /\ Asked /\ stages \in FromEnviron /\ Len(stages) \in Nat /\ i \in Nat /\ i >= 1
  BY PipelineType DEF QInv, TypeOK
<1>1. CASE StageDeny \/ StageFail \/ StageSkip
  <2>1. /\ UNCHANGED <<stages, client, view, acc, muts, removed, body, wire, intended, touched>>
        /\ pc' \in {"run", "denied"} /\ i' \in {i, i + 1}
    BY <1>1 DEF StageDeny, StageFail, StageSkip, NextStage, Answer
  <2>2. Fresh' /\ Sent'
    BY <1>t, <2>1 DEF Merging, Fresh, Sent
  <2>3. Mapped' /\ Styled'
    BY <2>1 DEF Merging, Mapped, Styled, Named
  <2>4. Accumulated'
    <3>1. /\ First' = First
          /\ \A n \in Names : (Clean(n)' <=> Clean(n)) /\ (Dropped(n)' <=> Dropped(n))
      BY <2>1 DEF First, Styles, Clean, Dropped
    <3> QED
      BY <2>1, <3>1 DEF Merging, Accumulated
  <2>5. Shown'
    BY <2>1 DEF Merging, Shown, Canonical
  <2> QED
    BY <2>2, <2>3, <2>4, <2>5 DEF Merging
<1>2. ASSUME NEW b \in BOOLEAN, NEW ms \in Lists, GrpcAllow(ms, b) PROVE Merging'
  <2> DEFINE Spelled(removal) == {ms[j].name : j \in {j \in DOMAIN ms :
                                                 (ms[j].op = "remove") = removal}}
  <2>1. Spelled(TRUE) \in SUBSET Spellings /\ Spelled(FALSE) \in SUBSET Spellings
    BY ListType
  <2>2. Allow(Spelled(FALSE), ms, Spelled(TRUE), b)
    BY <1>2 DEF GrpcAllow
  <2>3. Mapping(Spelled(FALSE), ms) = {}
    BY DEF Mapping
  <2> HIDE DEF Spelled
  <2> QED
    BY <2>1, <2>2, <2>3, AllowMerging
<1>3. ASSUME NEW b \in BOOLEAN, NEW set \in SUBSET Spellings, NEW gone \in SUBSET Spellings,
             NEW ms \in Lists, RemoteAllow(set, ms, gone, b)
      PROVE  Merging'
  <2>1. Allow(set, ms, gone, b) /\ stages[i].kind = "remote" /\ i <= Len(stages)
    BY <1>3 DEF RemoteAllow
  <2>2. pc = "run"
    BY <2>1 DEF Allow, Answer
  <2>3. i = 1 \/ stages[1].kind = "rejected"
    BY <1>t, <2>1, RemoteFirst
  <2>4. Len(verdicts) = i - 1
    BY <1>t, <2>2 DEF TypeOK
  <2>5. i = 1
    BY <1>t, <2>2, <2>3, <2>4 DEF Asked
  <2> QED
    BY <2>1, <2>5, AllowMerging
<1>4. ASSUME NEW pick \in Picks, Finish(pick) PROVE Merging'
  <2>1. /\ UNCHANGED <<stages, i, client, view, acc, muts, removed, body, intended, touched>>
        /\ wire' = [header |-> Merged(pick), body |-> body]
    BY <1>4 DEF Finish
  <2>2. \A n \in Names : Clean(n) => Merged(pick)[n] = intended[n]
    BY <1>t, MergedRight DEF Merging
  <2>3. \A n \in Names : (Clean(n)' <=> Clean(n)) /\ (Dropped(n)' <=> Dropped(n))
    BY <2>1 DEF Styles, Clean, Dropped
  <2>4. Sent'
    BY <2>1, <2>2, <2>3 DEF Sent
  <2>5. Fresh' /\ Mapped' /\ Styled'
    BY <2>1 DEF Merging, Fresh, Mapped, Styled, Named
  <2>6. Accumulated'
    <3>1. First' = First
      BY <2>1 DEF First, Styles
    <3> QED
      BY <2>1, <2>3, <3>1 DEF Merging, Accumulated
  <2>7. Shown'
    BY <2>1 DEF Merging, Shown, Canonical
  <2> QED
    BY <2>4, <2>5, <2>6, <2>7 DEF Merging
<1> QED
  BY <1>1, <1>2, <1>3, <1>4 DEF Next

-----------------------------------------------------------------------------
(* The response: the invariant *)

Responses ==
    [header: Headers(Names), trailer: Headers(TrailerNames), body: Seq(Writers),
     bodyless: BOOLEAN]
AnswerKinds == {"pass", "transform", "skipTransform", "skipPass", "skipDrop"}
AnswerType == [kind: AnswerKinds, data: Seq(Writers)]
Rpcs == {"request", "buffer", "stage", "body", "trailers", "delivered", "denied"}

ResponseTypes ==
    /\ rpc \in Rpcs
    /\ ri \in 1..(Len(stages) + 1)
    /\ resp \in Responses /\ origin \in Responses
    /\ mode \in {"none", "headers", "whole", "stream"}
    /\ output \in Seq(Writers) /\ offset \in Nat /\ base \in Seq(Writers)
    /\ answers \in Seq(AnswerType)
    /\ settled \in Seq({"pass", "fail", "block"})

(* The stages gone through so far let the response pass. *)
Settled ==
    /\ rpc = "request" <=> pc # "returned"
    /\ rpc \in {"request", "buffer"} => settled = << >> /\ ri = 1 /\ mode = "none"
    /\ rpc = "buffer" => resp = origin
    /\ rpc \in {"stage", "body", "trailers"} => Len(settled) = ri - 1 /\ HasResponseStages
    /\ rpc \in {"body", "trailers"} => ri <= Len(stages) /\ stages[ri].kind = "grpc"
    /\ rpc # "denied" => \A k \in 1..Len(settled) :
          /\ settled[k] # "block"
          /\ settled[k] = "fail" => stages[k].kind = "grpc" /\ ~stages[k].failClosed
    /\ rpc = "delivered" => /\ HasResponseStages => Len(settled) = Len(stages)
                            /\ ~HasResponseStages => resp = origin

(* Framing trailers are as the upstream sent them, and none is new. *)
TrailersKept ==
    \A t \in TrailerNames :
        /\ t \in Protected => resp.trailer[t] = origin.trailer[t]
        /\ origin.trailer[t] = Absent => resp.trailer[t] = Absent

(* While a stage is shown the body, it is not replaced, and what was let   *)
(* through so far is what the answers make of the units shown.             *)
Bodies ==
    /\ rpc = "body" =>
          /\ resp.body = base
          /\ Joins(output, Parts)
          /\ offset = Len(answers) * Chunk
          /\ answers # << >> => offset < Len(base) /\ ~Skips(answers[Len(answers)])
    /\ rpc \in {"stage", "trailers", "delivered"} /\ mode # "none" =>
          IF Complete THEN Joins(resp.body, Append(Parts, Unseen)) ELSE resp.body = base
    /\ rpc = "delivered" /\ HasResponseStages => length = Len(resp.body)

XInv == QInv /\ ResponseTypes /\ Settled /\ TrailersKept /\ Bodies

(* There is no response yet. *)
LEMMA ExchangeStart == ExchangeInit => XInv
<1> SUFFICES ASSUME ExchangeInit PROVE XInv
  OBVIOUS
<1>1. QInv
  BY RequestInit DEF ExchangeInit
<1>2. Len(stages) \in Nat /\ pc = "run"
  BY <1>1, PipelineType DEF QInv, TypeOK, ExchangeInit, Init
<1>3. NoResponse \in Responses
  BY DEF NoResponse, Responses, Headers, Absent
<1>4. ResponseTypes
  BY <1>2, <1>3 DEF ExchangeInit, ResponseTypes, Rpcs
<1>5. Settled /\ TrailersKept /\ Bodies
  BY <1>2 DEF ExchangeInit, Settled, TrailersKept, Bodies
<1> QED
  BY <1>1, <1>4, <1>5 DEF XInv

(* Only running requests are settled by the request side. *)
LEMMA RequestRuns == Next => pc = "run" /\ pc' \in {"run", "denied", "forwarded"}
<1> SUFFICES ASSUME Next PROVE pc = "run" /\ pc' \in {"run", "denied", "forwarded"}
  OBVIOUS
<1>1. CASE StageDeny \/ StageFail \/ StageSkip
  BY <1>1 DEF StageDeny, StageFail, StageSkip, Answer, NextStage
<1>2. ASSUME NEW set, NEW ms, NEW gone, NEW b, Allow(set, ms, gone, b)
      PROVE  pc = "run" /\ pc' = "run"
  <2>1. Answer("allow") /\ NextStage
    BY <1>2 DEF Allow
  <2> QED
    BY <2>1 DEF Answer, NextStage
<1>3. ASSUME NEW b, NEW ms, GrpcAllow(ms, b) PROVE pc = "run" /\ pc' = "run"
  BY <1>2, <1>3 DEF GrpcAllow
<1>4. ASSUME NEW set, NEW ms, NEW gone, NEW b, RemoteAllow(set, ms, gone, b)
      PROVE  pc = "run" /\ pc' = "run"
  BY <1>2, <1>4 DEF RemoteAllow
<1>5. ASSUME NEW pick, Finish(pick) PROVE pc = "run" /\ pc' = "forwarded"
  BY <1>5 DEF Finish
<1> QED
  BY <1>1, <1>3, <1>4, <1>5 DEF Next

(* The request is done with when the upstream answers. *)
LEMMA RespondType ==
  ASSUME QInv, NEW r \in Upstream, Respond(r)
  PROVE  QInv'
<1>1. stages \in FromEnviron /\ Len(stages) \in Nat
  BY PipelineType DEF QInv, TypeOK
<1>2. NoResponse.header \in Headers(Names) /\ [s \in Spellings |-> Absent] \in Headers(Spellings)
  BY DEF NoResponse, Headers, Absent
<1>3. << >> \in Seq((1..Len(stages)) \X Mutations) /\ << >> \in Seq({"allow", "skip", "fail", "deny"})
  OBVIOUS
<1>4. TypeOK'
  BY <1>1, <1>2, <1>3 DEF Respond, TypeOK, Headers
<1> QED
  BY <1>4 DEF Respond, QInv, Asked

(* A response of the upstream. *)
LEMMA UpstreamType ==
  ASSUME Len(stages) \in Nat, NEW r \in Upstream
  PROVE  r \in Responses
<1>1. r \in [header: [Names -> Seq({0})], trailer: [TrailerNames -> Seq({0})],
             body: Seq({0}), bodyless: BOOLEAN]
  BY ResponseAssumption
<1>2. Seq({0}) \subseteq Seq(Writers)
  BY SeqMonotonic DEF Writers
<1>3. r.header \in [Names -> Seq(Writers)] /\ r.trailer \in [TrailerNames -> Seq(Writers)]
  BY <1>1, <1>2
<1>4. r.body \in Seq(Writers) /\ r.bodyless \in BOOLEAN
  BY <1>1, <1>2
<1>5. r = [header |-> r.header, trailer |-> r.trailer, body |-> r.body, bodyless |-> r.bodyless]
  BY <1>1
<1> QED
  BY <1>3, <1>4, <1>5 DEF Responses, Headers, Writers

-----------------------------------------------------------------------------
(* Bodies in parts *)

(* With one more part, it is joined behind the others. *)
LEMMA JoinNext ==
  ASSUME NEW V, NEW d \in Seq(Seq(V)), NEW w \in Seq(V), Joins(w, d),
         NEW f \in Seq(V)
  PROVE  Joins(w \o f, Append(d, f))
<1> DEFINE n == Len(d)
           m == Len(w)
           l == Len(f)
           v == w \o f
           e == Append(d, f)
<1>1. n \in Nat /\ m \in Nat /\ l \in Nat
  OBVIOUS
<1>2. Len(v) = m + l /\ (\A x \in 1..m : v[x] = w[x]) /\ \A x \in 1..l : v[m + x] = f[x]
  OBVIOUS
<1>3. Len(e) = n + 1 /\ e[n + 1] = f /\ \A j \in 1..n : e[j] = d[j]
  OBVIOUS
<1>4. PICK cut \in [0..n -> 0..m] :
         /\ cut[0] = 0 /\ cut[n] = m
         /\ \A j \in 1..n : /\ Len(d[j]) = cut[j] - cut[j - 1]
                           /\ \A x \in 1..Len(d[j]) : w[cut[j - 1] + x] = d[j][x]
  BY DEF Joins
<1> HIDE DEF n, m, l, v, e
<1> DEFINE next == [j \in 0..(n + 1) |-> IF j <= n THEN cut[j] ELSE m + l]
<1>5. /\ \A j \in 0..n : next[j] = cut[j]
      /\ next[n + 1] = m + l
  BY <1>1
<1>6. next \in [0..(n + 1) -> 0..(m + l)]
  <2>1. \A j \in 0..n : cut[j] \in 0..(m + l)
    BY <1>1, <1>4
  <2>2. \A j \in 0..(n + 1) : j <= n => j \in 0..n
    BY <1>1
  <2>3. m + l \in 0..(m + l)
    BY <1>1
  <2> QED
    BY <2>1, <2>2, <2>3
<1> HIDE DEF next
<1>7. next[0] = 0
  BY <1>1, <1>4, <1>5
<1>8. ASSUME NEW j \in 1..(n + 1)
      PROVE  /\ Len(e[j]) = next[j] - next[j - 1]
             /\ \A x \in 1..Len(e[j]) : v[next[j - 1] + x] = e[j][x]
  <2>1. CASE j = n + 1
    <3>1. j - 1 = n /\ n \in 0..n /\ next[j - 1] = m /\ next[j] = m + l /\ e[j] = f
      BY <1>1, <1>3, <1>4, <1>5, <2>1
    <3>2. Len(f) = (m + l) - m
      BY <1>1 DEF l
    <3> QED
      BY <1>2, <3>1, <3>2 DEF l
  <2>2. CASE j \in 1..n
    <3>1. j - 1 \in 0..n /\ j \in 0..n
      BY <1>1, <2>2
    <3>2. /\ next[j] = cut[j] /\ next[j - 1] = cut[j - 1] /\ e[j] = d[j]
          /\ cut[j] \in 0..m /\ cut[j - 1] \in 0..m
      BY <1>3, <1>4, <1>5, <2>2, <3>1
    <3>3. Len(d[j]) = cut[j] - cut[j - 1]
      BY <1>4, <2>2
    <3>a. \A a, b \in 0..m : \A x \in 1..(b - a) : a + x \in 1..m
      BY <1>1
    <3>4. \A x \in 1..Len(d[j]) : cut[j - 1] + x \in 1..m
      BY <3>2, <3>3, <3>a
    <3>5. \A x \in 1..Len(d[j]) : w[cut[j - 1] + x] = d[j][x]
      BY <1>4, <2>2
    <3> QED
      BY <1>2, <3>2, <3>3, <3>4, <3>5
  <2> QED
    BY <1>1, <2>1, <2>2
<1>9. Joins(v, e)
  <2>1. next \in [0..Len(e) -> 0..Len(v)] /\ next[0] = 0 /\ next[Len(e)] = Len(v)
    BY <1>2, <1>3, <1>5, <1>6, <1>7
  <2>2. \A j \in 1..Len(e) : /\ Len(e[j]) = next[j] - next[j - 1]
                             /\ \A x \in 1..Len(e[j]) : v[next[j - 1] + x] = e[j][x]
    BY <1>3, <1>8
  <2> QED
    BY <2>1, <2>2 DEF Joins
<1> QED
  BY <1>9 DEF v, e

(* Nothing in no parts. *)
LEMMA JoinNothing == Joins(<< >>, << >>)
<1> DEFINE cut == [j \in 0..0 |-> 0]
<1>1. Len(<< >>) = 0 /\ 1..Len(<< >>) = {}
  OBVIOUS
<1>2. cut \in [0..Len(<< >>) -> 0..Len(<< >>)] /\ cut[0] = 0 /\ cut[Len(<< >>)] = Len(<< >>)
  BY <1>1
<1> HIDE DEF cut
<1> QED
  BY <1>1, <1>2 DEF Joins

(* What the loop over units works with. *)
LEMMA ChunkType == Chunk \in Nat /\ Chunk >= 1
BY ResponseAssumption DEF Chunk

(* n + 1 units are n and one more. *)
LEMMA UnitSum == ASSUME NEW n \in Nat, NEW c \in Nat
                 PROVE  /\ n * c \in Nat /\ (n + 1) * c \in Nat
                        /\ (n + 1) * c = n * c + c /\ ((n + 1) - 1) * c = n * c
OBVIOUS

(* A unit's answer is one, and so is what it lets through of a unit. *)
LEMMA AnswersType ==
  ASSUME Len(stages) \in Nat, ri \in Writers, NEW a \in UnitAnswers
  PROVE  a \in AnswerType /\ \A u \in Seq(Writers) : Emitted(a, u) \in Seq(Writers)
<1>1. << >> \in Seq(Writers) /\ <<ri>> \in Seq(Writers)
  <2> HIDE DEF Writers
  <2> QED
    OBVIOUS
<1> HIDE DEF Writers
<1>2. a \in AnswerType
  BY <1>1 DEF UnitAnswers, AnswerType, AnswerKinds
<1>3. a.data \in Seq(Writers)
  BY <1>2 DEF AnswerType
<1> QED
  BY <1>2, <1>3 DEF Emitted

(* The unit shown is the next piece of the body the stage was asked about. *)
LEMMA NextUnit ==
  ASSUME Len(stages) \in Nat, ResponseTypes, Bodies, rpc = "body"
  PROVE  LET n == Len(answers)
         IN  /\ End = Smaller((n + 1) * Chunk, Len(base))
             /\ End \in 0..Len(base) /\ offset <= End
             /\ Unit = Piece(n + 1)
             /\ End # Len(base) => End = (n + 1) * Chunk /\ (n + 1) * Chunk < Len(base)
             /\ End = Len(base) => (n + 1) * Chunk >= Len(base)
<1> DEFINE n == Len(answers)
           L == Len(base)
           c == Chunk
<1>1. n \in Nat /\ L \in Nat /\ c \in Nat
  BY ChunkType DEF ResponseTypes
<1>2. resp.body = base /\ offset = n * c /\ (n # 0 => offset < L)
  BY DEF Bodies, ResponseTypes
<1>3. End = Smaller(offset + c, L)
  BY <1>2 DEF End, Chunk
<1> HIDE DEF n, L, c
<1>4. n * c \in Nat /\ (n + 1) * c \in Nat /\ (n + 1) * c = n * c + c /\ ((n + 1) - 1) * c = n * c
  BY <1>1, UnitSum
<1>5. End = Smaller((n + 1) * c, L)
  BY <1>2, <1>3, <1>4
<1>6. n = 0 => offset = 0
  BY <1>1, <1>2
<1> DEFINE p == n * c
           q == (n + 1) * c
<1>7. p \in Nat /\ q \in Nat /\ q = p + c /\ offset = p
  BY <1>2, <1>4
<1> HIDE DEF p, q
<1>8. /\ End \in 0..L /\ offset <= End
      /\ End # L => End = q /\ q < L
      /\ End = L => q >= L
  BY <1>1, <1>2, <1>5, <1>6, <1>7 DEF q, Smaller
<1>9. Unit = Piece(n + 1)
  BY <1>2, <1>4, <1>5 DEF Unit, Piece, c, L
<1> QED
  BY <1>5, <1>8, <1>9 DEF n, L, c, q

(* The parts of a body when the unit in hand is answered. *)
LEMMA NextParts ==
  ASSUME Len(stages) \in Nat, ri \in Writers, ResponseTypes, Bodies, rpc = "body",
         NEW a \in UnitAnswers, BodyUnit(a)
  PROVE  LET out == output \o Emitted(a, Unit)
             rest == SubSeq(resp.body, End + 1, Len(resp.body))
         IN  /\ Unit \in Seq(Writers) /\ rest \in Seq(Writers) /\ out \in Seq(Writers)
             /\ Parts' = Append(Parts, Emitted(a, Unit))
             /\ Unseen' = rest
             /\ Joins(out, Parts')
             /\ Joins(out \o rest, Append(Parts', Unseen'))
<1> DEFINE n == Len(answers)
           out == output \o Emitted(a, Unit)
           rest == SubSeq(resp.body, End + 1, Len(resp.body))
<1>1. /\ answers' = Append(answers, a) /\ base' = base /\ mode' = mode
  BY DEF BodyUnit
<1>2. /\ answers \in Seq(AnswerType) /\ n \in Nat /\ a \in AnswerType
      /\ base \in Seq(Writers) /\ output \in Seq(Writers) /\ resp.body = base
  BY AnswersType DEF ResponseTypes, Bodies
<1>3. /\ Len(answers') = n + 1 /\ DOMAIN answers' = 1..(n + 1) /\ DOMAIN answers = 1..n
      /\ answers'[n + 1] = a /\ \A j \in 1..n : answers'[j] = answers[j]
  BY <1>1, <1>2
<1>4. /\ End = Smaller((n + 1) * Chunk, Len(base)) /\ End \in 0..Len(base) /\ offset <= End
      /\ Unit = Piece(n + 1)
  BY NextUnit
<1>5. Chunk' = Chunk /\ \A j : (Piece(j))' = Piece(j)
  BY <1>1 DEF Chunk, Piece
<1>6. Unseen' = rest
  BY <1>1, <1>2, <1>3, <1>4, <1>5 DEF Unseen
<1>7. \A x \in 1..(Len(base) + 1) : \A y \in 0..Len(base) : SubSeq(base, x, y) \in Seq(Writers)
  <2> HIDE DEF Writers
  <2> QED
    BY <1>2, SubSeqProperties
<1>8. Unit \in Seq(Writers) /\ rest \in Seq(Writers)
  <2>1. offset + 1 \in 1..(Len(base) + 1) /\ End + 1 \in 1..(Len(base) + 1)
        /\ Len(base) \in 0..Len(base)
    BY <1>2, <1>4 DEF ResponseTypes
  <2> QED
    BY <1>2, <1>4, <1>7, <2>1 DEF Unit
<1>9. Emitted(a, Unit) \in Seq(Writers)
  BY <1>8, AnswersType
<1>10. ASSUME NEW j \in 1..n PROVE Emitted(answers[j], Piece(j)) \in Seq(Writers)
  <2>0. answers[j] \in AnswerType
    BY <1>2
  <2>1. answers[j].data \in Seq(Writers)
    BY <2>0 DEF AnswerType
  <2>2. Piece(j) \in Seq(Writers)
    <3> DEFINE p == (j - 1) * Chunk
               q == j * Chunk
    <3>1. CASE p + 1 \in 1..(Len(base) + 1)
      <4>1. Smaller(q, Len(base)) \in 0..Len(base)
        <5>1. q \in Nat
          BY <1>2, ChunkType, UnitSum
        <5> HIDE DEF q
        <5> QED
          BY <1>2, <5>1 DEF Smaller
      <4> QED
        BY <1>7, <3>1, <4>1 DEF Piece
    <3>2. CASE p + 1 \notin 1..(Len(base) + 1)
      <4>1. p \in Nat /\ p + 1 > Len(base) + 1
        <5>1. p \in Nat
          <6>1. j - 1 \in Nat
            BY <1>2
          <6> QED
            BY <6>1, ChunkType, UnitSum
        <5> HIDE DEF p
        <5> QED
          BY <1>2, <3>2, <5>1
      <4>2. p + 1 > Smaller(q, Len(base)) /\ Smaller(q, Len(base)) \in Int
        <5>1. q \in Nat
          BY <1>2, ChunkType, UnitSum
        <5> HIDE DEF p, q
        <5> QED
          BY <1>2, <4>1, <5>1 DEF Smaller
      <4>3. Piece(j) = << >>
        <5> HIDE DEF p, q
        <5> QED
          BY <1>2, <4>1, <4>2, SubSeqProperties DEF Piece, p, q
      <4> QED
        BY <4>3
    <3> QED
      BY <3>1, <3>2
  <2> QED
    BY <2>1, <2>2 DEF Emitted
<1>11. Parts \in Seq(Seq(Writers)) /\ Len(Parts) = n
  BY <1>2, <1>3, <1>10 DEF Parts
<1>12. Parts' = Append(Parts, Emitted(a, Unit))
  <2>1. Parts' = [j \in 1..(n + 1) |-> (Emitted(answers'[j], Piece(j)))]
    BY <1>3, <1>5 DEF Parts
  <2>2. \A j \in 1..n : Parts'[j] = Parts[j]
    BY <1>2, <1>3, <2>1 DEF Parts
  <2>3. Parts'[n + 1] = Emitted(a, Unit)
    BY <1>2, <1>3, <1>4, <2>1
  <2> DEFINE e == Append(Parts, Emitted(a, Unit))
  <2>4. /\ e \in Seq(Seq(Writers)) /\ Len(e) = n + 1 /\ e[n + 1] = Emitted(a, Unit)
        /\ \A j \in 1..n : e[j] = Parts[j]
    <3> HIDE DEF Writers
    <3> QED
      BY <1>9, <1>11
  <2> HIDE DEF e
  <2>5. e = [j \in 1..(n + 1) |-> e[j]]
    BY <2>4
  <2>6. \A j \in 1..(n + 1) : Parts'[j] = e[j]
    <3>1. \A j \in 1..(n + 1) : j \in 1..n \/ j = n + 1
      BY <1>2
    <3> QED
      BY <2>2, <2>3, <2>4, <3>1, Zenon
  <2>7. Parts' = e
    BY <2>1, <2>5, <2>6
  <2> QED
    BY <2>7 DEF e
<1>13. Joins(output, Parts)
  BY DEF Bodies
<1>14. out \in Seq(Writers) /\ Joins(out, Parts')
  BY <1>2, <1>9, <1>11, <1>12, <1>13, JoinNext
<1>15. Parts' \in Seq(Seq(Writers))
  <2> HIDE DEF Writers
  <2> QED
    BY <1>9, <1>11, <1>12
<1>16. Joins(out \o rest, Append(Parts', Unseen'))
  <2> HIDE DEF out, rest
  <2> QED
    BY <1>6, <1>8, <1>14, <1>15, JoinNext
<1> QED
  BY <1>6, <1>8, <1>12, <1>14, <1>16

-----------------------------------------------------------------------------
(* The response: the steps *)

(* Nothing of the request, and of its types, changes on the way back. *)
LEMMA SameRequest ==
  ASSUME QInv, UNCHANGED requestVars
  PROVE  /\ QInv' /\ stages' = stages /\ pc' = pc
         /\ Writers' = Writers /\ Responses' = Responses /\ AnswerType' = AnswerType
         /\ HasResponseStages' = HasResponseStages
<1>1. UNCHANGED vars
  BY DEF requestVars
<1>2. QInv'
  BY <1>1 DEF vars, QInv, TypeOK, Asked, Headers
<1> QED
  BY <1>1, <1>2 DEF vars, Writers, Responses, Headers, AnswerType, HasResponseStages

(* The stages are numbered by writers. *)
LEMMA StageNumbers ==
  ASSUME QInv, ResponseTypes
  PROVE  /\ Len(stages) \in Nat /\ ri \in Nat \ {0}
         /\ ri <= Len(stages) => ri \in Writers /\ ri \in 1..Len(stages)
BY PipelineType DEF QInv, TypeOK, ResponseTypes, Writers

(* A stage that lets the response pass: the next one is asked. *)
LEMMA PassSettled ==
  ASSUME QInv, ResponseTypes, Settled, UNCHANGED requestVars,
         rpc \in {"stage", "body", "trailers"}, ri <= Len(stages),
         NEW how \in {"pass", "fail"}, Pass(how),
         how = "fail" => stages[ri].kind = "grpc" /\ ~stages[ri].failClosed
  PROVE  /\ Settled' /\ rpc' = "stage" /\ ri' \in 1..(Len(stages) + 1)
         /\ settled' \in Seq({"pass", "fail", "block"})
<1>1. /\ stages' = stages /\ pc' = pc /\ HasResponseStages' = HasResponseStages
      /\ Len(stages) \in Nat /\ ri \in 1..Len(stages)
  BY SameRequest, StageNumbers
<1>2. /\ rpc' = "stage" /\ ri' = ri + 1 /\ settled' = Append(settled, how)
  BY DEF Pass, Leave
<1>3. /\ HasResponseStages /\ Len(settled) = ri - 1 /\ pc = "returned"
      /\ settled \in Seq({"pass", "fail", "block"})
  BY DEF Settled, ResponseTypes
<1>4. /\ settled' \in Seq({"pass", "fail", "block"}) /\ Len(settled') = ri
      /\ settled'[ri] = how /\ \A k \in 1..(ri - 1) : settled'[k] = settled[k]
  <2> DEFINE Y == {"pass", "fail", "block"}
  <2>1. how \in Y /\ settled \in Seq(Y)
    BY <1>3
  <2> HIDE DEF Y
  <2>2. /\ settled' \in Seq(Y) /\ Len(settled') = Len(settled) + 1
        /\ settled'[Len(settled) + 1] = how
        /\ \A k \in 1..Len(settled) : settled'[k] = settled[k]
    BY <1>2, <2>1
  <2> QED
    BY <1>1, <1>3, <2>2 DEF Y
<1>5. ASSUME NEW k \in 1..ri
      PROVE  /\ settled'[k] # "block"
             /\ settled'[k] = "fail" => stages[k].kind = "grpc" /\ ~stages[k].failClosed
  <2>1. CASE k = ri
    BY <1>4, <2>1
  <2>2. CASE k \in 1..(ri - 1)
    BY <1>3, <1>4, <2>2 DEF Settled
  <2> QED
    BY <1>1, <2>1, <2>2
<1>6. Settled'
  BY <1>1, <1>2, <1>3, <1>4, <1>5 DEF Settled
<1> QED
  BY <1>1, <1>2, <1>4, <1>6

(* A stage that has the last word. *)
LEMMA DenySettled ==
  ASSUME QInv, ResponseTypes, Settled, UNCHANGED requestVars,
         rpc \in {"stage", "body", "trailers"},
         NEW how \in {"fail", "block"}, rpc' = "denied", UNCHANGED ri, Leave(how)
  PROVE  /\ Settled' /\ ri' \in 1..(Len(stages) + 1)
         /\ settled' \in Seq({"pass", "fail", "block"})
<1>1. /\ stages' = stages /\ pc' = pc
  BY SameRequest
<1>2. settled' = Append(settled, how)
  BY DEF Leave
<1>3. settled \in Seq({"pass", "fail", "block"}) /\ ri \in 1..(Len(stages) + 1)
  BY DEF ResponseTypes
<1>4. settled' \in Seq({"pass", "fail", "block"})
  <2> DEFINE Y == {"pass", "fail", "block"}
  <2>1. how \in Y /\ settled \in Seq(Y)
    BY <1>3
  <2> HIDE DEF Y
  <2> QED
    BY <1>2, <2>1 DEF Y
<1> QED
  BY <1>1, <1>3, <1>4 DEF Settled

(* A stage that leaves without a new body leaves the one it was asked about. *)
LEMMA BodyKept ==
  ASSUME ResponseTypes, Bodies, rpc \in {"stage", "body", "trailers"}, rpc' \in {"stage", "denied"},
         resp'.body = resp.body, UNCHANGED local
  PROVE  Bodies'
<1>1. /\ mode' = mode /\ answers' = answers /\ base' = base
  BY DEF local
<1>2. Chunk' = Chunk
  BY <1>1 DEF Chunk
<1>3. /\ Complete' = Complete /\ Parts' = Parts /\ Unseen' = Unseen
  BY <1>1, <1>2 DEF Complete, Parts, Unseen, Piece
<1>4. Joins(resp.body, Append(Parts, Unseen))' = Joins(resp.body, Append(Parts, Unseen))
  BY <1>3 DEF Joins
<1>5. CASE rpc = "body"
  <2> DEFINE p == Len(answers) * Chunk
  <2>1. p \in Nat /\ Len(base) \in Nat
    BY ChunkType, UnitSum DEF ResponseTypes
  <2>2. offset = p
    BY <1>5 DEF Bodies
  <2>3. answers # << >> => offset < Len(base) /\ ~Skips(answers[Len(answers)])
    BY <1>5 DEF Bodies
  <2> HIDE DEF p
  <2>4. ~Complete
    BY <2>1, <2>2, <2>3 DEF Complete, p
  <2> QED
    BY <1>1, <1>3, <1>5, <2>4 DEF Bodies
<1>6. CASE rpc \in {"stage", "trailers"}
  <2>1. mode # "none" => IF Complete THEN Joins(resp.body, Append(Parts, Unseen)) ELSE resp.body = base
    BY <1>6 DEF Bodies
  <2> QED
    BY <1>1, <1>3, <1>4, <2>1 DEF Bodies
<1> QED
  BY <1>5, <1>6

(* Valid mutations leave protected trailers alone and create none. *)
LEMMA TrailersEdited ==
  ASSUME Len(stages) \in Nat, ri \in Writers, resp \in Responses, NEW ms \in TrailerLists,
         TrailersValid(ms)
  PROVE  LET e == Edited(resp.trailer, Spelt, Written(ri, ms))
         IN  /\ e \in Headers(TrailerNames)
             /\ \A t \in TrailerNames :
                   /\ t \in Protected => e[t] = resp.trailer[t]
                   /\ resp.trailer[t] = Absent => e[t] = Absent
<1> DEFINE old == resp.trailer
           H == [TrailerNames -> Seq(Writers)]
           T == {h \in H : \A t \in TrailerNames :
                    /\ t \in Protected => h[t] = old[t]
                    /\ old[t] = Absent => h[t] = Absent}
           ws == Written(ri, ms)
<1>1. old \in H
  BY DEF Responses, Headers, Writers
<1>2. /\ Len(ms) \in Nat /\ DOMAIN ms = 1..Len(ms)
      /\ \A n \in 1..Len(ms) : ms[n].name \in TrailerNames
  <2> DEFINE M == [op: {"remove", "set", "append", "skip"}, name: TrailerNames]
  <2>1. ms \in Seq(M)
    BY ResponseAssumption
  <2>2. \A x \in M : x.name \in TrailerNames
    OBVIOUS
  <2> HIDE DEF M
  <2> QED
    BY <2>1, <2>2
<1>3. /\ Len(ws) = Len(ms)
      /\ \A n \in 1..Len(ms) : ws[n][1] = ri /\ ws[n][2] = ms[n]
  BY <1>2, WrittenType
<1>4. \A n \in 1..Len(ms) : /\ ms[n].name \notin Protected
                            /\ ms[n].op # "remove" => old[ms[n].name] # Absent
  BY <1>2 DEF TrailersValid
<1> HIDE DEF old, ws, H
<1>5. ASSUME NEW h \in T, NEW n \in 1..Len(ws)
      PROVE  Edit(h, Spelt[ws[n][2].name], ws[n][2], ws[n][1]) \in T
  <2> DEFINE x == ms[n].name
             e == Edit(h, x, ms[n], ri)
  <2>1. /\ n \in 1..Len(ms) /\ x \in TrailerNames /\ Spelt[x] = x
        /\ ws[n][1] = ri /\ ws[n][2] = ms[n]
    BY <1>2, <1>3 DEF Spelt
  <2>2. h \in H
    OBVIOUS
  <2>3. /\ e \in H
        /\ \A y \in TrailerNames : y # x => e[y] = h[y]
        /\ ms[n].op = "remove" => e[x] = Absent
    BY <2>1, <2>2, EditType DEF H
  <2> HIDE DEF e
  <2>4. \A t \in TrailerNames : /\ t \in Protected => e[t] = old[t]
                                /\ old[t] = Absent => e[t] = Absent
    BY <1>4, <2>1, <2>3
  <2>5. e \in T
    BY <2>3, <2>4
  <2> QED
    BY <2>1, <2>5 DEF e
<1>6. old \in T
  BY <1>1
<1> HIDE DEF T
<1>7. Edited(old, Spelt, ws) \in T
  BY <1>2, <1>3, <1>5, <1>6, EditedWithin
<1> QED
  BY <1>7 DEF T, H, old, ws, Headers, Writers

(* The request's steps. *)
LEMMA RequestSide == XInv /\ Next /\ UNCHANGED responseVars => XInv'
<1> SUFFICES ASSUME XInv, Next, UNCHANGED responseVars PROVE XInv'
  OBVIOUS
<1>1. QInv' /\ stages' = stages /\ pc = "run" /\ pc' # "returned"
  BY RequestStep, RequestRuns DEF XInv
<1>2. rpc = "request" /\ rpc' = "request"
  BY <1>1 DEF XInv, Settled, responseVars
<1>3. Writers' = Writers /\ Responses' = Responses /\ AnswerType' = AnswerType
  BY <1>1 DEF Writers, Responses, Headers, AnswerType
<1>4. ResponseTypes'
  BY <1>1, <1>3 DEF XInv, ResponseTypes, responseVars, Rpcs
<1>5. Settled' /\ TrailersKept' /\ Bodies'
  BY <1>1, <1>2 DEF XInv, Settled, TrailersKept, Bodies, responseVars
<1> QED
  BY <1>1, <1>4, <1>5 DEF XInv

(* The upstream's answer. *)
LEMMA RespondStep == ASSUME XInv, NEW r \in Upstream, Respond(r) PROVE XInv'
<1>0. QInv /\ stages' = stages
  BY DEF XInv, Respond
<1>1. QInv' /\ stages' = stages /\ Len(stages) \in Nat
  <2>1. QInv'
    BY <1>0, RespondType
  <2>2. Len(stages) \in Nat
    BY <1>0, PipelineType DEF QInv, TypeOK
  <2> QED
    BY <1>0, <2>1, <2>2
<1>2. Writers' = Writers /\ Responses' = Responses /\ AnswerType' = AnswerType
  BY <1>1 DEF Writers, Responses, Headers, AnswerType
<1>3. r \in Responses
  BY <1>1, UpstreamType
<1>4. /\ rpc = "request" /\ rpc' = "buffer" /\ pc' = "returned" /\ resp' = r /\ origin' = r
      /\ UNCHANGED <<ri, local, settled, length>>
  BY DEF XInv, Settled, Respond
<1>5. ResponseTypes'
  BY <1>1, <1>2, <1>3, <1>4 DEF XInv, ResponseTypes, Rpcs, local
<1>6. Settled' /\ TrailersKept' /\ Bodies'
  BY <1>4 DEF XInv, Settled, TrailersKept, Bodies, local
<1> QED
  BY <1>1, <1>5, <1>6 DEF XInv

(* The body is buffered, or the response goes through. *)
LEMMA BufferStep == ASSUME XInv, NEW ok \in BOOLEAN, Buffer(ok) PROVE XInv'
<1>1. /\ QInv' /\ stages' = stages /\ pc' = pc
      /\ Writers' = Writers /\ Responses' = Responses /\ AnswerType' = AnswerType
      /\ HasResponseStages' = HasResponseStages
  BY SameRequest DEF XInv, Buffer
<1>2. /\ rpc = "buffer" /\ rpc' \in {"stage", "delivered", "denied"}
      /\ rpc' = "delivered" <=> ~HasResponseStages
      /\ UNCHANGED <<ri, resp, origin, local, settled, length>>
  BY DEF Buffer
<1>3. ResponseTypes'
  BY <1>1, <1>2 DEF XInv, ResponseTypes, Rpcs, local
<1>4. /\ settled = << >> /\ ri = 1 /\ mode = "none" /\ resp = origin /\ pc = "returned"
  BY <1>2 DEF XInv, Settled
<1>5. Settled' /\ TrailersKept' /\ Bodies'
  BY <1>1, <1>2, <1>4 DEF Settled, TrailersKept, Bodies, local
<1> QED
  BY <1>1, <1>3, <1>5 DEF XInv

(* What every step of the stages has in common. *)
LEMMA StageStart ==
  ASSUME XInv, UNCHANGED requestVars
  PROVE  /\ QInv /\ ResponseTypes /\ Settled /\ TrailersKept /\ Bodies
         /\ QInv' /\ stages' = stages /\ pc' = pc
         /\ Writers' = Writers /\ Responses' = Responses /\ AnswerType' = AnswerType
         /\ HasResponseStages' = HasResponseStages
         /\ Len(stages) \in Nat /\ (ri <= Len(stages) => ri \in Writers)
         /\ \A j \in 1..Len(stages) : stages[j] \in StageType
<1>1. QInv /\ ResponseTypes /\ Settled /\ TrailersKept /\ Bodies
  BY DEF XInv
<1>2. /\ QInv' /\ stages' = stages /\ pc' = pc
      /\ Writers' = Writers /\ Responses' = Responses /\ AnswerType' = AnswerType
      /\ HasResponseStages' = HasResponseStages
  BY <1>1, SameRequest
<1>3. Len(stages) \in Nat /\ (ri <= Len(stages) => ri \in Writers)
  BY <1>1, StageNumbers
<1>4. stages \in Seq(StageType)
  BY <1>1, PipelineType DEF QInv, TypeOK
<1>5. \A j \in 1..Len(stages) : stages[j] \in StageType
  BY <1>4
<1> QED
  BY <1>1, <1>2, <1>3, <1>5

(* A stage leaves the response as it is, and lets it pass or not. *)
LEMMA LeaveStep ==
  ASSUME XInv, UNCHANGED <<requestVars, resp, origin, local>>,
         rpc \in {"stage", "body", "trailers"}, ri <= Len(stages),
         NEW how \in {"pass", "fail", "block"},
         \/ Pass(how) /\ how # "block"
              /\ (how = "fail" => stages[ri].kind = "grpc" /\ ~stages[ri].failClosed)
         \/ rpc' = "denied" /\ UNCHANGED ri /\ Leave(how) /\ how # "pass"
  PROVE  XInv'
<1>1. UNCHANGED requestVars /\ UNCHANGED local /\ resp' = resp /\ origin' = origin
  OBVIOUS
<1>2. /\ QInv /\ ResponseTypes /\ Settled /\ TrailersKept /\ Bodies
      /\ QInv' /\ stages' = stages
      /\ Writers' = Writers /\ Responses' = Responses /\ AnswerType' = AnswerType
  BY <1>1, StageStart
<1>3. /\ Settled' /\ ri' \in 1..(Len(stages) + 1) /\ settled' \in Seq({"pass", "fail", "block"})
      /\ rpc' \in {"stage", "denied"}
  BY <1>1, <1>2, PassSettled, DenySettled
<1>4. ResponseTypes'
  BY <1>1, <1>2, <1>3 DEF ResponseTypes, Rpcs, local
<1>5. Bodies'
  BY <1>1, <1>2, <1>3, BodyKept
<1>6. TrailersKept'
  BY <1>1, <1>2 DEF TrailersKept
<1> QED
  BY <1>2, <1>3, <1>4, <1>5, <1>6 DEF XInv

(* The preflight's answer. *)
LEMMA PreflightStep ==
  ASSUME XInv, NEW m \in {"headers", "whole", "stream"}, NEW ms \in Lists, Preflight(m, ms)
  PROVE  XInv'
<1> DEFINE h == Edited(resp.header, Canon, Written(ri, ms))
<1>1. /\ rpc = "stage" /\ ri <= Len(stages) /\ stages[ri].kind = "grpc"
      /\ resp' = [resp EXCEPT !.header = h]
      /\ mode' = m /\ output' = << >> /\ offset' = 0 /\ base' = resp.body /\ answers' = << >>
      /\ UNCHANGED requestVars /\ origin' = origin
  BY DEF Preflight
<1>2. /\ QInv /\ ResponseTypes /\ Settled /\ TrailersKept /\ Bodies
      /\ QInv' /\ stages' = stages /\ pc' = pc
      /\ Writers' = Writers /\ Responses' = Responses /\ AnswerType' = AnswerType
      /\ HasResponseStages' = HasResponseStages
      /\ Len(stages) \in Nat /\ ri \in Writers
  BY <1>1, StageStart
<1>3. h \in Headers(Names)
  <2>1. Len(ms) \in Nat /\ DOMAIN ms = 1..Len(ms)
    BY ListType
  <2>2. resp.header \in [Names -> Seq(Writers)]
    BY <1>2 DEF ResponseTypes, Responses, Headers, Writers
  <2>3. h \in [Names -> Seq(Writers)]
    BY <1>2, <2>1, <2>2, EditedType
  <2> QED
    BY <2>3 DEF Headers, Writers
<1> HIDE DEF h
<1>4. /\ resp' \in Responses /\ resp'.body = resp.body /\ resp'.trailer = resp.trailer
      /\ resp.body \in Seq(Writers)
  BY <1>1, <1>2, <1>3 DEF ResponseTypes, Responses
<1>5. /\ Settled' /\ ri' \in 1..(Len(stages) + 1) /\ settled' \in Seq({"pass", "fail", "block"})
      /\ rpc' \in {"stage", "body", "denied"}
  <2>1. CASE m = "headers" \/ resp.bodyless
    <3>1. Pass("pass")
      BY <2>1 DEF Preflight
    <3> QED
      BY <1>1, <1>2, <3>1, PassSettled
  <2>2. CASE ~(m = "headers" \/ resp.bodyless) /\ (m = "whole" /\ Len(resp.body) > Limit)
    <3>1. CASE stages[ri].failClosed
      BY <1>1, <1>2, <2>2, <3>1, DenySettled DEF Preflight
    <3>2. CASE ~stages[ri].failClosed
      <4>1. Pass("fail")
        BY <2>2, <3>2 DEF Preflight
      <4> QED
        BY <1>1, <1>2, <3>2, <4>1, PassSettled
    <3> QED
      BY <3>1, <3>2
  <2>3. CASE ~(m = "headers" \/ resp.bodyless) /\ ~(m = "whole" /\ Len(resp.body) > Limit)
    <3>1. rpc' = "body" /\ UNCHANGED <<ri, settled>>
      BY <2>3 DEF Preflight
    <3> QED
      BY <1>1, <1>2, <3>1 DEF Settled, ResponseTypes
  <2> QED
    BY <2>1, <2>2, <2>3
<1>6. ResponseTypes'
  <2>1. << >> \in Seq(Writers) /\ << >> \in Seq(AnswerType)
    OBVIOUS
  <2> QED
    BY <1>1, <1>2, <1>4, <1>5, <2>1 DEF ResponseTypes, Rpcs
<1>7. TrailersKept'
  BY <1>1, <1>2, <1>4 DEF TrailersKept
<1>8. Bodies'
  <2>1. ~Complete'
    BY <1>1 DEF Complete
  <2>2. Parts' = << >> /\ Len(answers') = 0
    BY <1>1 DEF Parts
  <2>3. Joins(output', Parts')
    BY <1>1, <2>2, JoinNothing
  <2>4. Joins(output, Parts)'
    BY <2>3 DEF Joins
  <2>5. (Len(answers) * Chunk)' = 0
    <3>1. Chunk' \in Nat
      BY ResponseAssumption DEF Chunk
    <3>2. \A c \in Nat : 0 * c = 0
      OBVIOUS
    <3>3. Len(answers') * Chunk' = 0
      BY <2>2, <3>1, <3>2
    <3> QED
      BY <3>3
  <2> QED
    BY <1>1, <1>4, <1>5, <2>1, <2>4, <2>5 DEF Bodies
<1> QED
  BY <1>2, <1>5, <1>6, <1>7, <1>8 DEF XInv

(* One unit of the body is answered. *)
LEMMA BodyUnitStep == ASSUME XInv, NEW a \in UnitAnswers, BodyUnit(a) PROVE XInv'
<1> DEFINE out == output \o Emitted(a, Unit)
           rest == SubSeq(resp.body, End + 1, Len(resp.body))
           n == Len(answers)
<1>1. /\ rpc = "body" /\ answers' = Append(answers, a)
      /\ UNCHANGED requestVars /\ origin' = origin /\ mode' = mode /\ base' = base
  BY DEF BodyUnit
<1>2. /\ QInv /\ ResponseTypes /\ Settled /\ TrailersKept /\ Bodies
      /\ QInv' /\ stages' = stages /\ pc' = pc
      /\ Writers' = Writers /\ Responses' = Responses /\ AnswerType' = AnswerType
      /\ HasResponseStages' = HasResponseStages
      /\ Len(stages) \in Nat /\ ri <= Len(stages) /\ ri \in Writers
  <2>1. XInv /\ UNCHANGED requestVars
    BY <1>1
  <2>2. ri <= Len(stages)
    BY <1>1 DEF XInv, Settled
  <2> QED
    BY <2>1, <2>2, StageStart
<1>3. /\ rest \in Seq(Writers) /\ out \in Seq(Writers)
      /\ Unseen' = rest
      /\ Joins(out, Parts')
      /\ Joins(out \o rest, Append(Parts', Unseen'))
  BY <1>1, <1>2, NextParts
<1>4. /\ End \in 0..Len(base)
      /\ End # Len(base) => End = (n + 1) * Chunk /\ (n + 1) * Chunk < Len(base)
      /\ End = Len(base) => (n + 1) * Chunk >= Len(base)
  BY <1>1, <1>2, NextUnit
<1>5. /\ a \in AnswerType /\ answers' \in Seq(AnswerType) /\ Len(answers') = n + 1
      /\ answers'[n + 1] = a /\ answers' # << >> /\ n \in Nat
  <2>1. a \in AnswerType /\ answers \in Seq(AnswerType)
    BY <1>2, AnswersType DEF ResponseTypes
  <2> HIDE DEF AnswerType
  <2> QED
    BY <1>1, <2>1
<1>6. resp.body = base /\ base \in Seq(Writers) /\ Len(base) \in Nat /\ resp \in Responses
  BY <1>1, <1>2 DEF Bodies, ResponseTypes
<1>7. Chunk' = Chunk
  BY <1>1 DEF Chunk
<1>8. out \o rest \in Seq(Writers)
  <2> HIDE DEF out, rest
  <2> QED
    BY <1>3
<1> HIDE DEF out, rest
<1>9. ASSUME NEW b \in Seq(Writers), resp' = [resp EXCEPT !.body = b]
      PROVE  resp' \in Responses /\ resp'.body = b /\ TrailersKept'
  <2>1. resp' \in Responses /\ resp'.body = b /\ resp'.trailer = resp.trailer
    BY <1>6, <1>9 DEF Responses, Writers
  <2> QED
    BY <1>1, <1>2, <2>1 DEF TrailersKept
<1>a. CASE Skips(a)
  <2>1. resp' = [resp EXCEPT !.body = out \o rest] /\ Pass("pass") /\ UNCHANGED <<output, offset>>
    BY <1>a DEF BodyUnit, out, rest
  <2>2. resp' \in Responses /\ resp'.body = out \o rest /\ TrailersKept'
    BY <1>8, <1>9, <2>1
  <2>3. /\ Settled' /\ rpc' = "stage" /\ ri' \in 1..(Len(stages) + 1)
        /\ settled' \in Seq({"pass", "fail", "block"})
    BY <1>1, <1>2, <2>1, PassSettled
  <2>4. ResponseTypes'
    BY <1>1, <1>2, <1>5, <2>1, <2>2, <2>3 DEF ResponseTypes, Rpcs
  <2>5. Complete'
    BY <1>5, <1>a DEF Complete, Skips
  <2>6. Joins(resp.body, Append(Parts, Unseen))'
    <3>1. Joins(resp'.body, Append(Parts', Unseen'))
      BY <1>3, <2>2, Zenon
    <3> QED
      BY <3>1 DEF Joins
  <2>7. Bodies'
    BY <2>3, <2>5, <2>6 DEF Bodies
  <2> QED
    BY <1>2, <2>2, <2>3, <2>4, <2>7 DEF XInv
<1>b. CASE ~Skips(a) /\ End = Len(resp.body)
  <2>1. resp' = [resp EXCEPT !.body = out] /\ rpc' = "trailers"
        /\ UNCHANGED <<ri, settled, output, offset>>
    BY <1>b DEF BodyUnit, out
  <2>2. resp' \in Responses /\ resp'.body = out /\ TrailersKept'
    BY <1>3, <1>9, <2>1
  <2>3. Settled'
    BY <1>1, <1>2, <2>1 DEF Settled
  <2>4. ResponseTypes'
    BY <1>1, <1>2, <1>5, <2>1, <2>2 DEF ResponseTypes, Rpcs
  <2>5. Complete'
    <3>1. (Len(answers) * Chunk >= Len(base))'
      BY <1>1, <1>4, <1>5, <1>6, <1>7, <1>b
    <3> QED
      BY <1>5, <3>1 DEF Complete
  <2>6. rest = << >>
    BY <1>4, <1>6, <1>b, SubSeqProperties DEF rest
  <2>7. out \o rest = out
    BY <1>3, <2>6
  <2>8. Joins(resp.body, Append(Parts, Unseen))'
    <3>1. Joins(resp'.body, Append(Parts', Unseen'))
      BY <1>3, <2>2, <2>7, Zenon
    <3> QED
      BY <3>1 DEF Joins
  <2>9. Bodies'
    BY <2>1, <2>5, <2>8 DEF Bodies
  <2> QED
    BY <1>2, <2>2, <2>3, <2>4, <2>9 DEF XInv
<1>c. CASE ~Skips(a) /\ End # Len(resp.body)
  <2>1. output' = out /\ offset' = End /\ UNCHANGED <<rpc, ri, settled, resp>>
    BY <1>c DEF BodyUnit, out
  <2>2. TrailersKept' /\ Settled'
    BY <1>1, <1>2, <2>1 DEF TrailersKept, Settled
  <2>3. ResponseTypes'
    BY <1>1, <1>2, <1>3, <1>4, <1>5, <1>6, <2>1 DEF ResponseTypes, Rpcs
  <2>4. Joins(output, Parts)'
    <3>1. Joins(output', Parts')
      BY <1>3, <2>1, Zenon
    <3> QED
      BY <3>1 DEF Joins
  <2>5. (offset = Len(answers) * Chunk)' /\ offset' < Len(base')
    BY <1>1, <1>4, <1>5, <1>6, <1>7, <1>c, <2>1
  <2>6. ~(Skips(answers[Len(answers)]))'
    BY <1>5, <1>c DEF Skips
  <2>7. Bodies'
    BY <1>1, <1>6, <2>1, <2>4, <2>5, <2>6 DEF Bodies
  <2> QED
    BY <1>2, <2>2, <2>3, <2>7 DEF XInv
<1> QED
  BY <1>a, <1>b, <1>c

(* The trailers are answered. *)
LEMMA TrailersStep == ASSUME XInv, NEW ms \in TrailerLists, Trailers(ms) PROVE XInv'
<1>1. /\ rpc = "trailers" /\ UNCHANGED requestVars /\ origin' = origin /\ UNCHANGED local
  BY DEF Trailers
<1>2. /\ QInv /\ ResponseTypes /\ Settled /\ TrailersKept /\ Bodies
      /\ QInv' /\ stages' = stages /\ pc' = pc
      /\ Writers' = Writers /\ Responses' = Responses /\ AnswerType' = AnswerType
      /\ Len(stages) \in Nat /\ ri <= Len(stages) /\ ri \in Writers /\ stages[ri].kind = "grpc"
  <2>1. XInv /\ UNCHANGED requestVars
    BY <1>1
  <2>2. ri <= Len(stages) /\ stages[ri].kind = "grpc"
    BY <1>1 DEF XInv, Settled
  <2> QED
    BY <2>1, <2>2, StageStart
<1>3. CASE TrailersValid(ms)
  <2> DEFINE e == Edited(resp.trailer, Spelt, Written(ri, ms))
  <2>1. Pass("pass") /\ resp' = [resp EXCEPT !.trailer = e]
    BY <1>3 DEF Trailers
  <2>2. resp \in Responses
    BY <1>2 DEF ResponseTypes
  <2>3. /\ e \in Headers(TrailerNames)
        /\ \A t \in TrailerNames : /\ t \in Protected => e[t] = resp.trailer[t]
                                   /\ resp.trailer[t] = Absent => e[t] = Absent
    BY <1>2, <1>3, <2>2, TrailersEdited
  <2> HIDE DEF e
  <2>4. resp' \in Responses /\ resp'.body = resp.body /\ resp'.trailer = e
    BY <2>1, <2>2, <2>3 DEF Responses
  <2>5. TrailersKept'
    BY <1>1, <1>2, <2>3, <2>4 DEF TrailersKept
  <2>6. /\ Settled' /\ rpc' = "stage" /\ ri' \in 1..(Len(stages) + 1)
        /\ settled' \in Seq({"pass", "fail", "block"})
    BY <1>1, <1>2, <2>1, PassSettled
  <2>7. ResponseTypes'
    BY <1>1, <1>2, <2>4, <2>6 DEF ResponseTypes, Rpcs, local
  <2>8. Bodies'
    BY <1>1, <1>2, <2>4, <2>6, BodyKept
  <2> QED
    BY <1>2, <2>5, <2>6, <2>7, <2>8 DEF XInv
<1>4. CASE ~TrailersValid(ms)
  <2>1. /\ UNCHANGED <<requestVars, resp, origin, local>>
        /\ IF stages[ri].failClosed THEN rpc' = "denied" /\ UNCHANGED ri /\ Leave("fail")
                                    ELSE Pass("fail")
    BY <1>1, <1>4 DEF Trailers
  <2>2. CASE stages[ri].failClosed
    <3>1. rpc' = "denied" /\ UNCHANGED ri /\ Leave("fail")
      BY <2>1, <2>2
    <3> QED
      BY <1>1, <1>2, <2>1, <3>1, LeaveStep
  <2>3. CASE ~stages[ri].failClosed
    <3>1. Pass("fail")
      BY <2>1, <2>3
    <3> QED
      BY <1>1, <1>2, <2>1, <2>3, <3>1, LeaveStep
  <2> QED
    BY <2>2, <2>3
<1> QED
  BY <1>3, <1>4

-----------------------------------------------------------------------------
(* Theorems *)

(* Every step of an exchange preserves the invariant. *)
LEMMA ExchangeStep == XInv /\ [ExchangeNext]_exchangeVars => XInv'
<1> SUFFICES ASSUME XInv, [ExchangeNext]_exchangeVars PROVE XInv'
  OBVIOUS
<1>1. CASE Next /\ UNCHANGED responseVars
  BY <1>1, RequestSide
<1>2. ASSUME NEW r \in Upstream, Respond(r) PROVE XInv'
  BY <1>2, RespondStep
<1>3. ASSUME NEW ok \in BOOLEAN, Buffer(ok) PROVE XInv'
  BY <1>3, BufferStep
<1>4. CASE ResponseFailure
  <2>1. /\ UNCHANGED <<requestVars, resp, origin, local>>
        /\ rpc \in {"stage", "body", "trailers"} /\ ri <= Len(stages) /\ stages[ri].kind = "grpc"
        /\ IF stages[ri].failClosed THEN rpc' = "denied" /\ UNCHANGED ri /\ Leave("fail")
                                    ELSE Pass("fail")
    BY <1>4 DEF ResponseFailure
  <2>2. CASE stages[ri].failClosed
    BY <2>1, <2>2, LeaveStep
  <2>3. CASE ~stages[ri].failClosed
    BY <2>1, <2>3, LeaveStep
  <2> QED
    BY <2>2, <2>3
<1>5. CASE ResponseSkip
  BY <1>5, LeaveStep DEF ResponseSkip
<1>6. CASE ResponseBlock
  BY <1>6, LeaveStep DEF ResponseBlock, Block
<1>7. CASE Deliver
  <2>1. /\ rpc = "stage" /\ ri > Len(stages) /\ rpc' = "delivered" /\ length' = Len(resp.body)
        /\ UNCHANGED requestVars /\ UNCHANGED <<ri, resp, origin, settled>> /\ UNCHANGED local
    BY <1>7 DEF Deliver
  <2>2. /\ QInv /\ ResponseTypes /\ Settled /\ TrailersKept /\ Bodies
        /\ QInv' /\ stages' = stages /\ pc' = pc
        /\ Writers' = Writers /\ Responses' = Responses /\ AnswerType' = AnswerType
        /\ HasResponseStages' = HasResponseStages /\ Len(stages) \in Nat
    BY <2>1, StageStart
  <2>3. ResponseTypes' /\ TrailersKept'
    BY <2>1, <2>2 DEF ResponseTypes, TrailersKept, Rpcs, local
  <2>4. Settled'
    <3>1. ri = Len(stages) + 1 /\ Len(settled) = Len(stages) /\ HasResponseStages
      BY <2>1, <2>2 DEF Settled, ResponseTypes
    <3> QED
      BY <2>1, <2>2, <3>1 DEF Settled
  <2>5. Bodies'
    <3>1. mode' = mode /\ answers' = answers /\ base' = base /\ resp' = resp
      BY <2>1 DEF local
    <3>2. /\ Complete' = Complete /\ Parts' = Parts /\ Unseen' = Unseen
      BY <3>1 DEF Complete, Parts, Unseen, Piece, Chunk
    <3>3. mode # "none" => IF Complete THEN Joins(resp.body, Append(Parts, Unseen))
                           ELSE resp.body = base
      BY <2>1, <2>2 DEF Bodies
    <3>4. Joins(resp.body, Append(Parts, Unseen))' = Joins(resp.body, Append(Parts, Unseen))
      BY <3>1, <3>2 DEF Joins
    <3> QED
      BY <2>1, <3>1, <3>2, <3>3, <3>4 DEF Bodies
  <2> QED
    BY <2>2, <2>3, <2>4, <2>5 DEF XInv
<1>8. ASSUME NEW m \in {"headers", "whole", "stream"}, NEW ms \in Lists, Preflight(m, ms)
      PROVE  XInv'
  BY <1>8, PreflightStep
<1>9. ASSUME NEW a \in UnitAnswers, BodyUnit(a) PROVE XInv'
  BY <1>9, BodyUnitStep
<1>10. ASSUME NEW ms \in TrailerLists, Trailers(ms) PROVE XInv'
  BY <1>10, TrailersStep
<1>11. CASE UNCHANGED exchangeVars
  <2>1. UNCHANGED requestVars /\ UNCHANGED responseVars
    BY <1>11 DEF exchangeVars, requestVars
  <2>2. /\ QInv /\ ResponseTypes /\ Settled /\ TrailersKept /\ Bodies
        /\ QInv' /\ stages' = stages /\ pc' = pc
        /\ Writers' = Writers /\ Responses' = Responses /\ AnswerType' = AnswerType
        /\ HasResponseStages' = HasResponseStages
    BY <2>1, StageStart
  <2>3. ResponseTypes' /\ Settled' /\ TrailersKept'
    BY <2>1, <2>2 DEF responseVars, ResponseTypes, Settled, TrailersKept, Rpcs
  <2>4. Bodies'
    <3>1. /\ rpc' = rpc /\ mode' = mode /\ answers' = answers /\ base' = base /\ resp' = resp
          /\ output' = output /\ offset' = offset /\ length' = length
      BY <2>1 DEF responseVars
    <3>2. /\ Complete' = Complete /\ Parts' = Parts /\ Unseen' = Unseen /\ Chunk' = Chunk
      BY <3>1 DEF Complete, Parts, Unseen, Piece, Chunk
    <3>3. /\ Joins(resp.body, Append(Parts, Unseen))' = Joins(resp.body, Append(Parts, Unseen))
          /\ Joins(output, Parts)' = Joins(output, Parts)
      BY <3>1, <3>2 DEF Joins
    <3>4. Skips(answers[Len(answers)])' = Skips(answers[Len(answers)])
      BY <3>1 DEF Skips
    <3> QED
      BY <2>2, <3>1, <3>2, <3>3, <3>4 DEF Bodies
  <2> QED
    BY <2>2, <2>3, <2>4 DEF XInv
<1> QED
  BY <1>1, <1>2, <1>3, <1>4, <1>5, <1>6, <1>7, <1>8, <1>9, <1>10, <1>11
     DEF ExchangeNext, ResponseNext

(* The invariant holds throughout an exchange. *)
LEMMA ExchangeInvariant == ExchangeSpec => []XInv
BY ExchangeStart, ExchangeStep, PTL DEF ExchangeSpec

(* First deny wins, both ways: no request is forwarded that a stage        *)
(* denied, failed closed on or stands in the way of, and no response is    *)
(* delivered that a stage blocked or failed closed on, at whatever point   *)
(* (Pipeline.Run, RunResponse, responseFailure).                           *)
THEOREM FirstDenyAlwaysWins == ExchangeSpec => []FirstDenyWins
<1>1. XInv => FirstDenyWins
  <2> SUFFICES ASSUME XInv PROVE FirstDenyWins
    OBVIOUS
  <2>1. TypeOK /\ Asked /\ ResponseTypes /\ Settled
    BY DEF XInv, QInv
  <2>2. /\ verdicts \in Seq({"allow", "skip", "fail", "deny"}) /\ Len(stages) \in Nat
        /\ settled \in Seq({"pass", "fail", "block"})
    BY <2>1, PipelineType DEF TypeOK, ResponseTypes
  <2>3. DOMAIN verdicts = 1..Len(verdicts) /\ DOMAIN settled = 1..Len(settled)
    BY <2>2
  <2>4. DenyWins
    <3>1. pc = "forwarded" => Len(verdicts) = Len(stages)
      BY <2>1, <2>2 DEF TypeOK, Asked
    <3> QED
      BY <2>1, <2>3, <3>1 DEF DenyWins, Asked
  <2>5. BlockWins
    BY <2>1, <2>3 DEF BlockWins, Settled
  <2> QED
    BY <2>1, <2>4, <2>5 DEF FirstDenyWins
<1> QED
  BY <1>1, ExchangeInvariant, PTL

(* No byte of a response body is lost, repeated or moved by a stage's      *)
(* answers, whatever the sizes and however the stage leaves, and the       *)
(* client is told the length it gets (EvaluateResponse,                    *)
(* runMiddlewareResponse).                                                 *)
THEOREM BodyAlwaysAsAnswered == ExchangeSpec => []BodyAsAnswered
<1>1. XInv => BodyAsAnswered
  BY DEF XInv, Bodies, BodyAsAnswered
<1> QED
  BY <1>1, ExchangeInvariant, PTL

(* Framing trailers are delivered as the upstream sent them and none is    *)
(* created, however many stages edit them (applyTrailerMutations).         *)
THEOREM TrailersAlwaysSafe == ExchangeSpec => []TrailersSafe
<1>1. XInv => TrailersSafe
  BY DEF XInv, TrailersKept, TrailersSafe
<1> QED
  BY <1>1, ExchangeInvariant, PTL

(* Until the response is back, the merged decision is right. *)
OInv == pc # "returned" => Merging

(* The response leaves the request alone. *)
LEMMA DecisionKept == ASSUME OInv, UNCHANGED vars PROVE OInv'
<1>1. /\ pc' = pc /\ i' = i /\ client' = client /\ view' = view /\ acc' = acc /\ muts' = muts
      /\ removed' = removed /\ body' = body /\ wire' = wire /\ intended' = intended
      /\ touched' = touched
  BY DEF vars
<1>2. /\ First' = First
      /\ \A n \in Names : /\ Clean(n)' <=> Clean(n)
                          /\ Dropped(n)' <=> Dropped(n)
                          /\ Canonical(n)' <=> Canonical(n)
  BY <1>1 DEF First, Styles, Clean, Dropped, Canonical
<1>3. Merging => Fresh' /\ Mapped' /\ Styled'
  BY <1>1 DEF Merging, Fresh, Mapped, Styled, Named
<1>4. Merging => Accumulated' /\ Shown' /\ Sent'
  BY <1>1, <1>2 DEF Merging, Accumulated, Shown, Sent
<1> QED
  BY <1>1, <1>3, <1>4 DEF OInv, Merging

(* Every step of an exchange preserves it. *)
LEMMA DecisionStep == XInv /\ OInv /\ [ExchangeNext]_exchangeVars => OInv'
<1> SUFFICES ASSUME XInv, OInv, [ExchangeNext]_exchangeVars PROVE OInv'
  OBVIOUS
<1>1. CASE Next
  BY <1>1, RequestRuns, MergingStep DEF XInv, OInv
<1>2. ASSUME NEW r \in Upstream, Respond(r) PROVE OInv'
  BY <1>2 DEF Respond, OInv
<1>3. CASE UNCHANGED requestVars
  BY <1>3, DecisionKept DEF requestVars
<1>4. CASE ResponseFailure \/ ResponseSkip \/ ResponseBlock \/ Deliver
  BY <1>3, <1>4 DEF ResponseFailure, ResponseSkip, ResponseBlock, Deliver
<1>5. ASSUME NEW ok, Buffer(ok) PROVE OInv'
  BY <1>3, <1>5 DEF Buffer
<1>6. ASSUME NEW m, NEW ms, Preflight(m, ms) PROVE OInv'
  BY <1>3, <1>6 DEF Preflight
<1>7. ASSUME NEW a, BodyUnit(a) PROVE OInv'
  BY <1>3, <1>7 DEF BodyUnit
<1>8. ASSUME NEW ms, Trailers(ms) PROVE OInv'
  BY <1>3, <1>8 DEF Trailers
<1>9. CASE UNCHANGED exchangeVars
  BY <1>3, <1>9 DEF exchangeVars, requestVars
<1> QED
  BY <1>1, <1>2, <1>4, <1>5, <1>6, <1>7, <1>8, <1>9 DEF ExchangeNext, ResponseNext

(* It holds throughout an exchange. *)
LEMMA DecisionInvariant == ExchangeSpec => []OInv
<1>1. ExchangeInit => OInv
  BY MergingInit DEF ExchangeInit, OInv
<1> QED
  BY <1>1, DecisionStep, ExchangeInvariant, PTL DEF ExchangeSpec

(* The one merged decision runMiddleware carries out does to every header  *)
(* that is clean what the stages' edits would have done one after the      *)
(* other, for any pipeline, spellings, client headers and mutations        *)
(* (Pipeline.Run, runMiddleware).                                          *)
THEOREM EditsAlwaysInOrder == ExchangeSpec => []InOrder
<1>1. OInv => InOrder
  BY DEF OInv, Merging, Sent, InOrder
<1> QED
  BY <1>1, DecisionInvariant, PTL

(* What was inspected is what is sent: the body the last stage left, and   *)
(* every header spelt canonically as the map shown to the stages had it    *)
(* (Pipeline.Run against runMiddleware).                                   *)
THEOREM AlwaysSentAsInspected == ExchangeSpec => []SentAsInspected
<1>1. OInv => SentAsInspected
  <2> SUFFICES ASSUME OInv, pc = "forwarded" PROVE SentAsInspected
    BY DEF SentAsInspected
  <2>1. Shown /\ Sent
    BY DEF OInv, Merging
  <2>2. wire.body = body
    BY <2>1 DEF Sent
  <2>3. ASSUME NEW n \in Names, Clean(n), \A e \in touched[n] : e[2] = n, Len(client[n]) <= 1
        PROVE  wire.header[n] = view[n]
    BY <2>1, <2>3 DEF Shown, Sent, Canonical
  <2> QED
    BY <2>2, <2>3 DEF SentAsInspected
<1> QED
  BY <1>1, DecisionInvariant, PTL
=============================================================================
