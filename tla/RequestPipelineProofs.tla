------------------------ MODULE RequestPipelineProofs ------------------------
(***************************************************************************)
(* Proofs about RequestPipeline, for any documents, keys and requests and  *)
(* any number of flows.                                                    *)
(***************************************************************************)
EXTENDS RequestPipeline, TokenGrantCache, TLAPS

Judged == {"middleware", "grants", "rewrite", "dial", "write", "sent"}

(* Message i of flow f is exempt or was allowed by a policy in force since. *)
MessageOK(f, i) ==
    \/ req[f].msgs[i] \in Exempt /\ batch[f]
    \/ \E d \in since[f] : req[f].msgs[i] \in Permits[d][dest[f]]

(* Histories cover the present, and the request in hand is one. *)
InHand ==
    \A f \in Flows : pc[f] \in Busy =>
        /\ eng \in since[f]
        /\ dest[f] \in Hosts
        /\ req[f] \in RequestType

(* What has been decided so far: the rule, and the messages before at. *)
ProgressOf(f) ==
    pc[f] \in Judged \cup {"messages"} =>
        /\ \E d \in since[f] : Rule[d][dest[f]].kind \in {"single", "batch"}
        /\ \E d \in since[f] : bound[f] = Rule[d][dest[f]].keys
        /\ \A i \in 1..Len(req[f].msgs) :
             pc[f] \in Judged \/ (batch[f] /\ i < at[f]) => MessageOK(f, i)
Progress == \A f \in Flows : ProgressOf(f)

(* A request that has not been judged at L4 starts with its first message. *)
AtStart == \A f \in Flows : pc[f] \in {"idle", "ready", "decide"} => at[f] = 1

(* Where the values come from: nothing captured is a token, a token in the *)
(* working store was granted for this request, and what is substituted is  *)
(* bound.                                                                  *)
Origins ==
    \A f \in Flows, k \in Keys :
        /\ store[f][k] # "token"
        /\ work[f][k] = "token" => k \in granted[f]
        /\ Outbound(f) /\ sent[f][k] # "none" => k \in bound[f]
        /\ Outbound(f) /\ sent[f][k] = "token" => k \in granted[f]

PInv == TypeOK /\ InHand /\ AtStart /\ Progress /\ Origins

-----------------------------------------------------------------------------
(* What was decided for a flow stays decided while the flow itself does    *)
(* not move; more policies may have come into force.                       *)
LEMMA ProgressKept ==
  ASSUME NEW g \in Flows, ProgressOf(g),
         pc'[g] = pc[g], dest'[g] = dest[g], req'[g] = req[g],
         batch'[g] = batch[g], at'[g] = at[g], bound'[g] = bound[g],
         since[g] \subseteq since'[g]
  PROVE  ProgressOf(g)'
<1>1. ASSUME NEW i, MessageOK(g, i) PROVE MessageOK(g, i)'
  BY <1>1 DEF MessageOK
<1>2. CASE pc[g] \in Judged \cup {"messages"}
  <2>1. /\ (\E d \in since[g] : Rule[d][dest[g]].kind \in {"single", "batch"})'
        /\ (\E d \in since[g] : bound[g] = Rule[d][dest[g]].keys)'
    BY <1>2 DEF ProgressOf
  <2>2. ASSUME NEW i \in 1..Len(req[g].msgs), pc[g] \in Judged \/ (batch[g] /\ i < at[g])
        PROVE  MessageOK(g, i)'
    BY <1>1, <1>2, <2>2 DEF ProgressOf
  <2> QED
    BY <2>1, <2>2 DEF ProgressOf
<1> QED
  BY <1>2 DEF ProgressOf

(* NewServer establishes the invariant. *)
LEMMA PipelineInit == Init => PInv
<1> SUFFICES ASSUME Init PROVE PInv
  OBVIOUS
<1>1. /\ batch \in [Flows -> BOOLEAN] /\ opt \in [Flows -> BOOLEAN]
      /\ resolver \in BOOLEAN
  BY ZenonT(20) DEF Init
<1>2. Nothing \in [Keys -> Values]
  BY DEF Nothing, Values
<1>3. TypeOK
  BY <1>1, <1>2, PipelineAssumption DEF Init, TypeOK, Busy
<1>4. InHand /\ AtStart /\ Progress
  BY DEF Init, InHand, AtStart, Progress, ProgressOf, Busy, Judged
<1>5. Origins
  BY DEF Init, Origins, Nothing, Outbound
<1> QED
  BY <1>3, <1>4, <1>5 DEF PInv

(* Every step of the server and of the flows preserves it. *)
LEMMA PipelineStep == PInv /\ [Next]_vars => PInv'
<1> SUFFICES ASSUME PInv, [Next]_vars PROVE PInv'
  OBVIOUS
<1> USE PipelineAssumption DEF PInv, Goto, serverVars, flowVars
<1>1. ASSUME NEW d \in Docs, Apply(d) PROVE PInv'
  <2>1. TypeOK'
    BY <1>1 DEF Apply, Change, TypeOK
  <2>2. InHand' /\ AtStart'
    BY <1>1 DEF Apply, Change, TypeOK, InHand, AtStart
  <2>3. Progress'
    BY <1>1 DEF Apply, Change, TypeOK, Progress, ProgressOf, MessageOK, Judged, Busy
  <2>4. Origins'
    BY <1>1 DEF Apply, Change, TypeOK, Origins, Outbound
  <2> QED
    BY <2>1, <2>2, <2>3, <2>4
<1>2. ASSUME NEW S \in SUBSET Keys, NEW b \in BOOLEAN,
             SetSecrets(S) \/ SetTokenGrants(S) \/ SetTokenGrantResolver(b)
      PROVE  PInv'
  <2>1. TypeOK'
    BY <1>2 DEF SetSecrets, SetTokenGrants, SetTokenGrantResolver, Change, TypeOK
  <2>2. InHand' /\ AtStart' /\ Progress' /\ Origins'
    BY <1>2 DEF SetSecrets, SetTokenGrants, SetTokenGrantResolver, InHand, AtStart,
                Progress, ProgressOf, MessageOK, Origins, Outbound
  <2> QED
    BY <2>1, <2>2
<1>3. ASSUME NEW f \in Flows, NEW h \in Hosts, Connect(f, h) PROVE PInv'
  <2>1. Capture \in [Keys -> Values] /\ \A k \in Keys : Capture[k] # "token"
    BY DEF Capture, Values
  <2>2. TypeOK'
    BY <1>3, <2>1 DEF Connect, TypeOK
  <2>3. InHand' /\ AtStart'
    BY <1>3 DEF Connect, TypeOK, InHand, AtStart, Busy
  <2>5. Progress'
    <3>1. ProgressOf(f)'
      BY <1>3 DEF Connect, TypeOK, ProgressOf, Judged
    <3>2. ASSUME NEW g \in Flows \ {f} PROVE ProgressOf(g)'
      BY <1>3, ProgressKept DEF Connect, TypeOK, Progress
    <3> QED
      BY <3>1, <3>2 DEF Progress
  <2>4. Origins'
    BY <1>3, <2>1 DEF Connect, TypeOK, Origins, Outbound
  <2> QED
    BY <2>2, <2>3, <2>4, <2>5
<1>4. ASSUME NEW f \in Flows, NEW r \in Requests, ReadRequest(f, r) PROVE PInv'
  <2>1. TypeOK'
    BY <1>4 DEF ReadRequest, Take, TypeOK, Busy
  <2>2. InHand' /\ AtStart'
    BY <1>4 DEF ReadRequest, Take, TypeOK, AtStart, InHand, RequestType
  <2>3. Progress'
    BY <1>4 DEF ReadRequest, Take, TypeOK, Progress, ProgressOf, MessageOK, Judged
  <2>4. Origins'
    BY <1>4 DEF ReadRequest, Take, TypeOK, Origins, Outbound
  <2> QED
    BY <2>1, <2>2, <2>3, <2>4
<1>5. ASSUME NEW f \in Flows, NEW r \in Requests, AbsoluteRequest(f, r) PROVE PInv'
  <2>1. Capture \in [Keys -> Values] /\ \A k \in Keys : Capture[k] # "token"
    BY DEF Capture, Values
  <2>2. r.host \in Hosts
    BY DEF RequestType
  <2>3. TypeOK'
    BY <1>5, <2>1, <2>2 DEF AbsoluteRequest, Take, TypeOK, Busy
  <2>4. InHand' /\ AtStart'
    BY <1>5, <2>2 DEF AbsoluteRequest, Take, TypeOK, AtStart, InHand
  <2>5. Progress'
    BY <1>5 DEF AbsoluteRequest, Take, TypeOK, Progress, ProgressOf, MessageOK, Judged
  <2>6. Origins'
    BY <1>5, <2>1 DEF AbsoluteRequest, Take, TypeOK, Origins, Outbound
  <2> QED
    BY <2>3, <2>4, <2>5, <2>6
<1>6. ASSUME NEW f \in Flows, Goto(f, "idle") \/ Goto(f, "ready"), Forget(f),
             \/ UNCHANGED <<dest, store>>
             \/ /\ dest' = [dest EXCEPT ![f] = NoHost]
                /\ store' = [store EXCEPT ![f] = Nothing],
             UNCHANGED serverVars
      PROVE  PInv'
  <2>1. Nothing \in [Keys -> Values] /\ \A k \in Keys : Nothing[k] # "token"
    BY DEF Nothing, Values
  <2>2. batch' \in [Flows -> BOOLEAN] /\ opt' \in [Flows -> BOOLEAN]
    BY <1>6, ZenonT(20) DEF Forget, TypeOK
  <2>3. /\ dest' \in [Flows -> Hosts \cup {NoHost}]
        /\ store' \in [Flows -> [Keys -> Values]]
        /\ \A g \in Flows \ {f} : dest'[g] = dest[g] /\ store'[g] = store[g]
        /\ \A k \in Keys : store'[f][k] # "token"
    <3>1. CASE UNCHANGED <<dest, store>>
      BY <3>1 DEF TypeOK, Origins
    <3>2. CASE /\ dest' = [dest EXCEPT ![f] = NoHost]
               /\ store' = [store EXCEPT ![f] = Nothing]
      BY <3>2, <2>1 DEF TypeOK
    <3> QED
      BY <1>6, <3>1, <3>2
  <2>4. /\ pc' \in [Flows -> Busy \cup {"idle", "ready"}]
        /\ pc'[f] \in {"idle", "ready"}
        /\ \A g \in Flows \ {f} : pc'[g] = pc[g]
    BY <1>6 DEF TypeOK
  <2>5. TypeOK'
    <3>1. /\ req' \in [Flows -> RequestType \cup {NoReq}]
          /\ at' \in [Flows -> Nat]
          /\ bound' \in [Flows -> SUBSET Keys]
      BY <1>6 DEF Forget, TypeOK
    <3>2. /\ work' \in [Flows -> [Keys -> Values]]
          /\ sent' \in [Flows -> [Keys -> Values]]
          /\ since' \in [Flows -> SUBSET Docs]
          /\ granted' \in [Flows -> SUBSET Keys]
      BY <1>6, <2>1 DEF Forget, TypeOK
    <3> QED
      BY <1>6, <2>2, <2>3, <2>4, <3>1, <3>2 DEF TypeOK
  <2>6. \A g \in Flows \ {f} : /\ req'[g] = req[g] /\ batch'[g] = batch[g]
                                /\ at'[g] = at[g] /\ bound'[g] = bound[g]
                                /\ work'[g] = work[g] /\ sent'[g] = sent[g]
                                /\ since'[g] = since[g] /\ granted'[g] = granted[g]
    BY <1>6 DEF Forget, TypeOK
  <2>7. at'[f] = 1 /\ \A k \in Keys : work'[f][k] = "none"
    BY <1>6 DEF Forget, TypeOK, Nothing
  <2>8. InHand' /\ AtStart'
    <3>1. eng' = eng
      BY <1>6
    <3>2. ASSUME NEW g \in Flows, pc'[g] \in Busy
          PROVE  eng' \in since'[g] /\ dest'[g] \in Hosts /\ req'[g] \in RequestType
      BY <2>3, <2>4, <2>6, <3>1, <3>2 DEF InHand, Busy
    <3>3. AtStart'
      BY <2>4, <2>6, <2>7 DEF AtStart
    <3> QED
      BY <3>2, <3>3 DEF InHand
  <2>9. Progress'
    <3>1. ProgressOf(f)'
      BY <2>4 DEF ProgressOf, Judged
    <3>2. ASSUME NEW g \in Flows \ {f} PROVE ProgressOf(g)'
      BY <2>3, <2>4, <2>6, ProgressKept DEF Progress
    <3> QED
      BY <3>1, <3>2 DEF Progress
  <2>10. Origins'
    BY <2>3, <2>4, <2>6, <2>7 DEF Origins, Outbound
  <2> QED
    BY <2>5, <2>8, <2>9, <2>10
<1>7. ASSUME NEW f \in Flows, Decide(f) PROVE PInv'
  <2>1. dest[f] \in Hosts /\ eng \in since[f] /\ eng \in Docs
    BY <1>7 DEF Decide, InHand, Busy, TypeOK
  <2>2. Rule[eng][dest[f]] \in RuleType
    BY <2>1
  <2>3. Rule[eng][dest[f]].keys \subseteq Keys
    BY <2>2 DEF RuleType
  <2>4. batch' \in [Flows -> BOOLEAN]
    BY <1>7, ZenonT(20) DEF Decide, TypeOK
  <2>5. TypeOK'
    BY <1>7, <2>3, <2>4 DEF Decide, TypeOK, Busy
  <2>6. InHand'
    BY <1>7 DEF Decide, TypeOK, InHand, Busy
  <2>7. AtStart'
    BY <1>7 DEF Decide, TypeOK, AtStart
  <2>10. req[f] \in RequestType
    BY <1>7 DEF Decide, InHand, Busy
  <2>8. Progress'
    <3>1. pc'[f] = "messages" /\ at'[f] = 1 /\ bound'[f] = Rule[eng][dest[f]].keys
      BY <1>7 DEF Decide, TypeOK, AtStart
    <3>2. \A i \in 1..Len(req[f].msgs) : ~(i < 1)
      BY <2>1, <2>10 DEF RequestType
    <3>3. ProgressOf(f)'
      BY <1>7, <2>1, <3>1, <3>2 DEF Decide, ProgressOf, Judged
    <3>4. ASSUME NEW g \in Flows \ {f} PROVE ProgressOf(g)'
      BY <1>7, ProgressKept DEF Decide, TypeOK, Progress
    <3> QED
      BY <3>3, <3>4 DEF Progress
  <2>9. Origins'
    BY <1>7 DEF Decide, TypeOK, Origins, Outbound
  <2> QED
    BY <2>5, <2>6, <2>7, <2>8, <2>9
<1>8. ASSUME NEW f \in Flows, DecideMessage(f) PROVE PInv'
  <2>1. eng \in since[f] /\ req[f] \in RequestType /\ at[f] \in Nat
    BY <1>8 DEF DecideMessage, InHand, Busy, TypeOK
  <2>2. MessageOK(f, at[f])
    BY <1>8, <2>1 DEF DecideMessage, MessageOK
  <2>3. TypeOK'
    BY <1>8, <2>1 DEF DecideMessage, TypeOK
  <2>4. InHand' /\ AtStart' /\ Origins'
    BY <1>8 DEF DecideMessage, TypeOK, InHand, AtStart, Origins, Outbound
  <2>5. Len(req[f].msgs) \in Nat
    BY <2>1 DEF RequestType
  <2>6. \A i \in 1..Len(req[f].msgs) : i < at[f] + 1 => MessageOK(f, i)
    <3> SUFFICES ASSUME NEW i \in 1..Len(req[f].msgs), i < at[f] + 1
                 PROVE  MessageOK(f, i)
      OBVIOUS
    <3>1. CASE i = at[f]
      BY <2>2, <3>1
    <3>2. CASE i < at[f]
      BY <1>8, <3>2 DEF DecideMessage, Progress, ProgressOf
    <3> QED
      BY <2>1, <2>5, <3>1, <3>2
  <2>7. at'[f] = at[f] + 1 /\ \A g \in Flows \ {f} : at'[g] = at[g]
    BY <1>8 DEF DecideMessage, TypeOK
  <2>8. Progress'
    BY <1>8, <2>6, <2>7 DEF DecideMessage, Progress, ProgressOf, MessageOK, Judged
  <2> QED
    BY <2>3, <2>4, <2>8
<1>9. ASSUME NEW f \in Flows, DecideBatch(f) PROVE PInv'
  <2>1. req[f] \in RequestType /\ at[f] \in Nat
    BY <1>9 DEF DecideBatch, InHand, Busy, TypeOK
  <2>2. Len(req[f].msgs) \in Nat
    BY <2>1 DEF RequestType
  <2>3. \A i \in 1..Len(req[f].msgs) : MessageOK(f, i)
    BY <1>9, <2>1, <2>2 DEF DecideBatch, Progress, ProgressOf
  <2>4. TypeOK'
    BY <1>9 DEF DecideBatch, TypeOK, Busy
  <2>5. InHand' /\ AtStart' /\ Origins'
    BY <1>9 DEF DecideBatch, TypeOK, InHand, AtStart, Origins, Outbound, Busy
  <2>6. Progress'
    BY <1>9, <2>3 DEF DecideBatch, TypeOK, Progress, ProgressOf, MessageOK, Judged
  <2> QED
    BY <2>4, <2>5, <2>6
<1>10. ASSUME NEW f \in Flows, DecideSingle(f) PROVE PInv'
  <2>1. dest[f] \in Hosts /\ eng \in since[f] /\ eng \in Docs
    BY <1>10 DEF DecideSingle, InHand, Busy, TypeOK
  <2>2. Rule[eng][dest[f]].keys \subseteq Keys
    BY <2>1 DEF RuleType
  <2>3. \A i \in 1..Len(req[f].msgs) : MessageOK(f, i)
    BY <1>10, <2>1 DEF DecideSingle, MessageOK
  <2>4. (Rule[eng][dest[f]].kind = "single" /\ Rule[eng][dest[f]].body) \in BOOLEAN
    OBVIOUS
  <2>5. opt' \in [Flows -> BOOLEAN]
    BY <1>10, <2>4, ZenonT(20) DEF DecideSingle, TypeOK
  <2>6. TypeOK'
    BY <1>10, <2>2, <2>5 DEF DecideSingle, TypeOK, Busy
  <2>7. InHand' /\ AtStart'
    BY <1>10 DEF DecideSingle, TypeOK, InHand, AtStart, Busy
  <2>9. Origins'
    BY <1>10 DEF DecideSingle, TypeOK, Origins, Outbound
  <2>8. Progress'
    <3>1. \A i \in 1..Len(req[f].msgs) : MessageOK(f, i)'
      BY <1>10, <2>3 DEF DecideSingle, MessageOK
    <3>2. ProgressOf(f)'
      BY <1>10, <2>1, <3>1 DEF DecideSingle, TypeOK, Progress, ProgressOf
    <3>3. ASSUME NEW g \in Flows \ {f} PROVE ProgressOf(g)'
      BY <1>10, ProgressKept DEF DecideSingle, TypeOK, Progress
    <3> QED
      BY <3>2, <3>3 DEF Progress
  <2> QED
    BY <2>6, <2>7, <2>8, <2>9
<1>11. ASSUME NEW f \in Flows, NEW r \in Requests, Middleware(f, r.head, r.body)
       PROVE  PInv'
  <2>1. r.head \subseteq Keys /\ r.body \subseteq Keys
    BY DEF RequestType
  <2>2. req[f] \in RequestType
    BY <1>11 DEF Middleware, InHand, Busy
  <2>3. [req[f] EXCEPT !.head = r.head, !.body = r.body] \in RequestType
    BY <2>1, <2>2 DEF RequestType
  <2>4. req' = [req EXCEPT ![f] = [req[f] EXCEPT !.head = r.head, !.body = r.body]]
    BY <1>11, <2>2 DEF Middleware, TypeOK, RequestType
  <2>5. req'[f] \in RequestType /\ req'[f].msgs = req[f].msgs
    BY <2>2, <2>3, <2>4 DEF TypeOK, RequestType
  <2>6. TypeOK'
    BY <1>11, <2>3, <2>4 DEF Middleware, TypeOK, Busy
  <2>7. InHand' /\ AtStart' /\ Origins'
    BY <1>11, <2>4, <2>5 DEF Middleware, TypeOK, InHand, AtStart, Origins, Outbound, Busy
  <2>8. Progress'
    <3>1. \A i \in 1..Len(req[f].msgs) : MessageOK(f, i)
      BY <1>11 DEF Middleware, Progress, ProgressOf, Judged
    <3>2. \A i \in 1..Len(req'[f].msgs) : MessageOK(f, i)'
      BY <1>11, <2>5, <3>1 DEF Middleware, MessageOK
    <3>3. ProgressOf(f)'
      BY <1>11, <3>2 DEF Middleware, TypeOK, Progress, ProgressOf, Judged
    <3>4. ASSUME NEW g \in Flows \ {f} PROVE ProgressOf(g)'
      BY <1>11, <2>4, ProgressKept DEF Middleware, TypeOK, Progress
    <3> QED
      BY <3>3, <3>4 DEF Progress
  <2> QED
    BY <2>6, <2>7, <2>8
<1>12. ASSUME NEW f \in Flows, Goto(f, "rewrite") \/ Goto(f, "dial")
                                 \/ Goto(f, "write") \/ Goto(f, "sent"),
              pc[f] \in Judged,
              UNCHANGED <<serverVars, dest, store, req, batch, at, bound, opt, since>>
       PROVE  InHand' /\ AtStart' /\ Progress' /\ pc' \in [Flows -> Busy \cup {"idle", "ready"}]
  <2>1. /\ pc' \in [Flows -> Busy \cup {"idle", "ready"}]
        /\ pc'[f] \in Judged /\ pc'[f] \in Busy
        /\ \A g \in Flows \ {f} : pc'[g] = pc[g]
    BY <1>12 DEF TypeOK, Judged, Busy
  <2>2. InHand' /\ AtStart'
    BY <1>12, <2>1 DEF InHand, AtStart, Busy, Judged
  <2>3. ProgressOf(f)'
    BY <1>12, <2>1 DEF Progress, ProgressOf, MessageOK
  <2>4. ASSUME NEW g \in Flows \ {f} PROVE ProgressOf(g)'
    BY <1>12, <2>1, ProgressKept DEF Progress
  <2> QED
    BY <2>1, <2>2, <2>3, <2>4 DEF Progress
<1>13. ASSUME NEW f \in Flows, ResolveGrants(f) PROVE PInv'
  <2> DEFINE wanted == UsedKeys(f) \cap grants
             result == [k \in Keys |-> IF k \in wanted THEN "token" ELSE store[f][k]]
  <2>1. result \in [Keys -> Values] /\ wanted \subseteq Keys
    BY DEF TypeOK, Values
  <2>2. \A k \in Keys : result[k] = "token" => k \in wanted
    BY DEF Origins
  <2>3. /\ work' = [work EXCEPT ![f] = result]
        /\ granted' = [granted EXCEPT ![f] = wanted]
        /\ pc' = [pc EXCEPT ![f] = "rewrite"]
    BY <1>13 DEF ResolveGrants
  <2> HIDE DEF wanted, result
  <2>4. InHand' /\ AtStart' /\ Progress'
    BY <1>12, <1>13 DEF ResolveGrants, Judged
  <2>5. TypeOK'
    BY <1>13, <2>1, <2>3 DEF ResolveGrants, TypeOK, Busy
  <2>6. Origins'
    BY <1>13, <2>2, <2>3 DEF ResolveGrants, TypeOK, Origins, Outbound
  <2> QED
    BY <2>4, <2>5, <2>6
<1>14. ASSUME NEW f \in Flows, Rewrite(f) PROVE PInv'
  <2> DEFINE out == [k \in Keys |-> IF k \in Markers(f) THEN work[f][k] ELSE "none"]
  <2>1. out \in [Keys -> Values]
    BY DEF TypeOK, Values
  <2>2. \A k \in Keys : /\ out[k] # "none" => k \in bound[f]
                        /\ out[k] = "token" => k \in granted[f]
    BY <1>14 DEF Rewrite, FilterSecrets, Origins
  <2>3. sent' = [sent EXCEPT ![f] = out] /\ (Goto(f, "dial") \/ Goto(f, "write"))
    BY <1>14 DEF Rewrite
  <2> HIDE DEF out
  <2>4. InHand' /\ AtStart' /\ Progress' /\ pc' \in [Flows -> Busy \cup {"idle", "ready"}]
    BY <1>12, <1>14, <2>3 DEF Rewrite, Judged
  <2>5. TypeOK'
    BY <1>14, <2>1, <2>3, <2>4 DEF Rewrite, TypeOK
  <2>6. Origins'
    BY <1>14, <2>2, <2>3 DEF Rewrite, TypeOK, Origins, Outbound
  <2> QED
    BY <2>4, <2>5, <2>6
<1>15. ASSUME NEW f \in Flows, Dial(f) \/ Write(f) PROVE PInv'
  <2>1. InHand' /\ AtStart' /\ Progress' /\ pc' \in [Flows -> Busy \cup {"idle", "ready"}]
    BY <1>12, <1>15 DEF Dial, Write, Judged
  <2>2. TypeOK'
    BY <1>15, <2>1 DEF Dial, Write, TypeOK
  <2>3. Origins'
    BY <1>15 DEF Dial, Write, TypeOK, Origins, Outbound
  <2> QED
    BY <2>1, <2>2, <2>3
<1>16. ASSUME NEW f \in Flows,
              \/ DecideDeny(f) \/ DecideMalformed(f) \/ DecideMessageDeny(f)
              \/ MiddlewareDeny(f) \/ ResolveGrantsError(f) \/ RewriteDeny(f)
              \/ DialError(f) \/ Respond(f)
       PROVE  PInv'
  <2>1. Leave(f) \/ (Goto(f, "ready") /\ Forget(f) /\ UNCHANGED <<serverVars, dest, store>>)
    BY <1>16 DEF DecideDeny, DecideMalformed, DecideMessageDeny, MiddlewareDeny,
       ResolveGrantsError, RewriteDeny, DialError, Respond
  <2> QED
    BY <1>6, <2>1 DEF Leave
<1>17. CASE UNCHANGED vars
  BY <1>17 DEF vars, TypeOK, InHand, AtStart, Progress, ProgressOf, MessageOK, Origins, Outbound
<1> QED
  <2>1. SUBSET Keys # {} /\ TRUE \in BOOLEAN
    OBVIOUS
  <2> QED
    BY <2>1, <1>1, <1>2, <1>3, <1>4, <1>5, <1>7, <1>8, <1>9, <1>10, <1>11, <1>13,
       <1>14, <1>15, <1>16, <1>17 DEF Next, FlowStep

(* The invariant holds in every behaviour of the pipeline. *)
THEOREM PipelineInvariant == Spec => []PInv
BY PipelineInit, PipelineStep, PTL DEF Spec

(* BoundOnly, for every policy, key and request: a credential leaves only  *)
(* for a host to which a policy in force since the request was read binds  *)
(* it.                                                                     *)
THEOREM CredentialsAlwaysBound == Spec => []BoundOnly
<1>1. PInv => BoundOnly
  BY DEF PInv, TypeOK, Progress, ProgressOf, Origins, BoundOnly, Outbound, Judged
<1> QED
  BY <1>1, PipelineInvariant, PTL

(* MessagesPermitted: no message of a batch gets out unjudged. *)
THEOREM MessagesAlwaysPermitted == Spec => []MessagesPermitted
<1>1. PInv => MessagesPermitted
  BY DEF PInv, Progress, ProgressOf, MessageOK, MessagesPermitted, Outbound, Judged
<1> QED
  BY <1>1, PipelineInvariant, PTL

(* GrantFresh: no token outlives the request it was granted for. *)
THEOREM GrantsAlwaysFresh == Spec => []GrantFresh
<1>1. PInv => GrantFresh
  BY DEF PInv, Origins, GrantFresh
<1> QED
  BY <1>1, PipelineInvariant, PTL

(* The pipeline's state is always well-typed. *)
THEOREM TypeCorrect == Spec => []TypeOK
<1>1. PInv => TypeOK
  BY DEF PInv
<1> QED
  BY <1>1, PipelineInvariant, PTL

-----------------------------------------------------------------------------
(* The token grants the pipeline asks for *)

(* The clock a request read is not ahead of the clock, nor of the issue of *)
(* the token it is about to store.                                         *)
Clocks ==
    \A p \in Procs :
        /\ asked[p] <= now
        /\ step[p] # "idle" => grant[p] \in Grants
        /\ step[p] = "store" => token[p] \in Tokens /\ asked[p] <= token[p].issued

(* An entry expires no later than its token: the margin may be eaten up by *)
(* the exchange, the lifetime may not.                                     *)
EntriesHonest ==
    \A g \in Grants :
        CacheTTL[g] = 0 /\ cache[g] # NoToken /\ cache[g].token.life > 0 =>
            cache[g].expires <= Expiry(cache[g].token)

GInv == GrantTypeOK /\ Clocks /\ EntriesHonest /\ ServedAlive

(* TTL never exceeds a token's lifetime, unless configured. *)
LEMMA TTLBounded ==
  ASSUME NEW g \in Grants, NEW life \in Lifetimes
  PROVE  /\ TTL(g, life) \in Nat
         /\ CacheTTL[g] = 0 /\ life > 0 => TTL(g, life) <= life /\ TTL(g, life) > 0
BY GrantAssumption DEF TTL, Longest

(* A new resolver satisfies the invariant. *)
LEMMA GrantsInit == GrantInit => GInv
BY GrantAssumption DEF GrantInit, GInv, GrantTypeOK, Clocks, EntriesHonest, ServedAlive

(* Every step preserves it. *)
LEMMA GrantsStep == GInv /\ [GrantNext]_grantVars => GInv'
<1> SUFFICES ASSUME GInv, [GrantNext]_grantVars PROVE GInv'
  OBVIOUS
<1> USE GrantAssumption, NoTokenAssumption DEF GInv, Move
<1>1. CASE ClockTicks
  BY <1>1 DEF ClockTicks, GrantTypeOK, Clocks, EntriesHonest, ServedAlive, Expiry
<1>2. ASSUME NEW p \in Procs, NEW g \in Grants, Call(p, g) PROVE GInv'
  BY <1>2 DEF Call, GrantTypeOK, Clocks, EntriesHonest, ServedAlive, Expiry
<1>3. ASSUME NEW p \in Procs, Return(p) PROVE GInv'
  BY <1>3 DEF Return, GrantTypeOK, Clocks, EntriesHonest, ServedAlive, Expiry
<1>4. ASSUME NEW p \in Procs, Hit(p) PROVE GInv'
  <2>1. /\ cache[grant[p]] \in Entries
        /\ asked[p] < cache[grant[p]].expires
    BY <1>4 DEF Hit, Live, GrantTypeOK, Clocks
  <2>2. cache[grant[p]].token \in Tokens
    BY <2>1 DEF Entries
  <2>3. GrantTypeOK'
    BY <1>4, <2>2 DEF Hit, GrantTypeOK
  <2>4. Clocks' /\ EntriesHonest'
    BY <1>4 DEF Hit, GrantTypeOK, Clocks, EntriesHonest, Expiry
  <2>5. ServedAlive'
    <3>1. /\ cache[grant[p]].expires \in Nat
          /\ cache[grant[p]].token.life \in Nat
          /\ cache[grant[p]].token.issued \in Nat
      BY <2>1, <2>2 DEF Entries, Tokens
    <3>2. grant[p] \in Grants /\ cache[grant[p]] # NoToken /\ asked[p] \in Nat
      BY <1>4 DEF Hit, Live, Clocks, GrantTypeOK
    <3>3. CacheTTL[grant[p]] = 0 /\ cache[grant[p]].token.life > 0 =>
             asked[p] < Expiry(cache[grant[p]].token)
      BY <2>1, <3>1, <3>2 DEF EntriesHonest, Expiry
    <3>4. /\ token'[p] = cache[grant[p]].token
          /\ \A q \in Procs \ {p} : token'[q] = token[q] /\ step'[q] = step[q]
          /\ asked' = asked /\ grant' = grant
      BY <1>4 DEF Hit, GrantTypeOK
    <3> QED
      BY <3>3, <3>4 DEF ServedAlive, Expiry
  <2> QED
    BY <2>3, <2>4, <2>5
<1>5. ASSUME NEW p \in Procs, Miss(p) PROVE GInv'
  BY <1>5 DEF Miss, GrantTypeOK, Clocks, EntriesHonest, ServedAlive, Expiry
<1>6. ASSUME NEW p \in Procs, NEW life \in Lifetimes, Exchange(p, life) PROVE GInv'
  <2>1. [issued |-> now, life |-> life] \in Tokens
    BY DEF GrantTypeOK, Tokens
  <2>2. GrantTypeOK'
    BY <1>6, <2>1 DEF Exchange, GrantTypeOK
  <2>3. Clocks' /\ EntriesHonest' /\ ServedAlive'
    BY <1>6, <2>1 DEF Exchange, GrantTypeOK, Clocks, EntriesHonest, ServedAlive, Expiry
  <2> QED
    BY <2>2, <2>3
<1>7. ASSUME NEW p \in Procs, Store(p) PROVE GInv'
  <2> DEFINE t == token[p]
             g == grant[p]
             e == asked[p] + TTL(g, t.life)
  <2>1. g \in Grants /\ t \in Tokens /\ asked[p] <= t.issued /\ asked[p] \in Nat
    BY <1>7 DEF Store, Clocks, GrantTypeOK
  <2>2. t.life \in Lifetimes /\ t.issued \in Nat
    BY <2>1 DEF Tokens
  <2>3. /\ e \in Nat
        /\ CacheTTL[g] = 0 /\ t.life > 0 => e <= Expiry(t) /\ asked[p] < Expiry(t)
    <3>1. /\ TTL(g, t.life) \in Nat
          /\ CacheTTL[g] = 0 /\ t.life > 0 => TTL(g, t.life) <= t.life /\ TTL(g, t.life) > 0
      BY <2>1, <2>2, TTLBounded
    <3>2. t.life \in Nat /\ t.issued \in Nat /\ asked[p] \in Nat /\ asked[p] <= t.issued
      BY <2>1, <2>2
    <3> HIDE DEF t, g
    <3>3. ASSUME NEW n \in Nat, NEW a \in Nat, NEW i \in Nat, NEW l \in Nat, a <= i,
                 n <= l, n > 0
          PROVE  a + n <= i + l /\ a < i + l
      BY <3>3
    <3> QED
      BY <3>1, <3>2, <3>3 DEF Expiry
  <2>4. cache' = [cache EXCEPT ![g] = [token |-> t, expires |-> e]]
    BY <1>7 DEF Store
  <2> HIDE DEF e
  <2>5. GrantTypeOK'
    BY <1>7, <2>1, <2>3, <2>4 DEF Store, GrantTypeOK, Entries
  <2>6. Clocks'
    BY <1>7 DEF Store, GrantTypeOK, Clocks
  <2>7. EntriesHonest'
    BY <2>1, <2>3, <2>4 DEF GrantTypeOK, EntriesHonest, Expiry
  <2>8. ServedAlive'
    BY <1>7, <2>1, <2>3 DEF Store, GrantTypeOK, ServedAlive, Expiry
  <2> QED
    BY <2>5, <2>6, <2>7, <2>8
<1>8. CASE UNCHANGED grantVars
  BY <1>8 DEF grantVars, GrantTypeOK, Clocks, EntriesHonest, ServedAlive, Expiry
<1> QED
  BY <1>1, <1>2, <1>3, <1>4, <1>5, <1>6, <1>7, <1>8
     DEF GrantNext, Unsupported, ExchangeError, Done

(* ServedAlive, for any number of concurrent requests and any lifetimes:   *)
(* no request is served a token that had expired when it asked.            *)
THEOREM TokensServedAlive == GrantSpec => []ServedAlive
<1>1. GInv => ServedAlive
  BY DEF GInv
<1> QED
  BY <1>1, GrantsInit, GrantsStep, PTL DEF GrantSpec

(* The cache's and its callers' state is always well-typed. *)
THEOREM GrantTypeCorrect == GrantSpec => []GrantTypeOK
<1>1. GInv => GrantTypeOK
  BY DEF GInv
<1> QED
  BY <1>1, GrantsInit, GrantsStep, PTL DEF GrantSpec
=============================================================================
