------------------------- MODULE PolicyAdvisorProofs -------------------------
(***************************************************************************)
(* What the policy.local advisor tells an agent, for any number of         *)
(* connections, proposals, documents, policy changes and restarts: only    *)
(* decisions the gateway made, policy_reloaded only with a reason, and no  *)
(* early end of a wait without something final.                            *)
(***************************************************************************)
EXTENDS PolicyAdvisor, TLAPS

Decided == {"approved", "rejected"}

(* A status that speaks of a decision is the gateway's own. *)
Genuine(i, s) == s \in Decided => gateway[i] = s

(* What a record's generation means: this process saw the approval when    *)
(* that policy was in force, so a later one came after the approval.       *)
Dated(i, record) ==
    record.gen > 0 =>
        /\ i \in approved
        /\ record.gen <= policyGen
        /\ record.gen < policyGen => i \in applied

(* Every request names a proposal and has seen the document in force; one  *)
(* that posts is a submission whose id nobody else uses, and the gateway   *)
(* does not know it yet.                                                   *)
RequestsNamed ==
    /\ \A q \in Procs : pc[q] # "idle" => id[q] \in Ids /\ doc \in since[q]
    /\ \A q \in Procs : pc[q] = "post" =>
          /\ call[q] = "submit"
          /\ gateway[id[q]] = "none"
          /\ proposals[id[q]] # None
    /\ \A q, r \in Procs : pc[q] = "post" /\ pc[r] = "post" /\ q # r => id[q] # id[r]

RecordsGenuine ==
    \A i \in Ids : Genuine(i, proposals[i].status) /\ Dated(i, proposals[i])

(* An answer of the gateway that is still on its way. *)
AnswersGenuine ==
    \A q \in Procs : pc[q] = "store" => remote[q] # "none" /\ Genuine(id[q], remote[q])

(* The copy a request decides by. *)
CopiesGenuine ==
    \A q \in Procs :
        /\ pc[q] \in {"decide", "document", "generation"} =>
              Genuine(id[q], p[q].status) /\ Dated(id[q], p[q])
        /\ pc[q] \in {"document", "generation"} => p[q].status = "approved"

RepliesGenuine ==
    \A q \in Procs : Replied(q) => Genuine(id[q], reply[q].status)

AInv ==
    /\ TypeOK
    /\ RequestsNamed
    /\ RecordsGenuine
    /\ AnswersGenuine
    /\ CopiesGenuine
    /\ RepliesGenuine
    /\ ReloadJustified
    /\ WaitsForPolicy

(* No proposal, no open request. *)
LEMMA AdvisorInit == Init => AInv
BY AdvisorAssumption
DEF Init, AInv, TypeOK, RequestsNamed, RecordsGenuine, AnswersGenuine, CopiesGenuine,
    RepliesGenuine, ReloadJustified, WaitsForPolicy, Replied, Genuine, Dated, Decided,
    Proposals, Statuses, None

Replies == [status: Statuses \cup {"none"}, reloaded: BOOLEAN]

(* Every status the advisor can put in an answer. *)
LEMMA StatusType ==
  /\ \A s \in Statuses, b \in BOOLEAN : Status(s, b) \in Replies
  /\ NotFound \in Replies
BY DEF Status, NotFound, Replies

(* Answering keeps replies typed, whatever the answer. *)
LEMMA AnswerType ==
  ASSUME NEW q \in Procs, TypeOK, NEW r \in Replies, Answer(q, r)
  PROVE  /\ reply' \in [Procs -> Replies \cup {NoReply}]
         /\ pc' \in [Procs -> {"idle", "post", "lookup", "fetch", "store", "again",
                               "decide", "document", "generation", "reply"}]
BY DEF TypeOK, Answer, Goto, Replies

(* Each step of a connection, the gateway or the watcher keeps the types.  *)
LEMMA TypeStep == AInv /\ [Next]_vars => TypeOK'
<1> SUFFICES ASSUME AInv, [Next]_vars PROVE TypeOK'
  OBVIOUS
<1> USE AdvisorAssumption
    DEF AInv, TypeOK, RequestsNamed, Proposals, Statuses, None, Goto, callVars
<1>1. ASSUME NEW d \in Docs, Apply(d) PROVE TypeOK'
  BY <1>1 DEF Apply
<1>2. ASSUME NEW d \in Docs, Restart(d) PROVE TypeOK'
  BY <1>2 DEF Restart
<1>3. ASSUME NEW i \in Ids, NEW s \in Decided, GatewayDecides(i, s) PROVE TypeOK'
  BY <1>3 DEF GatewayDecides, Decided
<1>4. ASSUME NEW q \in Procs, NEW i \in Ids, Submit(q, i) PROVE TypeOK'
  <2>1. Status("pending", FALSE) \in Replies
    BY StatusType
  <2>2. reply' \in [Procs -> Replies \cup {NoReply}]
    BY <1>4, <2>1 DEF Submit, Arrive, Replies
  <2>3. proposals' \in [Ids -> Proposals \cup {None}]
    BY <1>4 DEF Submit
  <2>4. /\ pc' \in [Procs -> {"idle", "post", "lookup", "fetch", "store", "again",
                              "decide", "document", "generation", "reply"}]
        /\ call' \in [Procs -> {"submit", "get", "wait"}]
        /\ id' \in [Procs -> Ids \cup {NoId}]
        /\ since' \in [Procs -> SUBSET Docs]
    BY <1>4 DEF Submit, Arrive
  <2> QED
    BY <1>4, <2>2, <2>3, <2>4 DEF Submit, Replies
<1>5. ASSUME NEW q \in Procs, NEW i \in Ids, Get(q, i) \/ Wait(q, i) PROVE TypeOK'
  <2>1. CASE Get(q, i)
    BY <2>1 DEF Get, Arrive
  <2>2. CASE Wait(q, i)
    BY <2>2 DEF Wait, Arrive
  <2> QED
    BY <1>5, <2>1, <2>2
<1>6. ASSUME NEW q \in Procs, DeadlinePasses(q) PROVE TypeOK'
  BY <1>6 DEF DeadlinePasses
<1>7. ASSUME NEW q \in Procs, Post(q) PROVE TypeOK'
  <2>1. \E r \in Replies : Answer(q, r)
    BY <1>7, StatusType DEF Post
  <2>2. gateway' \in [Ids -> Statuses \cup {"none"}]
    BY <1>7 DEF Post
  <2>3. /\ reply' \in [Procs -> Replies \cup {NoReply}]
        /\ pc' \in [Procs -> {"idle", "post", "lookup", "fetch", "store", "again",
                              "decide", "document", "generation", "reply"}]
    BY <2>1, AnswerType
  <2> QED
    BY <1>7, <2>2, <2>3 DEF Post, Replies
<1>8. ASSUME NEW q \in Procs, Lookup(q) PROVE TypeOK'
  BY <1>8 DEF Lookup
<1>9. ASSUME NEW q \in Procs, Fetch(q) \/ FetchError(q) PROVE TypeOK'
  BY <1>9 DEF Fetch, FetchError
<1>10. ASSUME NEW q \in Procs, Store(q) PROVE TypeOK'
  BY <1>10 DEF Store, AnswersGenuine
<1>11. ASSUME NEW q \in Procs, LookAgain(q) PROVE TypeOK'
  BY <1>11 DEF LookAgain
<1>12. ASSUME NEW q \in Procs, Decide(q) PROVE TypeOK'
  <2>1. CASE \E r \in Replies : Answer(q, r)
    BY <1>12, <2>1, AnswerType DEF Decide, Replies
  <2>2. CASE UNCHANGED reply
    BY <1>12, <2>2 DEF Decide, Sleep, Answer
  <2> QED
    BY <1>12, <2>1, <2>2, StatusType DEF Decide, Sleep
<1>13. ASSUME NEW q \in Procs, ReadDocument(q) PROVE TypeOK'
  <2>1. CASE \E r \in Replies : Answer(q, r)
    BY <1>13, <2>1, AnswerType DEF ReadDocument, Replies
  <2>2. CASE UNCHANGED reply /\ \E l \in {"lookup", "generation"} : Goto(q, l)
    BY <1>13, <2>2 DEF ReadDocument
  <2> QED
    BY <1>13, <2>1, <2>2, StatusType DEF ReadDocument, Conclude, Sleep
<1>14. ASSUME NEW q \in Procs, ReadGeneration(q) PROVE TypeOK'
  <2>1. CASE \E r \in Replies : Answer(q, r)
    BY <1>14, <2>1, AnswerType DEF ReadGeneration, Replies
  <2>2. CASE UNCHANGED reply /\ \E l \in {"lookup", "generation"} : Goto(q, l)
    BY <1>14, <2>2 DEF ReadGeneration
  <2> QED
    BY <1>14, <2>1, <2>2, StatusType DEF ReadGeneration, Conclude, Sleep
<1>15. ASSUME NEW q \in Procs, Return(q) PROVE TypeOK'
  BY <1>15 DEF Return
<1>16. CASE UNCHANGED vars
  BY <1>16 DEF vars
<1> QED
  BY <1>1, <1>2, <1>3, <1>4, <1>5, <1>6, <1>7, <1>8, <1>9, <1>10, <1>11, <1>12, <1>13,
     <1>14, <1>15, <1>16 DEF Next, Step, Decided

(* What a step that only looks at shared state leaves alone. *)
Looked(q) ==
    /\ pc[q] \in {"decide", "document", "generation"}
    /\ UNCHANGED <<doc, policyGen, proposals, gateway, call, id, p, remote, late, approved,
                    applied, since>>

(* The invariant without the types. *)
OtherInv ==
    /\ RequestsNamed /\ RecordsGenuine /\ AnswersGenuine /\ CopiesGenuine
    /\ RepliesGenuine /\ ReloadJustified /\ WaitsForPolicy

(* A request that has looked at its copy goes on to the next read, or back *)
(* to the start.                                                           *)
LEMMA Moved ==
  ASSUME AInv, NEW q \in Procs, Looked(q), UNCHANGED reply,
         NEW l \in {"lookup", "document", "generation"}, Goto(q, l),
         l # "lookup" => p[q].status = "approved"
  PROVE  OtherInv'
BY DEF OtherInv, AInv, TypeOK, Looked, Goto, RequestsNamed, RecordsGenuine, AnswersGenuine,
       CopiesGenuine, RepliesGenuine, ReloadJustified, WaitsForPolicy, Replied, Genuine, Dated

(* A request that has looked at its copy is answered: the answer must be   *)
(* genuine, a claimed reload justified, an early answer final.             *)
LEMMA Told ==
  ASSUME AInv, NEW q \in Procs, Looked(q), NEW r, Answer(q, r),
         Genuine(id[q], r.status),
         r.reloaded => (\E d \in since[q] : id[q] \in Names[d]) \/ id[q] \in applied,
         call[q] = "wait" /\ q \notin late =>
            r.status \in {"none", "rejected"} \/ (r.status = "approved" /\ r.reloaded)
  PROVE  OtherInv'
<1>1. /\ \A o \in Procs \ {q} : pc'[o] = pc[o] /\ reply'[o] = reply[o]
      /\ pc'[q] = "reply" /\ reply'[q] = r
  BY DEF Answer, Goto, AInv, TypeOK
<1>2. UNCHANGED <<doc, policyGen, proposals, gateway, call, id, p, remote, late, approved,
                  applied, since>> /\ pc[q] # "idle"
  BY DEF Looked
<1>3. \A o \in Procs : Replied(o)' => o = q \/ (o # q /\ Replied(o))
  BY <1>1, <1>2 DEF Replied
<1>4. RequestsNamed'
  BY <1>1, <1>2 DEF AInv, RequestsNamed
<1>5. RecordsGenuine'
  BY <1>2 DEF AInv, RecordsGenuine, Genuine, Dated
<1>6. AnswersGenuine' /\ CopiesGenuine'
  BY <1>1, <1>2 DEF AInv, AnswersGenuine, CopiesGenuine, Genuine, Dated
<1>7. RepliesGenuine'
  BY <1>1, <1>2, <1>3 DEF AInv, RepliesGenuine, Genuine
<1>8. ReloadJustified'
  BY <1>1, <1>2, <1>3 DEF AInv, ReloadJustified
<1>9. WaitsForPolicy'
  BY <1>1, <1>2, <1>3 DEF AInv, WaitsForPolicy
<1> QED
  BY <1>4, <1>5, <1>6, <1>7, <1>8, <1>9 DEF OtherInv

(* Each step keeps records, answers, copies and replies genuine.           *)
LEMMA AdvisorStep == AInv /\ [Next]_vars => AInv'
<1> SUFFICES ASSUME AInv, [Next]_vars, TypeOK' PROVE OtherInv'
  BY TypeStep DEF AInv, OtherInv
<1>1. ASSUME NEW q \in Procs, NEW i \in Ids, Submit(q, i) PROVE OtherInv'
  <2>1. /\ \A r \in Procs \ {q} : pc'[r] = pc[r] /\ call'[r] = call[r] /\ id'[r] = id[r]
                                   /\ since'[r] = since[r] /\ reply'[r] = reply[r]
        /\ pc'[q] \in {"post", "reply"} /\ call'[q] = "submit" /\ id'[q] = i
        /\ since'[q] = {doc}
    BY <1>1 DEF Submit, Arrive, Goto, AInv, TypeOK
  <2>2. /\ UNCHANGED <<doc, policyGen, gateway, p, remote, late, approved, applied>>
        /\ gateway[i] = "none" /\ proposals[i] = None
    BY <1>1 DEF Submit
  <2>3. /\ \A j \in Ids \ {i} : proposals'[j] = proposals[j]
        /\ proposals'[i].status = "pending" /\ proposals'[i].gen = 0 /\ proposals'[i] # None
    BY <1>1 DEF Submit, AInv, TypeOK, None
  <2>4. RequestsNamed'
    <3>1. \A r \in Procs : pc[r] = "post" => id[r] # i /\ id[r] \in Ids
      BY <2>2 DEF AInv, RequestsNamed
    <3> QED
      BY <2>1, <2>2, <2>3, <3>1 DEF AInv, RequestsNamed
  <2>5. RecordsGenuine'
    BY <2>2, <2>3 DEF AInv, RecordsGenuine, Genuine, Dated, Decided
  <2>6. AnswersGenuine' /\ CopiesGenuine'
    BY <2>1, <2>2 DEF AInv, AnswersGenuine, CopiesGenuine, Genuine, Dated
  <2>7. RepliesGenuine' /\ ReloadJustified' /\ WaitsForPolicy'
    <3>1. \A r \in Procs : Replied(r)' => r # q /\ Replied(r)
      BY <2>1 DEF Replied
    <3>2. RepliesGenuine'
      BY <2>1, <2>2, <3>1 DEF AInv, RepliesGenuine, Genuine
    <3>3. ReloadJustified'
      BY <2>1, <2>2, <3>1 DEF AInv, ReloadJustified
    <3>4. WaitsForPolicy'
      BY <2>1, <2>2, <3>1 DEF AInv, WaitsForPolicy
    <3> QED
      BY <3>2, <3>3, <3>4
  <2> QED
    BY <2>4, <2>5, <2>6, <2>7 DEF OtherInv
<1>2. ASSUME NEW q \in Procs, Post(q) PROVE OtherInv'
  <2>1. /\ \A r \in Procs \ {q} : pc'[r] = pc[r] /\ reply'[r] = reply[r]
        /\ pc[q] = "post" /\ pc'[q] = "reply"
    <3>1. PICK r : Answer(q, r)
      BY <1>2 DEF Post
    <3> QED
      BY <1>2, <3>1 DEF Post, Answer, Goto, AInv, TypeOK
  <2>2. UNCHANGED <<doc, policyGen, proposals, call, id, p, remote, late, approved,
                    applied, since>>
    BY <1>2 DEF Post
  <2>3. id[q] \in Ids /\ gateway[id[q]] = "none" /\ call[q] = "submit"
    BY <2>1 DEF AInv, RequestsNamed
  <2>4. /\ \A i \in Ids : i # id[q] => gateway'[i] = gateway[i]
        /\ gateway'[id[q]] \in {"none", "pending"}
    <3>1. gateway' = [gateway EXCEPT ![id[q]] = "pending"] \/ gateway' = gateway
      BY <1>2 DEF Post
    <3> QED
      BY <2>3, <3>1 DEF AInv, TypeOK
  <2>5. \A i \in Ids, s \in Decided : gateway[i] = s => gateway'[i] = s
    BY <2>3, <2>4 DEF Decided
  <2>6. RequestsNamed'
    BY <2>1, <2>2, <2>4 DEF AInv, RequestsNamed
  <2>7. RecordsGenuine'
    BY <2>2, <2>5 DEF AInv, RecordsGenuine, Genuine, Dated
  <2>8. AnswersGenuine'
    BY <2>1, <2>2, <2>5 DEF AInv, AnswersGenuine, Genuine, RequestsNamed
  <2>9. CopiesGenuine'
    BY <2>1, <2>2, <2>5 DEF AInv, CopiesGenuine, Genuine, Dated, RequestsNamed
  <2>10. \A r \in Procs : Replied(r)' => r # q /\ Replied(r) /\ id[r] \in Ids
    BY <2>1, <2>2, <2>3 DEF Replied, AInv, RequestsNamed
  <2>11. RepliesGenuine'
    BY <2>1, <2>2, <2>5, <2>10 DEF AInv, RepliesGenuine, Genuine
  <2>12. ReloadJustified'
    BY <2>1, <2>2, <2>10 DEF AInv, ReloadJustified
  <2>13. WaitsForPolicy'
    BY <2>1, <2>2, <2>10 DEF AInv, WaitsForPolicy
  <2> QED
    BY <2>6, <2>7, <2>8, <2>9, <2>11, <2>12, <2>13 DEF OtherInv
<1>3. ASSUME NEW q \in Procs, Decide(q) PROVE OtherInv'
  <2>1. pc[q] = "decide" /\ UNCHANGED <<doc, policyGen, proposals, gateway, call, id, p, remote,
                                         late, approved, applied, since>>
    BY <1>3 DEF Decide
  <2>2. CASE Goto(q, "lookup") /\ UNCHANGED reply
    BY <2>1, <2>2, Moved DEF Looked
  <2>3. CASE Goto(q, "document") /\ UNCHANGED reply /\ p[q].status = "approved"
    BY <2>1, <2>3, Moved DEF Looked
  <2>4. CASE Answer(q, NotFound)
    BY <2>1, <2>4, Told DEF Looked, NotFound, Genuine, Decided
  <2>5. CASE p[q].status = "rejected" /\ Answer(q, Status("rejected", FALSE))
    <3>1. Genuine(id[q], "rejected")
      BY <2>1, <2>5 DEF AInv, CopiesGenuine, Genuine
    <3> QED
      BY <2>1, <2>5, <3>1, Told DEF Looked, Status
  <2>6. CASE (call[q] = "get" \/ q \in late) /\ Answer(q, Status("pending", FALSE))
    BY <2>1, <2>6, Told DEF Looked, Status, Genuine, Decided
  <2> QED
    BY <1>3, <2>2, <2>3, <2>4, <2>5, <2>6 DEF Decide, Sleep
<1>4. ASSUME NEW q \in Procs, ReadDocument(q) PROVE OtherInv'
  <2>1. /\ pc[q] = "document" /\ p[q].status = "approved"
        /\ UNCHANGED <<doc, policyGen, proposals, gateway, call, id, p, remote, late, approved,
                        applied, since>>
    BY <1>4 DEF ReadDocument, AInv, CopiesGenuine
  <2>2. CASE UNCHANGED reply /\ \E l \in {"lookup", "generation"} : Goto(q, l)
    BY <2>1, <2>2, Moved DEF Looked
  <2>3. CASE id[q] \in Names[doc] /\ Answer(q, Status("approved", TRUE))
    <3>1. Genuine(id[q], "approved") /\ doc \in since[q]
      BY <2>1 DEF AInv, CopiesGenuine, RequestsNamed
    <3> QED
      BY <2>1, <2>3, <3>1, Told DEF Looked, Status
  <2> QED
    BY <1>4, <2>2, <2>3 DEF ReadDocument, Conclude, Sleep
<1>5. ASSUME NEW q \in Procs, ReadGeneration(q) PROVE OtherInv'
  <2>1. /\ pc[q] = "generation" /\ p[q].status = "approved"
        /\ UNCHANGED <<doc, policyGen, proposals, gateway, call, id, p, remote, late, approved,
                        applied, since>>
    BY <1>5 DEF ReadGeneration, AInv, CopiesGenuine
  <2>2. Genuine(id[q], "approved") /\ Dated(id[q], p[q])
    BY <2>1 DEF AInv, CopiesGenuine
  <2>3. CASE UNCHANGED reply /\ Goto(q, "lookup")
    BY <2>1, <2>3, Moved DEF Looked
  <2>4. CASE p[q].gen > 0 /\ policyGen > p[q].gen /\ Answer(q, Status("approved", TRUE))
    <3>1. id[q] \in applied
      BY <2>2, <2>4 DEF Dated
    <3> QED
      BY <2>1, <2>2, <2>4, <3>1, Told DEF Looked, Status
  <2>5. CASE (call[q] = "get" \/ q \in late) /\ Answer(q, Status("approved", FALSE))
    BY <2>1, <2>2, <2>5, Told DEF Looked, Status
  <2>6. CASE p[q].gen > 0 /\ policyGen > p[q].gen
    BY <1>5, <2>4, <2>6, <2>3 DEF ReadGeneration, Conclude, Sleep
  <2>7. CASE ~(p[q].gen > 0 /\ policyGen > p[q].gen)
    BY <1>5, <2>5, <2>7, <2>3 DEF ReadGeneration, Conclude, Sleep
  <2> QED
    BY <2>6, <2>7
<1> USE AdvisorAssumption
    DEF AInv, TypeOK, RequestsNamed, RecordsGenuine, AnswersGenuine, CopiesGenuine,
        RepliesGenuine, ReloadJustified, WaitsForPolicy, Replied, Genuine, Dated, Decided,
        Proposals, Statuses, None, Goto, callVars, OtherInv
<1>6. ASSUME NEW d \in Docs, Apply(d) PROVE OtherInv'
  BY <1>6 DEF Apply
<1>7. ASSUME NEW d \in Docs, Restart(d) PROVE OtherInv'
  BY <1>7 DEF Restart
<1>8. ASSUME NEW i \in Ids, NEW s \in Decided, GatewayDecides(i, s) PROVE OtherInv'
  BY <1>8 DEF GatewayDecides
<1>9. ASSUME NEW q \in Procs, NEW i \in Ids, Get(q, i) PROVE OtherInv'
  BY <1>9 DEF Get, Arrive
<1>10. ASSUME NEW q \in Procs, NEW i \in Ids, Wait(q, i) PROVE OtherInv'
  BY <1>10 DEF Wait, Arrive
<1>11. ASSUME NEW q \in Procs, DeadlinePasses(q) PROVE OtherInv'
  BY <1>11 DEF DeadlinePasses
<1>12. ASSUME NEW q \in Procs, Lookup(q) PROVE OtherInv'
  BY <1>12 DEF Lookup
<1>13. ASSUME NEW q \in Procs, Fetch(q) PROVE OtherInv'
  BY <1>13 DEF Fetch
<1>14. ASSUME NEW q \in Procs, FetchError(q) PROVE OtherInv'
  BY <1>14 DEF FetchError
<1>15. ASSUME NEW q \in Procs, Store(q) PROVE OtherInv'
  BY <1>15 DEF Store
<1>16. ASSUME NEW q \in Procs, LookAgain(q) PROVE OtherInv'
  BY <1>16 DEF LookAgain
<1>17. ASSUME NEW q \in Procs, Return(q) PROVE OtherInv'
  BY <1>17 DEF Return
<1>18. CASE UNCHANGED vars
  BY <1>18 DEF vars
<1> QED
  BY <1>1, <1>2, <1>3, <1>4, <1>5, <1>6, <1>7, <1>8, <1>9, <1>10, <1>11, <1>12,
     <1>13, <1>14, <1>15, <1>16, <1>17, <1>18 DEF Next, Step

(* AInv is an invariant of the advisor. *)
LEMMA AdvisorInvariant == Spec => []AInv
BY AdvisorInit, AdvisorStep, PTL DEF Spec

(* policyLocalGet and policyLocalWait report an approval or a rejection    *)
(* only if the gateway made that decision, whatever connections store in   *)
(* between, and the advisor's state is well-typed.                         *)
THEOREM DecisionsAlwaysGenuine == Spec => []DecisionsGenuine
<1>1. AInv => DecisionsGenuine
  BY DEF AInv, RepliesGenuine, Genuine, Decided, DecisionsGenuine
<1> QED
  BY <1>1, AdvisorInvariant, PTL

(* policy_reloaded: true is told only when a document in force since the   *)
(* request names the proposal, or a policy was applied after this process  *)
(* saw the approval, although policyReloaded reads the two at different    *)
(* times and from a copy of the record.                                    *)
THEOREM ReloadAlwaysJustified == Spec => []ReloadJustified
<1>1. AInv => ReloadJustified
  BY DEF AInv
<1> QED
  BY <1>1, AdvisorInvariant, PTL

(* policyLocalWait ends before its deadline only with something final.     *)
THEOREM AlwaysWaitsForPolicy == Spec => []WaitsForPolicy
<1>1. AInv => WaitsForPolicy
  BY DEF AInv
<1> QED
  BY <1>1, AdvisorInvariant, PTL
=============================================================================
