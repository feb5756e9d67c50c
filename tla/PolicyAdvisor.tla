---------------------------- MODULE PolicyAdvisor ----------------------------
(***************************************************************************)
(* The policy.local advisor (proxy/policy_local.go): an agent in the       *)
(* sandbox submits a proposal, waits until someone at the gateway decides  *)
(* it and until the policy that follows is in force.  Connections are      *)
(* served concurrently and share Server.proposals; answers of the gateway  *)
(* arrive late, and policies are applied, by the watcher, at any time.     *)
(*                                                                         *)
(* Apply is one step here.  A document names a proposal when it has a rule *)
(* for one of its hosts or under its name.                                 *)
(***************************************************************************)
EXTENDS Naturals

CONSTANTS
    Procs,       \* connections to policy.local
    Ids,         \* proposals
    Docs,        \* policy documents
    Names,       \* Names[d]: the proposals that document d names
    HasGateway,  \* CAUTEUM_GATEWAY_URL and CAUTEUM_SANDBOX are set
    MaxGen,      \* bound: policies applied
    MaxRestarts  \* bound: restarts of the proxy

CONSTANTS NoId, NoReply

ASSUME AdvisorAssumption ==
    /\ Names \in [Docs -> SUBSET Ids]
    /\ HasGateway \in BOOLEAN
    /\ MaxGen \in Nat /\ MaxRestarts \in Nat

Statuses == {"pending", "approved", "rejected"}

(* A proposal as Server.proposals has it: status and ReloadGenAtDecide. *)
Proposals == [status: Statuses, gen: 0..MaxGen]
None == [status |-> "none", gen |-> 0]

VARIABLES
    doc,        \* Server.doc
    policyGen,  \* Server.policyGen
    proposals,  \* Server.proposals
    gateway,    \* the gateway's word on each proposal; "none" if it has none
    pc,         \* where each connection's request is
    call,       \* "submit", "get" or "wait"
    id,         \* the proposal it is about
    p,          \* the copy that lookupProposal returned
    remote,     \* the status in the gateway's answer
    late,       \* connections whose wait is past its deadline
    reply,      \* the answer to the agent
    restarts,   \* counter behind MaxRestarts
    approved,   \* history: proposals this process has recorded as approved
    applied,    \* history: those after whose approval a policy was applied
    since       \* history: documents in force since each request arrived

callVars == <<call, id, p, remote, late, reply, since>>
vars == <<doc, policyGen, proposals, gateway, pc, callVars, restarts, approved,
          applied>>

Init ==
    /\ doc \in Docs
    /\ policyGen = 0
    /\ proposals = [i \in Ids |-> None]
    /\ pc = [q \in Procs |-> "idle"]
    /\ call = [q \in Procs |-> "get"]
    /\ id = [q \in Procs |-> NoId]
    /\ p = [q \in Procs |-> None]
    /\ remote = [q \in Procs |-> "none"]
    /\ late = {}
    /\ reply = [q \in Procs |-> NoReply]
    /\ approved = {}
    /\ applied = {}
    /\ since = [q \in Procs |-> {}]
    /\ gateway = [i \in Ids |-> "none"]
    /\ restarts = 0

(* The sidecar is restarted: proposals are only in memory, open requests   *)
(* are cut off.                                                            *)
Restart(d) ==
    /\ restarts < MaxRestarts
    /\ restarts' = restarts + 1
    /\ doc' = d
    /\ policyGen' = 0
    /\ proposals' = [i \in Ids |-> None]
    /\ pc' = [q \in Procs |-> "idle"]
    /\ call' = [q \in Procs |-> "get"]
    /\ id' = [q \in Procs |-> NoId]
    /\ p' = [q \in Procs |-> None]
    /\ remote' = [q \in Procs |-> "none"]
    /\ late' = {}
    /\ reply' = [q \in Procs |-> NoReply]
    /\ approved' = {}
    /\ applied' = {}
    /\ since' = [q \in Procs |-> {}]
    /\ UNCHANGED gateway

Goto(q, l) == pc' = [pc EXCEPT ![q] = l]

Apply(d) ==
    /\ policyGen < MaxGen
    /\ doc' = d
    /\ policyGen' = policyGen + 1
    /\ applied' = applied \cup approved
    /\ since' = [q \in Procs |-> IF pc[q] = "idle" THEN {} ELSE since[q] \cup {d}]
    /\ UNCHANGED <<proposals, gateway, pc, call, id, p, remote, late, reply,
                   restarts, approved>>

(* Someone decides a proposal, for good. *)
GatewayDecides(i, s) ==
    /\ gateway[i] = "pending"
    /\ gateway' = [gateway EXCEPT ![i] = s]
    /\ UNCHANGED <<doc, policyGen, proposals, pc, callVars, restarts, approved,
                   applied>>

-----------------------------------------------------------------------------
Arrive(q, c, i, l) ==
    /\ pc[q] = "idle"
    /\ call' = [call EXCEPT ![q] = c]
    /\ id' = [id EXCEPT ![q] = i]
    /\ since' = [since EXCEPT ![q] = {doc}]
    /\ Goto(q, l)

Answer(q, r) ==
    /\ reply' = [reply EXCEPT ![q] = r]
    /\ Goto(q, "reply")

NotFound == [status |-> "none", reloaded |-> FALSE]
Status(s, reloaded) == [status |-> s, reloaded |-> reloaded]

(* The answer is on the wire; the connection waits for the next request. *)
Return(q) ==
    /\ pc[q] = "reply"
    /\ Goto(q, "idle")
    /\ call' = [call EXCEPT ![q] = "get"]
    /\ id' = [id EXCEPT ![q] = NoId]
    /\ p' = [p EXCEPT ![q] = None]
    /\ remote' = [remote EXCEPT ![q] = "none"]
    /\ late' = late \ {q}
    /\ reply' = [reply EXCEPT ![q] = NoReply]
    /\ since' = [since EXCEPT ![q] = {}]
    /\ UNCHANGED <<doc, policyGen, proposals, gateway, restarts, approved,
                   applied>>

(* policyLocalSubmit: one addRule operation under a new id.  It is recorded *)
(* before the gateway is told.                                             *)
Submit(q, i) ==
    /\ proposals[i] = None /\ gateway[i] = "none"
    /\ Arrive(q, "submit", i, IF HasGateway THEN "post" ELSE "reply")
    /\ proposals' = [proposals EXCEPT ![i] = [status |-> "pending", gen |-> 0]]
    /\ reply' = IF HasGateway THEN reply
                ELSE [reply EXCEPT ![q] = Status("pending", FALSE)]
    /\ UNCHANGED <<doc, policyGen, gateway, p, remote, late, restarts, approved,
                   applied>>

(* persistProposal's POST: taken, refused (the operation is rejected, the  *)
(* record stays), or lost on the way there or back (kept as pending).      *)
Post(q) ==
    /\ pc[q] = "post"
    /\ \/ /\ gateway' = [gateway EXCEPT ![id[q]] = "pending"]
          /\ Answer(q, Status("pending", FALSE))
       \/ /\ Answer(q, NotFound)
          /\ UNCHANGED gateway
       \/ /\ Answer(q, Status("pending", FALSE))
          /\ UNCHANGED gateway
    /\ UNCHANGED <<doc, policyGen, proposals, call, id, p, remote, late, restarts,
                   approved, applied, since>>

(* policyLocalGet and policyLocalWait *)
Get(q, i) ==
    /\ Arrive(q, "get", i, "lookup")
    /\ UNCHANGED <<doc, policyGen, proposals, gateway, p, remote, late, reply,
                   restarts, approved, applied>>

Wait(q, i) ==
    /\ Arrive(q, "wait", i, "lookup")
    /\ UNCHANGED <<doc, policyGen, proposals, gateway, p, remote, late, reply,
                   restarts, approved, applied>>

DeadlinePasses(q) ==
    /\ call[q] = "wait"
    /\ pc[q] # "reply"
    /\ q \notin late
    /\ late' = late \cup {q}
    /\ UNCHANGED <<doc, policyGen, proposals, gateway, pc, call, id, p, remote,
                   reply, since, restarts, approved, applied>>

(* lookupProposal; a wait for a proposal that is unknown here or undecided *)
(* asks the gateway and looks again: its first copy is dropped.            *)
Lookup(q) ==
    LET found == proposals[id[q]]
        ask == call[q] = "wait" /\ found.status \in {"none", "pending"} /\ HasGateway
    IN
    /\ pc[q] = "lookup"
    /\ p' = [p EXCEPT ![q] = IF ask THEN None ELSE found]
    /\ Goto(q, IF ask THEN "fetch" ELSE "decide")
    /\ UNCHANGED <<doc, policyGen, proposals, gateway, call, id, remote, late,
                   reply, since, restarts, approved, applied>>

(* refreshProposalFromGateway: the gateway answers; the answer is on its   *)
(* way while the gateway, and other connections, go on.                    *)
Fetch(q) ==
    /\ pc[q] = "fetch"
    /\ gateway[id[q]] # "none"
    /\ remote' = [remote EXCEPT ![q] = gateway[id[q]]]
    /\ Goto(q, "store")
    /\ UNCHANGED <<doc, policyGen, proposals, gateway, call, id, p, late, reply,
                   since, restarts, approved, applied>>

(* Mutant: no answer counts as a rejection. *)
FetchErrorRejects(q) ==
    /\ pc[q] = "fetch"
    /\ remote' = [remote EXCEPT ![q] = "rejected"]
    /\ Goto(q, "store")
    /\ UNCHANGED <<doc, policyGen, proposals, gateway, call, id, p, late, reply,
                   since, restarts, approved, applied>>

(* No answer, an error, or the gateway does not know the proposal. *)
FetchError(q) ==
    /\ pc[q] = "fetch"
    /\ Goto(q, "again")
    /\ UNCHANGED <<doc, policyGen, proposals, gateway, callVars, restarts,
                   approved, applied>>

(* Mutant: the generation is recorded whatever the status. *)
StoreAlways(q) ==
    LET i == id[q] IN
    /\ pc[q] = "store"
    /\ proposals' = [proposals EXCEPT ![i] =
           IF @ = None THEN [status |-> remote[q], gen |-> 0]
           ELSE [status |-> remote[q], gen |-> IF @.gen = 0 THEN policyGen ELSE @.gen]]
    /\ approved' = IF remote[q] = "approved" THEN approved \cup {i} ELSE approved
    /\ remote' = [remote EXCEPT ![q] = "none"]
    /\ Goto(q, "again")
    /\ UNCHANGED <<doc, policyGen, gateway, call, id, p, late, reply, since,
                   restarts, applied>>

(* The answer is stored under Server.mu.  ReloadGenAtDecide is set when    *)
(* the approval is first seen, unless the record itself comes from the     *)
(* gateway.                                                                *)
Store(q) ==
    LET i == id[q]
        yes == remote[q] = "approved"
    IN
    /\ pc[q] = "store"
    /\ proposals' = [proposals EXCEPT ![i] =
           IF @ = None THEN [status |-> remote[q], gen |-> 0]
           ELSE [status |-> remote[q],
                 gen |-> IF yes /\ @.gen = 0 THEN policyGen ELSE @.gen]]
    /\ approved' = IF yes THEN approved \cup {i} ELSE approved
    /\ remote' = [remote EXCEPT ![q] = "none"]
    /\ Goto(q, "again")
    /\ UNCHANGED <<doc, policyGen, gateway, call, id, p, late, reply, since,
                   restarts, applied>>

LookAgain(q) ==
    /\ pc[q] = "again"
    /\ p' = [p EXCEPT ![q] = proposals[id[q]]]
    /\ Goto(q, "decide")
    /\ UNCHANGED <<doc, policyGen, proposals, gateway, call, id, remote, late,
                   reply, since, restarts, approved, applied>>

Sleep(q) == Goto(q, "lookup") /\ UNCHANGED reply

(* Mutant: a wait for an undecided proposal has no deadline. *)
DecideForever(q) ==
    /\ pc[q] = "decide"
    /\ \/ p[q] = None /\ Answer(q, NotFound)
       \/ p[q].status = "approved" /\ Goto(q, "document") /\ UNCHANGED reply
       \/ p[q].status = "rejected" /\ Answer(q, Status("rejected", FALSE))
       \/ p[q].status = "pending" /\ call[q] = "get" /\ Answer(q, Status("pending", FALSE))
       \/ p[q].status = "pending" /\ call[q] = "wait" /\ Sleep(q)
    /\ UNCHANGED <<doc, policyGen, proposals, gateway, call, id, p, remote, late,
                   since, restarts, approved, applied>>

(* What to do with the copy: an approved proposal is put to policyReloaded, *)
(* a wait for an undecided one sleeps until the deadline.                  *)
Decide(q) ==
    /\ pc[q] = "decide"
    /\ \/ p[q] = None /\ Answer(q, NotFound)
       \/ p[q].status = "approved" /\ Goto(q, "document") /\ UNCHANGED reply
       \/ p[q].status = "rejected" /\ Answer(q, Status("rejected", FALSE))
       \/ /\ p[q].status = "pending"
          /\ IF call[q] = "get" \/ q \in late
             THEN Answer(q, Status("pending", FALSE)) ELSE Sleep(q)
    /\ UNCHANGED <<doc, policyGen, proposals, gateway, call, id, p, remote, late,
                   since, restarts, approved, applied>>

(* Mutant: a wait does not wait for the policy. *)
ConcludeAtOnce(q, reloaded) == Answer(q, Status("approved", reloaded))

(* The wait for the policy of an approved proposal goes on to the deadline. *)
Conclude(q, reloaded) ==
    IF call[q] = "get" \/ reloaded \/ q \in late
    THEN Answer(q, Status("approved", reloaded)) ELSE Sleep(q)

(* policyReloaded, first read: the document in force names the proposal. *)
ReadDocument(q) ==
    /\ pc[q] = "document"
    /\ IF id[q] \in Names[doc] THEN Conclude(q, TRUE)
                               ELSE Goto(q, "generation") /\ UNCHANGED reply
    /\ UNCHANGED <<doc, policyGen, proposals, gateway, call, id, p, remote, late,
                   since, restarts, approved, applied>>

(* policyReloaded, second read: a newer generation than at the decision. *)
ReadGeneration(q) ==
    /\ pc[q] = "generation"
    /\ Conclude(q, p[q].gen > 0 /\ policyGen > p[q].gen)
    /\ UNCHANGED <<doc, policyGen, proposals, gateway, call, id, p, remote, late,
                   since, restarts, approved, applied>>

Step(q) ==
    \/ Post(q) \/ Lookup(q) \/ Fetch(q) \/ FetchError(q) \/ Store(q)
    \/ LookAgain(q) \/ Decide(q) \/ ReadDocument(q) \/ ReadGeneration(q)
    \/ Return(q)

Next ==
    \/ \E d \in Docs : Apply(d) \/ Restart(d)
    \/ \E i \in Ids, s \in {"approved", "rejected"} : GatewayDecides(i, s)
    \/ \E q \in Procs :
         \/ \E i \in Ids : Submit(q, i) \/ Get(q, i) \/ Wait(q, i)
         \/ DeadlinePasses(q)
         \/ Step(q)

Spec == Init /\ [][Next]_vars

(* Goroutines run, requests to the gateway have timeouts, time passes. *)
FairSpec ==
    Spec /\ \A q \in Procs : WF_vars(Step(q)) /\ WF_vars(DeadlinePasses(q))

-----------------------------------------------------------------------------
(* Types of the advisor's shared state and of its requests. *)
TypeOK ==
    /\ doc \in Docs
    /\ policyGen \in 0..MaxGen
    /\ proposals \in [Ids -> Proposals \cup {None}]
    /\ gateway \in [Ids -> Statuses \cup {"none"}]
    /\ pc \in [Procs -> {"idle", "post", "lookup", "fetch", "store", "again",
                         "decide", "document", "generation", "reply"}]
    /\ call \in [Procs -> {"submit", "get", "wait"}]
    /\ id \in [Procs -> Ids \cup {NoId}]
    /\ p \in [Procs -> Proposals \cup {None}]
    /\ remote \in [Procs -> Statuses \cup {"none"}]
    /\ late \subseteq Procs
    /\ reply \in [Procs -> [status: Statuses \cup {"none"}, reloaded: BOOLEAN]
                            \cup {NoReply}]
    /\ restarts \in 0..MaxRestarts
    /\ approved \subseteq Ids /\ applied \subseteq approved
    /\ since \in [Procs -> SUBSET Docs]

Replied(q) == pc[q] = "reply" /\ call[q] # "submit"

(* The agent is told of a decision only if the gateway made it, although   *)
(* the record is written by any connection, from answers that may be old,  *)
(* and is lost with the process.  (Types included.)                        *)
DecisionsGenuine ==
    /\ TypeOK
    /\ \A q \in Procs :
         Replied(q) /\ reply[q].status \in {"approved", "rejected"} =>
             gateway[id[q]] = reply[q].status

(* policy_reloaded: true has a reason: a document in force since the agent *)
(* asked names the proposal, or a policy was applied after this process    *)
(* saw the approval (policyReloaded, which reads document and generation   *)
(* at different times).                                                    *)
ReloadJustified ==
    \A q \in Procs :
        Replied(q) /\ reply[q].reloaded =>
            \/ \E d \in since[q] : id[q] \in Names[d]
            \/ id[q] \in applied

(* A wait comes back before its deadline only with something final: not    *)
(* found, rejected, or approved and in force.                              *)
WaitsForPolicy ==
    \A q \in Procs :
        Replied(q) /\ call[q] = "wait" /\ q \notin late =>
            \/ reply[q].status \in {"none", "rejected"}
            \/ reply[q].status = "approved" /\ reply[q].reloaded

(* Every request is answered, whatever the gateway does. *)
RequestsReturn == \A q \in Procs : (pc[q] # "idle") ~> (pc[q] = "idle")
=============================================================================
