---------------------------- MODULE EgressServer ----------------------------
(***************************************************************************)
(* proxy.Server: hot reload of the policy against CONNECT handlers and the *)
(* streams they leave running (proxy/proxy.go, proxy/terminate.go).        *)
(*                                                                         *)
(* A connection c is a slot in which one CONNECT request after another is  *)
(* served.  Its handler snapshots the policy generation, asks the engine,  *)
(* dials, hijacks, and registers the stream with trackTunnel; from there   *)
(* on a goroutine relays it, raw or after terminating TLS.  Apply runs     *)
(* concurrently under Server.mu.  The engine has a lock of its own: Decide *)
(* and DecideHTTP do not take Server.mu, so they can see a document whose  *)
(* Apply has not closed the old streams yet.                               *)
(***************************************************************************)
EXTENDS Integers, FiniteSets

CONSTANTS
    Conns,       \* slots for client connections
    Docs,        \* policy documents the engine accepts
    Hosts,       \* CONNECT destinations
    LocalHosts,  \* inference.local and policy.local
    Reqs,        \* HTTP requests a client can send on a terminated stream
    Match,       \* Match[d][h]: verdict of engine.Decide, a kind of rule
    Allows,      \* Allows[d][h]: requests that engine.DecideHTTP allows
    Warns,       \* documents with TLS warnings (doc.TLSWarnings)
    MaxGen,      \* bound: number of policies applied
    DenialsMax   \* policyLocalDenialsMax

(* deny: no rule matches; credentialed: blocksUninspectedCredentials;      *)
(* l7: NeedsL7 and tls is not skip; l7skip: NeedsL7 with tls: skip;        *)
(* l4: neither L7 nor tls: skip nor sql; raw: sql, or L4 with tls: skip.   *)
Rules == {"deny", "credentialed", "l7", "l7skip", "l4", "raw"}
Tunnelled == Rules \ {"deny", "credentialed"}

(* The rules whose streams may be relayed without inspecting them. *)
Uninspected == {"l7skip", "l4", "raw"}

ASSUME ServerAssumption ==
    /\ LocalHosts \subseteq Hosts
    /\ Match \in [Docs -> [Hosts -> Rules]]
    /\ Allows \in [Docs -> [Hosts -> SUBSET Reqs]]
    /\ Warns \subseteq Docs
    /\ MaxGen \in Nat
    /\ DenialsMax \in Nat

CONSTANTS NoDoc, NoHost, NoRule, NoReq   \* "not set yet"

VARIABLES
    mu,             \* Server.mu: "free", or the phase of the Apply that holds it
    auditMu,        \* Server.auditMu: "free", "apply" or the connection holding it
    eng,            \* the document inside Server.eng
    doc,            \* Server.doc
    policyGen,      \* Server.policyGen
    activeTunnels,  \* Server.activeTunnels
    ca,             \* Server.ca is not nil
    denials,        \* number of lines in Server.denials
    pc,             \* where each connection's handler or goroutine is
    dest,           \* the CONNECT destination
    gen,            \* policyGen as captured by the handler
    sawCA,          \* connections whose handler captured a CA
    rule,           \* kind of the rule in the handler's decision
    held,           \* connections that have yet to call releaseTunnel
    req,            \* the request being served on a terminated stream
    clientOpen,     \* hijacked client sockets not closed by the proxy
    backendOpen,    \* upstream sockets not closed by the proxy
    up,             \* copy goroutine client -> backend of a raw stream
    down            \* copy goroutine backend -> client of a raw stream

serverVars == <<mu, auditMu, eng, doc, policyGen, activeTunnels, ca, denials>>
localVars  == <<dest, gen, sawCA, rule, req>>
socketVars == <<clientOpen, backendOpen>>
copyVars   == <<up, down>>
vars == <<serverVars, pc, localVars, held, socketVars, copyVars>>

PreTunnel == {"snapshot", "decide", "local", "dial", "hijack"}
Terminated == {"leaf", "loop", "request", "decideL4", "decideL7", "stages",
               "forward", "reply", "relay"}
Refusing == {"audit", "auditing", "record"}
Tunnel == {"established", "peek", "raw", "closing", "release"} \cup Terminated
PCs == {"idle"} \cup PreTunnel \cup Refusing \cup Tunnel

CopyStates == {"read", "write", "end"}

-----------------------------------------------------------------------------
(* Init: NewServer.  The engine may come with a document of its own; s.doc *)
(* is the zero Document and policyGen is 0.  GenerateMitmCA may fail.      *)
Init ==
    /\ mu = "free"
    /\ auditMu = "free"
    /\ eng \in Docs
    /\ doc = NoDoc
    /\ policyGen = 0
    /\ activeTunnels = {}
    /\ ca \in BOOLEAN
    /\ denials = 0
    /\ pc = [c \in Conns |-> "idle"]
    /\ dest = [c \in Conns |-> NoHost]
    /\ gen = [c \in Conns |-> 0]
    /\ sawCA = {}
    /\ rule = [c \in Conns |-> NoRule]
    /\ held = {}
    /\ req = [c \in Conns |-> NoReq]
    /\ clientOpen = {}
    /\ backendOpen = {}
    /\ up = [c \in Conns |-> "end"]
    /\ down = [c \in Conns |-> "end"]

Goto(c, l) == pc' = [pc EXCEPT ![c] = l]

(* The handler or goroutine of c returns: its local variables are gone. *)
Return(c) ==
    /\ Goto(c, "idle")
    /\ dest' = [dest EXCEPT ![c] = NoHost]
    /\ gen' = [gen EXCEPT ![c] = 0]
    /\ sawCA' = sawCA \ {c}
    /\ rule' = [rule EXCEPT ![c] = NoRule]
    /\ req' = [req EXCEPT ![c] = NoReq]

-----------------------------------------------------------------------------
(* Apply.  The engine swap is visible to Decide at once; doc and policyGen *)
(* are only ever read under mu, which Apply keeps until it returns.  A     *)
(* document the engine rejects changes nothing and is not a step.          *)
ApplyInstall(d) ==
    /\ mu = "free"
    /\ policyGen < MaxGen
    /\ eng' = d
    /\ doc' = d
    /\ policyGen' = policyGen + 1
    /\ mu' = "closing"
    /\ UNCHANGED <<auditMu, activeTunnels, ca, denials, pc, localVars, held,
                   socketVars, copyVars>>

(* One iteration of the loop over activeTunnels: close, delete. *)
ApplyClose(c) ==
    /\ mu = "closing"
    /\ c \in activeTunnels
    /\ clientOpen' = clientOpen \ {c}
    /\ activeTunnels' = activeTunnels \ {c}
    /\ UNCHANGED <<mu, auditMu, eng, doc, policyGen, ca, denials, pc,
                   localVars, held, backendOpen, copyVars>>

(* Mutant: Apply returns with streams left in the registry. *)
ApplyClosedEarly ==
    /\ mu = "closing"
    /\ mu' = IF doc \in Warns THEN "warn" ELSE "free"
    /\ UNCHANGED <<auditMu, eng, doc, policyGen, activeTunnels, ca, denials,
                   pc, localVars, held, socketVars, copyVars>>

(* The loop is over: return, or log the warnings with mu still held. *)
ApplyClosed ==
    /\ mu = "closing"
    /\ activeTunnels = {}
    /\ mu' = IF doc \in Warns THEN "warn" ELSE "free"
    /\ UNCHANGED <<auditMu, eng, doc, policyGen, activeTunnels, ca, denials,
                   pc, localVars, held, socketVars, copyVars>>

(* logAudit of a warning: auditMu is taken while mu is held. *)
ApplyWarnLock ==
    /\ mu = "warn"
    /\ auditMu = "free"
    /\ auditMu' = "apply"
    /\ UNCHANGED <<mu, eng, doc, policyGen, activeTunnels, ca, denials, pc,
                   localVars, held, socketVars, copyVars>>

(* Mutant: the path with warnings forgets to unlock mu. *)
ApplyWarnUnlockAuditOnly ==
    /\ mu = "warn"
    /\ auditMu = "apply"
    /\ auditMu' = "free"
    /\ UNCHANGED <<mu, eng, doc, policyGen, activeTunnels, ca, denials, pc,
                   localVars, held, socketVars, copyVars>>

ApplyWarnUnlock ==
    /\ mu = "warn"
    /\ auditMu = "apply"
    /\ auditMu' = "free"
    /\ mu' = "free"
    /\ UNCHANGED <<eng, doc, policyGen, activeTunnels, ca, denials, pc,
                   localVars, held, socketVars, copyVars>>

(* SetCA installs (or, with nil, removes) the interception CA. *)
SetCA(b) ==
    /\ mu = "free"
    /\ ca' = b
    /\ UNCHANGED <<mu, auditMu, eng, doc, policyGen, activeTunnels, denials,
                   pc, localVars, held, socketVars, copyVars>>

-----------------------------------------------------------------------------
(* handleCONNECT: the request arrives (a bad port is refused and audited). *)
Accept(c, h) ==
    /\ pc[c] = "idle"
    /\ up[c] = "end" /\ down[c] = "end"
    /\ dest' = [dest EXCEPT ![c] = h]
    /\ Goto(c, "snapshot")
    /\ UNCHANGED <<serverVars, gen, sawCA, rule, req, held, socketVars, copyVars>>

AcceptBadPort(c) ==
    /\ pc[c] = "idle"
    /\ up[c] = "end" /\ down[c] = "end"
    /\ Goto(c, "audit")
    /\ UNCHANGED <<serverVars, localVars, held, socketVars, copyVars>>

(* The handler reads eng, ca and policyGen under one RLock. *)
Snapshot(c) ==
    /\ pc[c] = "snapshot"
    /\ mu = "free"
    /\ gen' = [gen EXCEPT ![c] = policyGen]
    /\ sawCA' = IF ca THEN sawCA \cup {c} ELSE sawCA \ {c}
    /\ Goto(c, IF dest[c] \in LocalHosts THEN "local" ELSE "decide")
    /\ UNCHANGED <<serverVars, dest, rule, req, held, socketVars, copyVars>>

(* inference.local and policy.local are answered by the proxy itself on a  *)
(* connection that is hijacked, never tracked, and closed on return.       *)
ServeLocal(c) ==
    /\ pc[c] = "local"
    /\ Return(c)
    /\ UNCHANGED <<serverVars, held, socketVars, copyVars>>

(* eng.Decide without Server.mu: the engine may be newer than gen[c].      *)
Decide(c) ==
    LET r == Match[eng][dest[c]] IN
    /\ pc[c] = "decide"
    /\ rule' = [rule EXCEPT ![c] = r]
    /\ Goto(c, IF r \in Tunnelled THEN "dial" ELSE "audit")
    /\ UNCHANGED <<serverVars, dest, gen, sawCA, req, held, socketVars, copyVars>>

(* eng.Decide fails: 500 and an error line, which is not a denial. *)
DecideError(c) ==
    /\ pc[c] = "decide"
    /\ Return(c)
    /\ UNCHANGED <<serverVars, held, socketVars, copyVars>>

(* DialSSRF *)
Dial(c) ==
    /\ pc[c] = "dial"
    /\ backendOpen' = backendOpen \cup {c}
    /\ Goto(c, "hijack")
    /\ UNCHANGED <<serverVars, localVars, held, clientOpen, copyVars>>

DialError(c) ==
    /\ pc[c] = "dial"
    /\ Return(c)
    /\ UNCHANGED <<serverVars, held, socketVars, copyVars>>

(* Mutant: the dialled backend is not closed when Hijack fails. *)
HijackErrorLeak(c) ==
    /\ pc[c] = "hijack"
    /\ Return(c)
    /\ UNCHANGED <<serverVars, held, socketVars, copyVars>>

HijackError(c) ==
    /\ pc[c] = "hijack"
    /\ backendOpen' = backendOpen \ {c}
    /\ Return(c)
    /\ UNCHANGED <<serverVars, held, clientOpen, copyVars>>

(* Mutant: the stream is registered whatever was applied since. *)
TrackTunnelUnchecked(c) ==
    /\ pc[c] = "hijack"
    /\ mu = "free"
    /\ activeTunnels' = activeTunnels \cup {c}
    /\ held' = held \cup {c}
    /\ clientOpen' = clientOpen \cup {c}
    /\ Goto(c, "established")
    /\ UNCHANGED <<mu, auditMu, eng, doc, policyGen, ca, denials, localVars,
                   backendOpen, copyVars>>

(* Hijack, then trackTunnel(clientConn, policyGen): registered only if no  *)
(* policy was applied since the snapshot.                                  *)
TrackTunnel(c) ==
    /\ pc[c] = "hijack"
    /\ mu = "free"
    /\ policyGen = gen[c]
    /\ activeTunnels' = activeTunnels \cup {c}
    /\ held' = held \cup {c}
    /\ clientOpen' = clientOpen \cup {c}
    /\ Goto(c, "established")
    /\ UNCHANGED <<mu, auditMu, eng, doc, policyGen, ca, denials, localVars,
                   backendOpen, copyVars>>

(* A policy was applied since: both sockets are closed, nothing is sent.   *)
TrackTunnelStale(c) ==
    /\ pc[c] = "hijack"
    /\ mu = "free"
    /\ policyGen # gen[c]
    /\ backendOpen' = backendOpen \ {c}
    /\ Return(c)
    /\ UNCHANGED <<serverVars, held, clientOpen, copyVars>>

(* The stream is relayed raw by two copy goroutines. *)
StartRaw(c) ==
    /\ Goto(c, "raw")
    /\ up' = [up EXCEPT ![c] = "read"]
    /\ down' = [down EXCEPT ![c] = "read"]

(* The stream is terminated and inspected, or dropped without a CA. *)
StartMitm(c) ==
    /\ Goto(c, IF c \in sawCA THEN "leaf" ELSE "closing")
    /\ UNCHANGED copyVars

(* 200 Connection Established is written; how the stream is relayed        *)
(* depends on the rule, and on the CA captured before the decision.        *)
Dispatch(c) ==
    /\ pc[c] = "established"
    /\ \/ rule[c] = "l7" /\ StartMitm(c)
       \/ rule[c] = "l4" /\ Goto(c, "peek") /\ UNCHANGED copyVars
       \/ rule[c] \in Uninspected \ {"l4"} /\ StartRaw(c)
    /\ UNCHANGED <<serverVars, localVars, held, socketVars>>

(* tunnelStartsTLS: a TLS record starts the stream. *)
PeekTLS(c) ==
    /\ pc[c] = "peek"
    /\ c \in clientOpen
    /\ StartMitm(c)
    /\ UNCHANGED <<serverVars, localVars, held, socketVars>>

(* tunnelStartsTLS: anything else, or nothing within 100 ms. *)
PeekPlain(c) ==
    /\ pc[c] = "peek"
    /\ c \in clientOpen
    /\ StartRaw(c)
    /\ UNCHANGED <<serverVars, localVars, held, socketVars>>

(* tunnelStartsTLS: SetReadDeadline fails on a closed socket. *)
PeekError(c) ==
    /\ pc[c] = "peek"
    /\ c \notin clientOpen
    /\ Goto(c, "closing")
    /\ UNCHANGED <<serverVars, localVars, held, socketVars, copyVars>>

-----------------------------------------------------------------------------
(* tunnelWithBuf: two copy goroutines; the first to end ends the stream.   *)
(* The peers of either socket may fail at any time.                        *)
UpRead(c) ==
    /\ up[c] = "read"
    /\ \/ c \in clientOpen /\ up' = [up EXCEPT ![c] = "write"]
       \/ up' = [up EXCEPT ![c] = "end"]
    /\ UNCHANGED <<serverVars, pc, localVars, held, socketVars, down>>

UpWrite(c) ==
    /\ up[c] = "write"
    /\ \/ c \in backendOpen /\ up' = [up EXCEPT ![c] = "read"]
       \/ up' = [up EXCEPT ![c] = "end"]
    /\ UNCHANGED <<serverVars, pc, localVars, held, socketVars, down>>

DownRead(c) ==
    /\ down[c] = "read"
    /\ \/ c \in backendOpen /\ down' = [down EXCEPT ![c] = "write"]
       \/ down' = [down EXCEPT ![c] = "end"]
    /\ UNCHANGED <<serverVars, pc, localVars, held, socketVars, up>>

DownWrite(c) ==
    /\ down[c] = "write"
    /\ \/ c \in clientOpen /\ down' = [down EXCEPT ![c] = "read"]
       \/ down' = [down EXCEPT ![c] = "end"]
    /\ UNCHANGED <<serverVars, pc, localVars, held, socketVars, up>>

(* Mutant: both copies are awaited. *)
RawJoinBoth(c) ==
    /\ pc[c] = "raw"
    /\ up[c] = "end" /\ down[c] = "end"
    /\ Goto(c, "closing")
    /\ UNCHANGED <<serverVars, localVars, held, socketVars, copyVars>>

(* <-errCh *)
RawJoin(c) ==
    /\ pc[c] = "raw"
    /\ up[c] = "end" \/ down[c] = "end"
    /\ Goto(c, "closing")
    /\ UNCHANGED <<serverVars, localVars, held, socketVars, copyVars>>

(* time.AfterFunc(maxRawTunnelLifetime): closes the client socket only. *)
RawExpire(c) ==
    /\ pc[c] = "raw"
    /\ c \in clientOpen
    /\ clientOpen' = clientOpen \ {c}
    /\ UNCHANGED <<serverVars, pc, localVars, held, backendOpen, copyVars>>

-----------------------------------------------------------------------------
(* mitmHTTPS: re-reads s.ca, issues the leaf, does both handshakes, and    *)
(* then serves one request after another.                                  *)
MitmStart(c) ==
    /\ pc[c] = "leaf"
    /\ mu = "free"
    /\ \/ ca /\ c \in clientOpen /\ Goto(c, "loop")
       \/ Goto(c, "closing")      \* no CA, no leaf, or a failed handshake
    /\ UNCHANGED <<serverVars, localVars, held, socketVars, copyVars>>

(* Top of the loop: SetReadDeadline fails on a socket that Apply closed. *)
MitmLoop(c) ==
    /\ pc[c] = "loop"
    /\ Goto(c, IF c \in clientOpen THEN "request" ELSE "closing")
    /\ UNCHANGED <<serverVars, localVars, held, socketVars, copyVars>>

(* http.ReadRequest: may return bytes buffered before the socket closed. *)
ReadRequest(c, r) ==
    /\ pc[c] = "request"
    /\ req' = [req EXCEPT ![c] = r]
    /\ Goto(c, "decideL4")
    /\ UNCHANGED <<serverVars, dest, gen, sawCA, rule, held, socketVars, copyVars>>

ReadRequestError(c) ==
    /\ pc[c] = "request"
    /\ Goto(c, "closing")
    /\ UNCHANGED <<serverVars, localVars, held, socketVars, copyVars>>

(* decideHTTP asks the live engine twice, without Server.mu: a policy may  *)
(* be applied between the two answers.                                     *)
DecideL4(c) ==
    /\ pc[c] = "decideL4"
    /\ Goto(c, IF Match[eng][dest[c]] \in Tunnelled THEN "decideL7" ELSE "audit")
    /\ UNCHANGED <<serverVars, localVars, held, socketVars, copyVars>>

(* Mutant: the L4 verdict lets every request of the stream through. *)
DecideL7Skipped(c) ==
    /\ pc[c] = "decideL7"
    /\ Goto(c, "stages")
    /\ UNCHANGED <<serverVars, localVars, held, socketVars, copyVars>>

(* An error of the engine is audited and ends the stream like a denial. *)
DecideL7(c) ==
    /\ pc[c] = "decideL7"
    /\ Goto(c, IF req[c] \in Allows[eng][dest[c]] THEN "stages" ELSE "audit")
    /\ UNCHANGED <<serverVars, localVars, held, socketVars, copyVars>>

(* Middleware (read under mu), token grants, credential binding, rewrite:  *)
(* each may refuse the request and is audited as a denial; a refused       *)
(* WebSocket session is not.                                               *)
Stages(c) ==
    /\ pc[c] = "stages"
    /\ mu = "free"
    /\ \E l \in {"forward", "audit", "closing"} : Goto(c, l)
    /\ UNCHANGED <<serverVars, localVars, held, socketVars, copyVars>>

(* outReq.Write(upTLS) *)
Forward(c) ==
    /\ pc[c] = "forward"
    /\ \/ c \in backendOpen /\ Goto(c, "reply")
       \/ Goto(c, "closing")
    /\ UNCHANGED <<serverVars, localVars, held, socketVars, copyVars>>

(* The response is read, filtered (middleware read under mu) and written:  *)
(* the stream goes on, becomes a WebSocket relay, or ends.                 *)
Reply(c) ==
    /\ pc[c] = "reply"
    /\ mu = "free"
    /\ \/ c \in clientOpen /\ \E l \in {"loop", "relay"} : Goto(c, l)
       \/ Goto(c, "closing")
    /\ UNCHANGED <<serverVars, localVars, held, socketVars, copyVars>>

(* relayWebsocket returns when either side ends. *)
RelayEnd(c) ==
    /\ pc[c] = "relay"
    /\ Goto(c, "closing")
    /\ UNCHANGED <<serverVars, localVars, held, socketVars, copyVars>>

-----------------------------------------------------------------------------
(* Every way out of an established stream: close both sockets, then the    *)
(* deferred releaseTunnel.                                                 *)
CloseSockets(c) ==
    /\ pc[c] = "closing"
    /\ clientOpen' = clientOpen \ {c}
    /\ backendOpen' = backendOpen \ {c}
    /\ Goto(c, "release")
    /\ UNCHANGED <<serverVars, localVars, held, copyVars>>

ReleaseTunnel(c) ==
    /\ pc[c] = "release"
    /\ mu = "free"
    /\ activeTunnels' = activeTunnels \ {c}
    /\ held' = held \ {c}
    /\ Return(c)
    /\ UNCHANGED <<mu, auditMu, eng, doc, policyGen, ca, denials,
                   socketVars, copyVars>>

(* logAudit of a denial: the line is written under auditMu, which is       *)
(* released before recordDenial takes mu.                                  *)
AuditLock(c) ==
    /\ pc[c] = "audit"
    /\ auditMu = "free"
    /\ auditMu' = c
    /\ Goto(c, "auditing")
    /\ UNCHANGED <<mu, eng, doc, policyGen, activeTunnels, ca, denials,
                   localVars, held, socketVars, copyVars>>

AuditUnlock(c) ==
    /\ pc[c] = "auditing"
    /\ auditMu' = "free"
    /\ Goto(c, "record")
    /\ UNCHANGED <<mu, eng, doc, policyGen, activeTunnels, ca, denials,
                   localVars, held, socketVars, copyVars>>

(* Mutant: the list of denials is never trimmed. *)
RecordDenialUntrimmed(c) ==
    /\ pc[c] = "record"
    /\ mu = "free"
    /\ denials' = denials + 1
    /\ \/ c \in held /\ Goto(c, "closing") /\ UNCHANGED localVars
       \/ c \notin held /\ Return(c)
    /\ UNCHANGED <<mu, auditMu, eng, doc, policyGen, activeTunnels, ca,
                   held, socketVars, copyVars>>

RecordDenial(c) ==
    /\ pc[c] = "record"
    /\ mu = "free"
    /\ denials' = IF denials < DenialsMax THEN denials + 1 ELSE denials
    /\ \/ c \in held /\ Goto(c, "closing") /\ UNCHANGED localVars
       \/ c \notin held /\ Return(c)
    /\ UNCHANGED <<mu, auditMu, eng, doc, policyGen, activeTunnels, ca,
                   held, socketVars, copyVars>>

-----------------------------------------------------------------------------
ApplyStep ==
    \/ \E c \in Conns : ApplyClose(c)
    \/ ApplyClosed
    \/ ApplyWarnLock
    \/ ApplyWarnUnlock

(* Steps of the handler and the goroutines of c that need no one outside.  *)
HandlerStep(c) ==
    \/ Snapshot(c) \/ ServeLocal(c) \/ Decide(c) \/ DecideError(c)
    \/ Dial(c) \/ DialError(c) \/ HijackError(c)
    \/ TrackTunnel(c) \/ TrackTunnelStale(c) \/ Dispatch(c)
    \/ PeekTLS(c) \/ PeekPlain(c) \/ PeekError(c)
    \/ AuditLock(c) \/ AuditUnlock(c) \/ RecordDenial(c)
    \/ CloseSockets(c) \/ ReleaseTunnel(c) \/ RawJoin(c)

MitmStep(c) ==
    \/ MitmStart(c) \/ MitmLoop(c)
    \/ (\E r \in Reqs : ReadRequest(c, r)) \/ ReadRequestError(c)
    \/ DecideL4(c) \/ DecideL7(c) \/ Stages(c) \/ Reply(c)

CopyStep(c) == UpRead(c) \/ UpWrite(c) \/ DownRead(c) \/ DownWrite(c)

Next ==
    \/ \E d \in Docs : ApplyInstall(d)
    \/ ApplyStep
    \/ \E b \in BOOLEAN : SetCA(b)
    \/ \E c \in Conns :
         \/ \E h \in Hosts : Accept(c, h)
         \/ AcceptBadPort(c)
         \/ HandlerStep(c)
         \/ MitmStep(c) \/ Forward(c) \/ RelayEnd(c)
         \/ CopyStep(c) \/ RawExpire(c)

Spec == Init /\ [][Next]_vars

(***************************************************************************)
(* Fairness.  Goroutines that can run do run.  A mutex is granted to every *)
(* waiter in the end (sync.RWMutex and sync.Mutex are starvation-free), so *)
(* the steps that take one are strongly fair.  Reads and writes end when   *)
(* the proxy itself has closed the socket; http.ReadRequest and the        *)
(* response have read deadlines; the raw lifetime timer fires.  Nothing    *)
(* makes a backend accept bytes: a write to it may block as long as the    *)
(* socket is open.                                                         *)
(***************************************************************************)
LockStep(c) ==
    \/ Snapshot(c) \/ TrackTunnel(c) \/ TrackTunnelStale(c) \/ ReleaseTunnel(c)
    \/ AuditLock(c) \/ RecordDenial(c) \/ MitmStart(c) \/ Stages(c) \/ Reply(c)

ClosedSocketStep(c) ==
    \/ c \notin clientOpen /\ (UpRead(c) \/ DownWrite(c) \/ RelayEnd(c))
    \/ c \notin backendOpen /\ (UpWrite(c) \/ DownRead(c) \/ Forward(c))

Fairness ==
    /\ WF_vars(ApplyStep)
    /\ SF_vars(ApplyWarnLock)
    /\ \A c \in Conns :
         /\ WF_vars(HandlerStep(c))
         /\ WF_vars(MitmStep(c))
         /\ SF_vars(LockStep(c))
         /\ WF_vars(ClosedSocketStep(c))
         /\ WF_vars(RawExpire(c))

FairSpec == Spec /\ Fairness

-----------------------------------------------------------------------------
(* Types of the state of Server and of its handlers. *)
TypeOK ==
    /\ mu \in {"free", "closing", "warn"}
    /\ auditMu \in Conns \cup {"free", "apply"}
    /\ eng \in Docs
    /\ doc \in Docs \cup {NoDoc}
    /\ policyGen \in 0..MaxGen
    /\ activeTunnels \subseteq Conns
    /\ ca \in BOOLEAN
    /\ denials \in 0..DenialsMax
    /\ pc \in [Conns -> PCs]
    /\ dest \in [Conns -> Hosts \cup {NoHost}]
    /\ gen \in [Conns -> 0..MaxGen]
    /\ sawCA \subseteq Conns
    /\ rule \in [Conns -> Rules \cup {NoRule}]
    /\ held \subseteq Conns
    /\ req \in [Conns -> Reqs \cup {NoReq}]
    /\ clientOpen \subseteq Conns
    /\ backendOpen \subseteq Conns
    /\ up \in [Conns -> CopyStates]
    /\ down \in [Conns -> CopyStates]

(* Whenever no Apply is running, a stream whose client socket is open is   *)
(* relayed under the rule that the document in force gives its destination *)
(* (trackTunnel's "binds an established stream to the policy generation    *)
(* that authorized it"), and is relayed raw only if that document lets the *)
(* destination go uninspected - although the decision was taken without    *)
(* Server.mu, some steps before.                                           *)
StreamsAuthorised ==
    mu = "free" =>
        \A c \in clientOpen :
            /\ rule[c] = Match[eng][dest[c]]
            /\ rule[c] \in Tunnelled
            /\ pc[c] = "raw" => rule[c] \in Uninspected

(* The registry neither misses an open stream (Apply could not close it)   *)
(* nor keeps one whose goroutine has returned (nothing would delete it),   *)
(* and an upstream socket is open only while someone is left to close it.  *)
RegistryExact ==
    /\ clientOpen \subseteq activeTunnels
    /\ activeTunnels \subseteq held
    /\ \A c \in held : pc[c] \in Tunnel \cup Refusing
    /\ \A c \in backendOpen : c \in held \/ pc[c] = "hijack"

(* A request of a stream that is still registered and is on its way        *)
(* upstream was allowed by the document now in force: a decision that an   *)
(* Apply has overtaken can only be carried out on a stream it has closed.  *)
InFlightCurrent ==
    mu = "free" =>
        \A c \in activeTunnels :
            pc[c] \in {"stages", "forward"} => req[c] \in Allows[eng][dest[c]]

(* The streams and the policy, as the abstract specification sees them. An *)
(* Apply that holds mu has, in effect, ended every stream already: none    *)
(* can be opened before it returns, and it returns after closing them all. *)
OpenStreams ==
    IF mu = "free" THEN {<<c, dest[c], rule[c]>> : c \in clientOpen} ELSE {}

Gate == INSTANCE PolicyGate WITH policy <- eng, admitted <- OpenStreams

(* Server implements PolicyGate: streams are only opened by the policy in  *)
(* force, and Apply ends all of them.                                      *)
GateSpec == Gate!Spec

(* Apply returns: no goroutine that holds auditMu waits for mu while Apply *)
(* waits for auditMu with mu held.                                         *)
ApplyReturns == (mu # "free") ~> (mu = "free")

BlockedOnBackend(c) ==
    /\ c \in backendOpen
    /\ up[c] = "write" \/ pc[c] = "forward"

(* Unless a write to its backend blocks for good, the goroutine of every   *)
(* stream whose client socket was closed, by Apply or by the lifetime      *)
(* timer, ends: sockets closed, registration released.                     *)
ClosedStreamEnds ==
    \A c \in Conns :
        []<>~BlockedOnBackend(c) =>
            ((c \in held /\ c \notin clientOpen) ~> (pc[c] = "idle"))

(* Under the same proviso a raw stream ends even if no policy is ever      *)
(* applied again (maxRawTunnelLifetime).                                   *)
RawStreamEnds ==
    \A c \in Conns :
        []<>~BlockedOnBackend(c) => ((pc[c] = "raw") ~> (pc[c] = "idle"))

(* Streams end: closed ones, and raw ones in any case. *)
StreamsEnd == ClosedStreamEnds /\ RawStreamEnds
=============================================================================
