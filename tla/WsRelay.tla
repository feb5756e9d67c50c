------------------------------- MODULE WsRelay -------------------------------
(***************************************************************************)
(* A WebSocket through a terminated stream (proxy/terminate.go): middleware *)
(* sessions are opened before the upgrade, started after it, and then two  *)
(* goroutines relay frames: one reassembles, inspects, judges and rewrites *)
(* the client's messages, the other copies the upstream's frames.  The     *)
(* main goroutine waits for the first of them to end, closes the sessions  *)
(* and then the sockets, while the other may still be at work.             *)
(***************************************************************************)
EXTENDS Naturals, Sequences, SequencesExt

CONSTANTS
    Docs,         \* policy documents
    Chunks,       \* payloads of single frames: sequences of bytes
    MaxMessage,   \* maxWSMessageBytes
    Marker,       \* the byte that stands for a credential marker
    Secret,       \* the byte that stands for the credential
    Replacements, \* payloads a stage may put in the place of a message
    Class,        \* Class[p]: what classifyGraphQLWS makes of payload p
    Permits,      \* Permits[d]: payloads of operations that d allows
    TextAllowed,  \* documents that allow WEBSOCKET_TEXT without operations
    Setups,       \* pairs of a configuration, see ConfigType, and a pipeline of
                  \* gRPC stages: for each stage whether it is fail-closed
    MaxFrames,    \* bound: frames of the client
    MaxDown,      \* bound: frames of the upstream
    MaxApply      \* bound: policies applied during the relay

(* graphql: the rule speaks GraphQL or has operation rules; rewrite:       *)
(* websocket_credential_rewrite; bound: the rule that admitted the upgrade *)
(* binds the marker's key; stored: the secrets the stream captured have    *)
(* its value.  relayWebsocket is handed all four and keeps them.           *)
ConfigType == [graphql: BOOLEAN, rewrite: BOOLEAN, bound: BOOLEAN, stored: BOOLEAN]

Payloads == DOMAIN Class

(* The bytes of clients and stages, and with credentials. *)
Plain == UNION {{p[j] : j \in DOMAIN p} : p \in Chunks \cup Replacements}
Bytes == Plain \cup {Secret}

ASSUME RelayAssumption ==
    /\ MaxMessage \in Nat /\ MaxFrames \in Nat
    /\ MaxDown \in Nat /\ MaxApply \in Nat
    /\ Marker # Secret
    /\ Secret \notin Plain
    /\ \A p \in Chunks \cup Replacements : p \in Seq(Plain)
    /\ Class \in [Payloads -> {"operation", "control", "invalid"}]
    /\ Replacements \subseteq Payloads
    /\ Permits \in [Docs -> SUBSET Payloads]
    /\ TextAllowed \subseteq Docs
    /\ \A s \in Setups : s[1] \in ConfigType /\ s[2] \in Seq(BOOLEAN)

(* "ping" stands for ping and pong, "reserved" for the opcodes no case     *)
(* names.  A control frame that is not final stands also for one that is   *)
(* too long.                                                               *)
MessageOps == {"text", "binary"}
DataOps == MessageOps \cup {"cont"}
Frames ==
    [op: DataOps, fin: BOOLEAN, data: Chunks]
        \cup [op: {"ping", "close"}, fin: BOOLEAN, data: {<< >>}]
        \cup [op: {"reserved"}, fin: {TRUE}, data: {<< >>}]

VARIABLES
    cfg,     \* what the matched rule says, and the captured secrets
    stages,  \* the pipeline: for each stage whether it is fail-closed
    sess,    \* per stage its session: "none", "skipped", "inspecting" or "closed"
    main,    \* mitmHTTPS and relayWebsocket: [pc, k (stage), via (way out)]
    up,      \* client to upstream: [pc, k, op, whole, payload, trail]
    frag,    \* fragments
    down,    \* upstream to client: [pc, op]
    sock,    \* open sockets, a subset of {"client", "up"}
    doc,     \* the document in the engine
    since,   \* history: documents in force since the message in hand was read
    frames,  \* history: the client's data frames since the last message
    wire,    \* history: parts of frames written to the client
    count    \* frames read and policies applied so far: [up, down, apply]

vars == <<cfg, stages, sess, main, up, frag, down, sock, doc, since, frames, wire, count>>

N == Len(stages)
Idle == [pc |-> "idle", k |-> 1, op |-> "none", whole |-> << >>,
         payload |-> << >>, trail |-> << >>]
NoFragments == [op |-> "none", data |-> << >>]

Init ==
    /\ \E s \in Setups : cfg = s[1] /\ stages = s[2]
    /\ sess = [k \in 1..Len(stages) |-> "none"]
    /\ main = [pc |-> "open", k |-> 1, via |-> "none"]
    /\ up = Idle
    /\ frag = NoFragments
    /\ down = [pc |-> "idle", op |-> "none"]
    /\ sock = {"client", "up"}
    /\ doc \in Docs
    /\ since = {doc}
    /\ frames = << >>
    /\ wire = << >>
    /\ count = [up |-> 0, down |-> 0, apply |-> 0]

relayVars == <<up, frag, down, sock, doc, since, frames, wire, count>>

-----------------------------------------------------------------------------
(* Sessions before the relay *)

(* session.Close: nothing happens to a session that is closed already, as  *)
(* those are that inspect nothing ("skipped").                             *)
Close(S) ==
    [k \in DOMAIN sess |-> IF k \in S /\ sess[k] = "inspecting" THEN "closed" ELSE sess[k]]
Leave(via) == main' = [main EXCEPT !.pc = "sockets", !.via = via]
NextStage == main' = [main EXCEPT !.k = @ + 1]

(* OpenWebSocketSession and Preflight of one stage.  A stage that has      *)
(* nothing to do with the host, that skips, or that fails open is not      *)
(* among the sessions; a denial or a fail-closed failure closes its own    *)
(* session and returns, and those opened before stay open.                 *)
OpenSession(answer) ==
    /\ main.pc = "open" /\ main.k <= N
    /\ sess' = [sess EXCEPT ![main.k] = IF answer = "inspect" THEN "inspecting" ELSE "skipped"]
    /\ IF answer = "deny" \/ (answer = "fail" /\ stages[main.k])
       THEN Leave("refused")
       ELSE NextStage
    /\ UNCHANGED <<cfg, stages, relayVars>>

(* The request is written and the response read.  An upgrade the upstream  *)
(* rejects, or a response that cannot be read, closes the sessions; other  *)
(* failures (deadline, writing either side, the query) only return.        *)
Upgrade(answer) ==
    /\ main.pc = "open" /\ main.k > N
    /\ IF answer = "switched"
       THEN main' = [main EXCEPT !.pc = "start", !.k = 1]
       ELSE Leave(answer)
    /\ sess' = IF answer \in {"rejected", "unread"} THEN Close(1..N) ELSE sess
    /\ UNCHANGED <<cfg, stages, relayVars>>

(* session.Start: a failure closes that session and ends the relay. *)
StartSession(ok) ==
    /\ main.pc = "start" /\ main.k <= N
    /\ sess[main.k] = "inspecting" \/ ok
    /\ IF ok THEN NextStage /\ UNCHANGED sess
             ELSE Leave("failed") /\ sess' = Close({main.k})
    /\ UNCHANGED <<cfg, stages, relayVars>>

StartRelay ==
    /\ main.pc = "start" /\ main.k > N
    /\ main' = [main EXCEPT !.pc = "relay", !.via = "relayed"]
    /\ up' = [up EXCEPT !.pc = "read"]
    /\ down' = [down EXCEPT !.pc = "read"]
    /\ UNCHANGED <<cfg, stages, sess, frag, sock, doc, since, frames, wire, count>>

-----------------------------------------------------------------------------
(* The end of the relay *)

(* Mutant: the relay waits for both goroutines. *)
WakeBoth ==
    /\ main.pc = "relay"
    /\ up.pc = "done" /\ down.pc = "done"
    /\ main' = [main EXCEPT !.pc = "closing", !.k = 1]
    /\ UNCHANGED <<cfg, stages, sess, relayVars>>

(* <-errCh: the first of the two goroutines has ended. *)
Wake ==
    /\ main.pc = "relay"
    /\ up.pc = "done" \/ down.pc = "done"
    /\ main' = [main EXCEPT !.pc = "closing", !.k = 1]
    /\ UNCHANGED <<cfg, stages, sess, relayVars>>

(* The deferred function closes one session after the other. *)
CloseSession ==
    /\ main.pc = "closing"
    /\ IF main.k <= N THEN NextStage /\ sess' = Close({main.k})
                      ELSE Leave("relayed") /\ UNCHANGED sess
    /\ UNCHANGED <<cfg, stages, relayVars>>

(* mitmHTTPS returns: its deferred calls close both connections. *)
CloseSockets ==
    /\ main.pc = "sockets"
    /\ main' = [main EXCEPT !.pc = "done"]
    /\ sock' = {}
    /\ UNCHANGED <<cfg, stages, sess, up, frag, down, doc, since, frames,
                   wire, count>>

-----------------------------------------------------------------------------
(* From the client to the upstream *)

upRest == <<cfg, stages, main, down, sock, doc, count>>

Keep == UNCHANGED <<since, frames>>
At(pc) == up' = [up EXCEPT !.pc = pc] /\ Keep

(* The message in hand is done with. *)
Drop(pc) ==
    /\ up' = [Idle EXCEPT !.pc = pc]
    /\ frames' = << >>
    /\ since' = {doc}

(* Mutant: a first fragment is handed on at once. *)
AcceptEager(f) ==
    IF f.op \in MessageOps
    THEN [frag |-> frag, error |-> frag.op # "none" \/ Len(f.data) > MaxMessage,
          ready |-> TRUE, op |-> f.op, data |-> f.data]
    ELSE [frag |-> frag, error |-> ~f.fin, ready |-> TRUE, op |-> f.op, data |-> f.data]

(* wsFragmentBuffer.accept: control frames and reserved opcodes at once,   *)
(* data frames when their message is complete.                             *)
Accept(f) ==
    LET first == f.op \in MessageOps
        data == IF f.op = "cont" THEN frag.data \o f.data ELSE f.data
        kept == [op |-> IF first THEN f.op ELSE frag.op, data |-> data]
    IN IF f.op \in DataOps
       THEN [frag |-> IF f.fin THEN NoFragments ELSE kept,
             error |-> first # (frag.op = "none") \/ Len(data) > MaxMessage,
             ready |-> f.fin, op |-> kept.op, data |-> data]
       ELSE [frag |-> frag, error |-> f.op # "reserved" /\ ~f.fin,
             ready |-> TRUE, op |-> f.op, data |-> f.data]

(* readWSFrame and accept.  Buffered bytes can be read although the socket *)
(* is closed or its deadline has passed.                                   *)
UpRead(f) ==
    LET a == Accept(f)
        pc == IF a.op \in MessageOps THEN "inspect" ELSE "send"
    IN
    /\ up.pc = "read" /\ count.up < MaxFrames
    /\ IF a.error THEN Drop("refuse") /\ UNCHANGED frag
       ELSE /\ frag' = a.frag
            /\ up' = IF a.ready
                     THEN [pc |-> pc, k |-> 1, op |-> a.op, whole |-> a.data,
                           payload |-> a.data, trail |-> << >>]
                     ELSE up
            /\ frames' = IF f.op \in DataOps THEN Append(frames, f) ELSE frames
            /\ UNCHANGED since
    /\ count' = [count EXCEPT !.up = @ + 1]
    /\ UNCHANGED <<cfg, stages, sess, main, down, sock, doc, wire>>

(* The connection ends, its deadline passes, or a frame is too large. *)
UpReadFail ==
    /\ up.pc = "read"
    /\ Drop("done")
    /\ UNCHANGED <<upRest, sess, frag, wire>>

(* session.Message: a closed session lets everything pass, another is sent *)
(* the message.                                                            *)
Inspect ==
    /\ up.pc = "inspect" /\ up.k <= N
    /\ up' = IF sess[up.k] = "inspecting"
             THEN [up EXCEPT !.pc = "await"]
             ELSE [up EXCEPT !.k = @ + 1]
    /\ Keep
    /\ UNCHANGED <<upRest, sess, frag, wire>>

(* Its answer allows the message, as it is or replaced.  No deadline is    *)
(* set for it.                                                             *)
MessageAllowed(p) ==
    /\ up.pc = "await"
    /\ up' = [up EXCEPT !.pc = "inspect", !.k = @ + 1, !.payload = p,
                        !.trail = Append(@, [k |-> up.k, shown |-> up.payload, left |-> p])]
    /\ Keep
    /\ UNCHANGED <<upRest, sess, frag, wire>>

MessageDenied ==
    /\ up.pc = "await"
    /\ Drop("refuse")
    /\ UNCHANGED <<upRest, sess, frag, wire>>

(* Mutant: a failing stage is passed over, fail-closed or not. *)
MessageFailedOpen ==
    /\ up.pc = "await"
    /\ up' = [up EXCEPT !.pc = "inspect", !.k = @ + 1]
    /\ Keep
    /\ sess' = Close({up.k})
    /\ UNCHANGED <<upRest, frag, wire>>

(* failMessage: no answer, one that makes no sense or one for another      *)
(* sequence number.                                                        *)
MessageFailed ==
    /\ up.pc = "await"
    /\ IF stages[up.k] THEN Drop("refuse") /\ UNCHANGED sess
       ELSE /\ up' = [up EXCEPT !.pc = "inspect", !.k = @ + 1]
            /\ Keep
            /\ sess' = Close({up.k})
    /\ UNCHANGED <<upRest, frag, wire>>

HasMarker == Marker \in {up.payload[j] : j \in DOMAIN up.payload}

(* Mutant: the policy judges what the client sent, not what the stages     *)
(* made of it.                                                             *)
AllowedBefore(d) ==
    IF cfg.graphql THEN up.whole \in Permits[d] ELSE d \in TextAllowed

(* eng.DecideHTTP, with the GraphQL operation where the rule asks for it. *)
Allowed(d) ==
    IF cfg.graphql THEN up.payload \in Permits[d] ELSE d \in TextAllowed

(* classifyGraphQLWS, then the engine. *)
Verdict ==
    IF cfg.graphql /\ Class[up.payload] = "control" THEN "pass"
    ELSE IF (cfg.graphql /\ Class[up.payload] = "invalid") \/ ~Allowed(doc) THEN "deny"
    ELSE "allow"

(* All sessions have let the message pass.  Binary messages go straight    *)
(* on.  Text is judged by the engine in force, but for the control         *)
(* messages of GraphQL, which are neither judged nor rewritten.            *)
Decide ==
    /\ up.pc = "inspect" /\ up.k > N
    /\ \/ up.op = "binary" /\ At("send")
       \/ up.op = "text" /\ Verdict = "pass" /\ At("send")
       \/ up.op = "text" /\ Verdict = "deny" /\ Drop("refuse")
       \/ up.op = "text" /\ Verdict = "allow"
             /\ At(IF cfg.rewrite /\ HasMarker THEN "rewrite" ELSE "send")
    /\ UNCHANGED <<upRest, sess, frag, wire>>

Substituted ==
    [j \in DOMAIN up.payload |-> IF up.payload[j] = Marker THEN Secret ELSE up.payload[j]]

(* Mutant: keys need not be bound to the endpoint. *)
RewriteAny(grant) ==
    /\ up.pc = "rewrite"
    /\ IF grant = "fail" THEN Drop("refuse")
       ELSE IF grant = "token" \/ cfg.stored
       THEN up' = [up EXCEPT !.pc = "send", !.payload = Substituted] /\ Keep
       ELSE Drop("done")
    /\ UNCHANGED <<upRest, sess, frag, wire>>

(* resolveTokenGrantKeys, SecretsForEndpoint, RewriteText: the key has no  *)
(* grant, a token, or a grant that fails; without a value the goroutine    *)
(* returns and the client is told nothing.                                 *)
Rewrite(grant) ==
    /\ up.pc = "rewrite"
    /\ IF grant = "fail" \/ ~cfg.bound THEN Drop("refuse")
       ELSE IF grant = "token" \/ cfg.stored
       THEN up' = [up EXCEPT !.pc = "send", !.payload = Substituted] /\ Keep
       ELSE Drop("done")
    /\ UNCHANGED <<upRest, sess, frag, wire>>

(* One write to the client; nothing arrives on a closed connection. *)
Put(who, part) == wire' = IF "client" \in sock THEN Append(wire, <<who, part>>) ELSE wire

(* Mutant: pings are answered here, on the client's connection. *)
UpWriteEcho ==
    /\ up.pc = "send" /\ "up" \in sock
    /\ IF up.op \in MessageOps THEN Drop("read")
       ELSE up' = [Idle EXCEPT !.pc = IF up.op = "close" THEN "done" ELSE "read"] /\ Keep
    /\ IF up.op = "ping" THEN Put("pong", "header") ELSE UNCHANGED wire
    /\ UNCHANGED <<upRest, sess, frag>>

(* writeWSFrame to the upstream; a close frame is the last one. *)
UpWrite ==
    /\ up.pc = "send" /\ "up" \in sock
    /\ IF up.op \in MessageOps THEN Drop("read")
       ELSE up' = [Idle EXCEPT !.pc = IF up.op = "close" THEN "done" ELSE "read"] /\ Keep
    /\ UNCHANGED <<upRest, sess, frag, wire>>

UpWriteFail ==
    /\ up.pc = "send"
    /\ Drop("done")
    /\ UNCHANGED <<upRest, sess, frag, wire>>

(* A close frame to the client, header and code in two writes whose errors *)
(* are ignored.                                                            *)
Refuse ==
    /\ up.pc \in {"refuse", "refusing"}
    /\ At(IF up.pc = "refuse" THEN "refusing" ELSE "done")
    /\ Put("up", IF up.pc = "refuse" THEN "header" ELSE "payload")
    /\ UNCHANGED <<upRest, sess, frag>>

-----------------------------------------------------------------------------
(* From the upstream to the client *)

downRest == <<cfg, stages, sess, main, up, frag, sock, doc, since, frames>>

DownIdle(pc) == [pc |-> pc, op |-> "none"]

DownRead(op) ==
    /\ down.pc = "read" /\ count.down < MaxDown
    /\ down' = [pc |-> "header", op |-> op]
    /\ count' = [count EXCEPT !.down = @ + 1]
    /\ UNCHANGED <<downRest, wire>>

DownReadFail ==
    /\ down.pc = "read"
    /\ down' = DownIdle("done")
    /\ UNCHANGED <<downRest, wire, count>>

(* writeWSFrame to the client: the header, then the payload. *)
DownWrite ==
    /\ down.pc \in {"header", "payload"} /\ "client" \in sock
    /\ down' = CASE down.pc = "header" -> [down EXCEPT !.pc = "payload"]
                 [] down.pc = "payload" -> DownIdle(IF down.op = "close" THEN "done" ELSE "read")
    /\ Put("down", down.pc)
    /\ UNCHANGED <<downRest, count>>

DownWriteFail ==
    /\ down.pc \in {"header", "payload"}
    /\ down' = DownIdle("done")
    /\ UNCHANGED <<downRest, wire, count>>

-----------------------------------------------------------------------------
(* Environment *)

(* Server.Apply replaces the document and closes the client's connection.  *)
(* (Before the relay it can only make the upgrade fail.)                   *)
Apply(d) ==
    /\ count.apply < MaxApply /\ main.pc \in {"relay", "closing", "sockets"}
    /\ doc' = d
    /\ since' = IF up.pc \in {"inspect", "await", "rewrite", "send"} THEN since \cup {d} ELSE {d}
    /\ sock' = sock \ {"client"}
    /\ count' = [count EXCEPT !.apply = @ + 1]
    /\ UNCHANGED <<cfg, stages, sess, main, up, frag, down, frames, wire>>

Main ==
    \/ \E a \in {"inspect", "skip", "deny", "fail"} : OpenSession(a)
    \/ \E a \in {"switched", "rejected", "unread", "failed"} : Upgrade(a)
    \/ \E ok \in BOOLEAN : StartSession(ok)
    \/ StartRelay \/ Wake \/ CloseSession \/ CloseSockets

StageAnswers ==
    \/ \E p \in {up.payload} \cup Replacements : MessageAllowed(p)
    \/ MessageDenied \/ MessageFailed

UpLocal ==
    \/ Inspect \/ Decide \/ Refuse
    \/ \E g \in {"none", "token", "fail"} : Rewrite(g)

Up == UpLocal \/ StageAnswers \/ UpReadFail \/ UpWrite \/ UpWriteFail
    \/ \E f \in Frames : UpRead(f)

Down == DownReadFail \/ DownWrite \/ DownWriteFail
    \/ \E op \in {"text", "close"} : DownRead(op)

Finished == main.pc = "done" /\ up.pc \in {"idle", "done"} /\ down.pc \in {"idle", "done"}

Next == Main \/ Up \/ Down \/ (\E d \in Docs : Apply(d)) \/ (Finished /\ UNCHANGED vars)

(* Runnable goroutines run.  Reads end: the deadlines set for the last     *)
(* request and its response are absolute and are not cleared before the    *)
(* relay.  A write is sure to end only when its socket is closed.  Nothing *)
(* is assumed of peers and stages: they may never read or answer.  The     *)
(* deferred Close of a session shares its stream with a message that waits *)
(* for the stage, so it is only sure to return once that is settled.       *)
Fairness ==
    /\ WF_vars(Main /\ ~(main.pc = "closing" /\ up.pc = "await" /\ up.k = main.k))
    /\ WF_vars(UpLocal)
    /\ WF_vars(UpReadFail)
    /\ WF_vars(UpWriteFail /\ "up" \notin sock)
    /\ WF_vars(DownReadFail)
    /\ WF_vars(DownWriteFail /\ "client" \notin sock)

Spec == Init /\ [][Next]_vars /\ Fairness

-----------------------------------------------------------------------------
(* Properties *)

(* Every variable has its type; the goroutines run only once the relay has *)
(* started (relayWebsocket, terminate.go).                                 *)
TypeOK ==
    /\ sess \in [1..N -> {"none", "skipped", "inspecting", "closed"}]
    /\ main.pc \in {"open", "start", "relay", "closing", "sockets", "done"}
    /\ main.k \in 1..(N + 1)
    /\ main.via \in {"none", "refused", "rejected", "unread", "failed", "relayed"}
    /\ up.pc \in {"idle", "read", "inspect", "await", "rewrite", "send", "refuse",
                  "refusing", "done"}
    /\ up.k \in 1..(N + 1)
    /\ up.payload \in Seq(Bytes)
    /\ frag.op \in MessageOps \cup {"none"} /\ Len(frag.data) <= MaxMessage
    /\ down.pc \in {"idle", "read", "header", "payload", "done"}
    /\ (main.via = "relayed") = (up.pc # "idle") /\ (up.pc = "idle") = (down.pc = "idle")
    /\ since \subseteq Docs /\ doc \in since

(* w is the payloads of the frames d, one after the other: frame j stands  *)
(* in w from cut[j - 1] on.                                                *)
Joins(w, d) ==
    \E cut \in [0..Len(d) -> 0..Len(w)] :
        /\ cut[0] = 0 /\ cut[Len(d)] = Len(w)
        /\ \A j \in 1..Len(d) :
              /\ Len(d[j].data) = cut[j] - cut[j - 1]
              /\ \A i \in 1..Len(d[j].data) : w[cut[j - 1] + i] = d[j].data[i]

(* The message handed to the stages and the policy is the client's whole   *)
(* message: the payloads of all data frames read since the last message,   *)
(* which begin with a text or binary frame of that kind, go on with        *)
(* continuations, are final only at the end and respect the size limit;    *)
(* control frames in between change nothing (wsFragmentBuffer).  (Types    *)
(* included.)                                                              *)
Reassembled ==
    /\ TypeOK
    /\ up.pc \in {"inspect", "await", "rewrite"} =>
        LET d == frames
        IN /\ d # << >>
           /\ d[1].op = up.op
           /\ \A j \in DOMAIN d : (j > 1) = (d[j].op = "cont") /\ (j = Len(d)) = d[j].fin
           /\ Joins(up.whole, d)
           /\ Len(up.whole) <= MaxMessage

(* What the last stage left, before credentials. *)
Judged == IF up.trail = << >> THEN up.whole ELSE up.trail[Len(up.trail)].left
ControlMessage == cfg.graphql /\ Class[Judged] = "control"
Sending(ops) == up.pc = "send" /\ up.op \in ops

(* While the relay runs, a data message goes upstream only after every     *)
(* fail-closed stage that inspects the session has allowed it, each stage  *)
(* having been shown what the one before it left, the first the client's   *)
(* message; and what goes out is what the last one left, with credentials  *)
(* in the place of markers.  Only between the end of the relay and the     *)
(* closing of the sockets do messages pass uninspected (relayWebsocket,    *)
(* grpcWebSocketSession.Message).                                          *)
InspectedByAll ==
    Sending(MessageOps) =>
        LET t == up.trail
        IN /\ \A j \in DOMAIN t :
                 t[j].shown = IF j = 1 THEN up.whole ELSE t[j - 1].left
           /\ Len(Judged) = Len(up.payload)
           /\ \A j \in DOMAIN Judged : Judged[j] # up.payload[j] =>
                 Judged[j] = Marker /\ up.payload[j] = Secret
           /\ main.pc = "relay" =>
                 \A k \in 1..N : stages[k] /\ sess[k] # "skipped" =>
                    \E j \in DOMAIN t : t[j].k = k

(* A text message goes upstream only in a form that a policy in force      *)
(* since it was read allows, or as a GraphQL control message; a policy     *)
(* that changes while stages inspect it is heeded (relayWebsocket).        *)
TextPermitted ==
    Sending({"text"}) /\ ~ControlMessage =>
        \E d \in since :
            IF cfg.graphql THEN Judged \in Permits[d] ELSE d \in TextAllowed

(* A credential goes into a WebSocket only as part of a judged text        *)
(* message, on an endpoint whose rule asks for rewriting and binds the     *)
(* key, and no stage is shown one (the order of relayWebsocket's steps;    *)
(* SecretsForEndpoint).                                                    *)
SecretsBound ==
    /\ \A j \in DOMAIN up.trail : \A i \in DOMAIN up.trail[j].shown :
          up.trail[j].shown[i] # Secret
    /\ up.pc = "send" /\ (\E j \in DOMAIN up.payload : up.payload[j] = Secret) =>
          cfg.rewrite /\ cfg.bound /\ up.op = "text" /\ ~ControlMessage

(* Once an upgrade was rejected, could not be read, or a relay has ended,  *)
(* no session is left open when the stream is closed.  (Sessions opened    *)
(* before a refusal or another failure are not closed.)                    *)
SessionsEnded ==
    main.pc = "done" /\ main.via \in {"rejected", "unread", "relayed"} =>
        \A k \in 1..N : sess[k] # "inspecting"

(* The client sees whole frames, header followed by payload, unless the    *)
(* relay refuses one of its messages: only that close frame, written by    *)
(* the other goroutine, can land inside a frame (writeWSFrame).            *)
TornOnlyByRefusal ==
    \A j \in DOMAIN wire :
        /\ wire[j][2] = "payload" =>
              j > 1 /\ (wire[j - 1] = <<wire[j][1], "header">> \/ \E i \in 1..j : wire[i][1] = "up")
        /\ wire[j][2] = "header" /\ j < Len(wire) /\ wire[j + 1] # <<wire[j][1], "payload">> =>
              \E i \in 1..(j + 1) : wire[i][1] = "up"

AwaitsStage == up.pc = "await"
UpBlocked == up.pc = "send" /\ "up" \in sock
DownBlocked == down.pc \in {"header", "payload"} /\ "client" \in sock

(* A relay ends: the deadlines of the handshake end both reads.  It needs  *)
(* stages that answer, because messages are sent to them without a         *)
(* timeout, and a peer that reads, because writes have none.               *)
RelayReturns ==
    (<>[]AwaitsStage) \/ (<>[]UpBlocked /\ <>[]DownBlocked)
        \/ (main.pc = "relay" ~> main.pc = "done")

(* Both goroutines end after the sockets are closed, that from the client  *)
(* if no stage keeps it waiting for an answer for ever.                    *)
GoroutinesEnd ==
    /\ main.pc = "done" ~> down.pc \in {"idle", "done"}
    /\ (<>[]AwaitsStage) \/ (main.pc = "done" ~> up.pc \in {"idle", "done"})

(* Everything a relay started comes to its end: the relay itself, then its *)
(* goroutines, and no middleware session is left open by a relay that      *)
(* ended or an upgrade that failed (relayWebsocket's deferred function,    *)
(* mitmHTTPS).                                                             *)
RelayEnds == []SessionsEnded /\ RelayReturns /\ GoroutinesEnd
=============================================================================
