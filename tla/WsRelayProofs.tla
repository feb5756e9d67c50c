--------------------------- MODULE WsRelayProofs ---------------------------
(***************************************************************************)
(* Proofs about the WebSocket relay, for every pipeline, configuration,    *)
(* size limit and number of frames: the message that is inspected is the   *)
(* client's whole message, it goes upstream only after every stage and the *)
(* policy have let it pass, credentials go only where they are bound, and  *)
(* frames to the client are torn by a refusal only.                        *)
(***************************************************************************)
EXTENDS WsRelay, SequenceTheorems, TLAPS

-----------------------------------------------------------------------------
(* The inductive invariant *)

UpPcs == {"idle", "read", "inspect", "await", "rewrite", "send", "refuse", "refusing", "done"}
UpOps == DataOps \cup {"ping", "close", "reserved", "none"}
Vias == {"none", "refused", "rejected", "unread", "failed", "relayed"}
MainPcs == {"open", "start", "relay", "closing", "sockets", "done"}
DownPcs == {"idle", "read", "header", "payload", "done"}
SessionStates == {"none", "skipped", "inspecting", "closed"}

MainRecords == [pc: MainPcs, k: 1..(N + 1), via: Vias]
UpRecords ==
    [pc: UpPcs, k: 1..(N + 1), op: UpOps, whole: Seq(Plain), payload: Seq(Bytes),
     trail: Seq([k: 1..N, shown: Seq(Plain), left: Seq(Plain)])]

(* The types.  Until credentials are put in, the payload has none. *)
Shape ==
    /\ cfg \in ConfigType
    /\ stages \in Seq(BOOLEAN)
    /\ sess \in [1..N -> SessionStates]
    /\ main \in MainRecords
    /\ up \in UpRecords
    /\ up.pc # "send" => up.payload \in Seq(Plain)
    /\ up.pc = "await" => up.k <= N
    /\ frag \in [op: MessageOps \cup {"none"}, data: Seq(Plain)]
    /\ Len(frag.data) <= MaxMessage
    /\ down \in [pc: DownPcs, op: {"none", "text", "close"}]
    /\ since \subseteq Docs /\ doc \in since

(* How far the main goroutine is with the sessions, and that the relay's   *)
(* goroutines run from its start on.                                       *)
Sessions ==
    /\ main.pc \in {"open", "start"} => main.via = "none"
    /\ main.pc \in {"relay", "closing"} => main.via = "relayed"
    /\ main.via = "relayed" <=> up.pc # "idle"
    /\ up.pc = "idle" <=> down.pc = "idle"
    /\ main.pc = "open" => \A k \in 1..N : k < main.k => sess[k] \in {"inspecting", "skipped"}
    /\ main.pc = "start" => \A k \in 1..N : sess[k] \in {"inspecting", "skipped"}
    /\ main.pc = "relay" => \A k \in 1..N : stages[k] => sess[k] \in {"inspecting", "skipped"}
    /\ main.pc = "closing" => \A k \in 1..N : k < main.k => sess[k] # "inspecting"
    /\ main.pc \in {"sockets", "done"} /\ main.via \in {"rejected", "unread", "relayed"} =>
          \A k \in 1..N : sess[k] # "inspecting"

(* A message of the client is in the hands of the relay. *)
InHand == up.pc \in {"inspect", "await", "rewrite"} \/ Sending(MessageOps)

(* The frames d begin a message of kind op with the payload w so far. *)
Begun(d, op, w) ==
    /\ d # << >>
    /\ d[1].op = op
    /\ \A j \in 1..Len(d) : j > 1 <=> d[j].op = "cont"
    /\ Joins(w, d)

DataFrames == [op: DataOps, fin: BOOLEAN, data: Seq(Plain)]

(* The frames read since the last message: those of the message in hand,   *)
(* or else those whose payload the fragment buffer keeps.                  *)
Buffered ==
    /\ frames \in Seq(DataFrames)
    /\ InHand =>
          /\ frag = NoFragments /\ up.op \in MessageOps
          /\ Begun(frames, up.op, up.whole)
          /\ \A j \in 1..Len(frames) : j = Len(frames) <=> frames[j].fin
          /\ Len(up.whole) <= MaxMessage
    /\ ~InHand /\ up.pc \in {"idle", "read", "send"} =>
          /\ frag.op = "none" => frames = << >>
          /\ frag.op # "none" => Begun(frames, frag.op, frag.data)
                                    /\ \A j \in 1..Len(frames) : ~frames[j].fin

(* What goes out in the place of w: credentials stand for markers. *)
Rewritten(w, p) ==
    /\ Len(w) = Len(p)
    /\ \A j \in 1..Len(w) : w[j] # p[j] => w[j] = Marker /\ p[j] = Secret

Permitted ==
    \E d \in since : IF cfg.graphql THEN Judged \in Permits[d] ELSE d \in TextAllowed

(* What the stages were shown and left, and what the policy said of it. *)
Followed ==
    /\ InHand => \A j \in 1..Len(up.trail) :
          up.trail[j].shown = IF j = 1 THEN up.whole ELSE up.trail[j - 1].left
    /\ up.pc \in {"inspect", "await", "rewrite"} => up.payload = Judged
    /\ up.pc = "rewrite" => cfg.rewrite /\ up.op = "text" /\ ~ControlMessage /\ Permitted
    /\ Sending(MessageOps) => Rewritten(Judged, up.payload)
    /\ Sending({"text"}) => ControlMessage \/ Permitted
    /\ up.pc = "send" => \/ up.payload \in Seq(Plain)
                         \/ cfg.rewrite /\ cfg.bound /\ up.op = "text" /\ ~ControlMessage

(* Stages behind the message have allowed it. *)
Covered ==
    /\ up.pc = "rewrite" \/ Sending(MessageOps) => up.k = N + 1
    /\ main.pc = "relay" /\ InHand =>
          \A k \in 1..N : k < up.k /\ stages[k] /\ sess[k] # "skipped" =>
              \E j \in 1..Len(up.trail) : up.trail[j].k = k

(* Where the upstream's frames stand in what the client was sent. *)
Clean(w, n) == \A i \in 1..n : w[i][1] = "down"
Whole ==
    /\ wire \in Seq({"up", "down"} \X {"header", "payload"})
    /\ \A j \in 1..Len(wire) : Clean(wire, j) /\ wire[j][2] = "payload" =>
          j > 1 /\ wire[j - 1][2] = "header"
    /\ \A j \in 1..Len(wire) : j < Len(wire) /\ Clean(wire, j + 1) /\ wire[j][2] = "header" =>
          wire[j + 1][2] = "payload"
    /\ Clean(wire, Len(wire)) /\ down.pc = "payload" => wire # << >> /\ wire[Len(wire)][2] = "header"
    /\ Clean(wire, Len(wire)) /\ down.pc \in {"idle", "read", "header"} =>
          wire = << >> \/ wire[Len(wire)][2] = "payload"

(* A payload is never the first part: its header was written unless the    *)
(* connection was closed, which then keeps back the payload too.           *)
Headed ==
    /\ wire \in Seq({"up", "down"} \X {"header", "payload"})
    /\ wire # << >> => wire[1][2] = "header"
    /\ down.pc = "payload" => wire # << >>
    /\ up.pc = "refusing" => wire # << >> \/ "client" \notin sock

RInv == Shape /\ Sessions /\ Buffered /\ Followed /\ Covered /\ Whole /\ Headed

(* What clients and stages send is made of the bytes that may be sent on. *)
LEMMA PlainBytes == Seq(Plain) \subseteq Seq(Bytes)
BY SeqMonotonic DEF Bytes

(* The empty payload holds no credential. *)
LEMMA EmptyPlain == << >> \in Seq(Plain)
OBVIOUS

(* What clients and stages send, and what a frame makes of the fragments. *)
LEMMA FrameType ==
  ASSUME NEW f \in Frames
  PROVE  /\ f.op \in UpOps \ {"none"} /\ f.fin \in BOOLEAN /\ f.data \in Seq(Plain)
         /\ f.op \in DataOps => f \in DataFrames
BY RelayAssumption, EmptyPlain DEF Frames, DataFrames, UpOps, DataOps, MessageOps

(* wsFragmentBuffer.accept, case by case. *)
LEMMA AcceptFirst ==
  ASSUME NEW f \in Frames, f.op \in MessageOps, ~Accept(f).error
  PROVE  /\ frag.op = "none" /\ ~(Len(f.data) > MaxMessage)
         /\ Accept(f).frag = IF f.fin THEN NoFragments ELSE [op |-> f.op, data |-> f.data]
         /\ Accept(f).ready = f.fin /\ Accept(f).op = f.op /\ Accept(f).data = f.data
BY DEF Accept, DataOps, MessageOps

(* A continuation is joined to the fragments before it, within the limit. *)
LEMMA AcceptCont ==
  ASSUME NEW f \in Frames, f.op = "cont", ~Accept(f).error
  PROVE  /\ frag.op # "none" /\ ~(Len(frag.data \o f.data) > MaxMessage)
         /\ Accept(f).frag = IF f.fin THEN NoFragments
                             ELSE [op |-> frag.op, data |-> frag.data \o f.data]
         /\ Accept(f).ready = f.fin /\ Accept(f).op = frag.op
         /\ Accept(f).data = frag.data \o f.data
BY DEF Accept, DataOps, MessageOps

(* A control frame passes and leaves the fragments alone. *)
LEMMA AcceptControl ==
  ASSUME NEW f \in Frames, f.op \notin DataOps
  PROVE  /\ Accept(f).frag = frag /\ Accept(f).ready /\ Accept(f).op = f.op
         /\ Accept(f).data = f.data
BY DEF Accept

(* What accept keeps and what it hands on are payloads of the client. *)
LEMMA AcceptType ==
  ASSUME NEW f \in Frames, Shape, ~Accept(f).error
  PROVE  /\ Accept(f).frag \in [op: MessageOps \cup {"none"}, data: Seq(Plain)]
         /\ Len(Accept(f).frag.data) <= MaxMessage
         /\ Accept(f).op \in UpOps \ {"none"} /\ Accept(f).data \in Seq(Plain)
<1>1. f.op \in UpOps \ {"none"} /\ f.fin \in BOOLEAN /\ f.data \in Seq(Plain)
  BY FrameType
<1>2. /\ frag.op \in MessageOps \cup {"none"} /\ frag.data \in Seq(Plain)
      /\ frag.data \o f.data \in Seq(Plain)
  BY <1>1, ConcatProperties DEF Shape
<1>3. NoFragments \in [op: MessageOps \cup {"none"}, data: Seq(Plain)] /\ Len(NoFragments.data) <= MaxMessage
  BY RelayAssumption, EmptyPlain DEF NoFragments
<1>4. CASE f.op = "cont"
  <2> DEFINE d == frag.data \o f.data
             a == Accept(f)
  <2>1. frag.op # "none" /\ ~(Len(d) > MaxMessage)
    BY <1>4, AcceptCont
  <2>2. a.frag = IF f.fin THEN NoFragments ELSE [op |-> frag.op, data |-> d]
    BY <1>4, AcceptCont
  <2>3. a.op = frag.op /\ a.data = d
    BY <1>4, AcceptCont
  <2> HIDE DEF d, a
  <2> d \in Seq(Plain)
    BY <1>2 DEF d
  <2>4. d \in Seq(Plain) /\ Len(d) \in Nat
    BY LenProperties
  <2>5. Len(d) <= MaxMessage
    BY <2>1, <2>4, RelayAssumption
  <2>6. [op |-> frag.op, data |-> d] \in [op: MessageOps \cup {"none"}, data: Seq(Plain)]
    BY <1>2, <2>4
  <2>7. a.frag \in [op: MessageOps \cup {"none"}, data: Seq(Plain)] /\ Len(a.frag.data) <= MaxMessage
    BY <1>3, <2>2, <2>5, <2>6
  <2> QED
    BY <1>2, <2>1, <2>3, <2>4, <2>7 DEF a, UpOps, DataOps, MessageOps
<1>5. CASE f.op \in MessageOps
  <2> DEFINE a == Accept(f)
  <2>1. ~(Len(f.data) > MaxMessage)
    BY <1>5, AcceptFirst
  <2>2. a.frag = IF f.fin THEN NoFragments ELSE [op |-> f.op, data |-> f.data]
    BY <1>5, AcceptFirst
  <2>3. a.op = f.op /\ a.data = f.data
    BY <1>5, AcceptFirst
  <2> HIDE DEF a
  <2>4. Len(f.data) <= MaxMessage
    BY <1>1, <2>1, RelayAssumption, LenProperties
  <2>5. [op |-> f.op, data |-> f.data] \in [op: MessageOps \cup {"none"}, data: Seq(Plain)]
    BY <1>1, <1>5
  <2>6. a.frag \in [op: MessageOps \cup {"none"}, data: Seq(Plain)] /\ Len(a.frag.data) <= MaxMessage
    BY <1>3, <2>2, <2>4, <2>5
  <2> QED
    BY <1>1, <2>3, <2>6 DEF a
<1>6. CASE f.op \notin DataOps
  BY <1>1, <1>2, <1>6, AcceptControl DEF Shape
<1> QED
  BY <1>4, <1>5, <1>6 DEF DataOps

(* Substitution yields a payload of the same length. *)
LEMMA SubstitutedType ==
  ASSUME up.payload \in Seq(Plain)
  PROVE  Substituted \in Seq(Bytes) /\ Rewritten(up.payload, Substituted)
<1> DEFINE s == Substituted
           p == up.payload
<1>1. Len(p) \in Nat /\ DOMAIN p = 1..Len(p) /\ \A j \in 1..Len(p) : p[j] \in Plain
  OBVIOUS
<1>2. s = [j \in 1..Len(p) |-> IF p[j] = Marker THEN Secret ELSE p[j]]
  BY <1>1 DEF Substituted
<1> HIDE DEF p, s
<1>3. s \in [1..Len(p) -> Bytes]
  BY <1>1, <1>2 DEF Bytes
<1>4. s \in Seq(Bytes) /\ Len(s) = Len(p)
  BY <1>1, <1>3, IsASeq
<1> QED
  BY <1>1, <1>2, <1>4 DEF Rewritten, p, s

-----------------------------------------------------------------------------
(* The types *)

(* The state is well-typed at the start. *)
LEMMA ShapeInit == Init => Shape
<1> SUFFICES ASSUME Init PROVE Shape
  OBVIOUS
<1>1. cfg \in ConfigType /\ stages \in Seq(BOOLEAN)
  BY RelayAssumption DEF Init
<1>2. N \in Nat
  BY <1>1 DEF N
<1>3. up \in UpRecords
  BY <1>2, PlainBytes DEF Init, Idle, UpPcs, UpOps, UpRecords
<1>4. up.pc = "idle" /\ up.payload \in Seq(Plain)
  BY DEF Init, Idle
<1>5. frag \in [op: MessageOps \cup {"none"}, data: Seq(Plain)] /\ Len(frag.data) <= MaxMessage
  BY RelayAssumption DEF Init, NoFragments
<1> QED
  BY <1>1, <1>2, <1>3, <1>4, <1>5 DEF Init, Shape, N, SessionStates, MainRecords, MainPcs,
        Vias, DownPcs

(* Sessions stay sessions when some are closed. *)
LEMMA CloseType ==
  ASSUME Shape, NEW S
  PROVE  Close(S) \in [1..N -> SessionStates]
BY DEF Close, Shape, SessionStates

(* A message that was done with. *)
LEMMA DropType ==
  ASSUME Shape, NEW pc \in UpPcs \ {"await"}, Drop(pc), UNCHANGED <<cfg, stages, main, down, doc, frag>>, sess' \in [1..N -> SessionStates]
  PROVE  Shape'
<1>1. N \in Nat /\ N' = N
  BY DEF Shape, N
<1>2. up' = [pc |-> pc, k |-> 1, op |-> "none", whole |-> << >>, payload |-> << >>, trail |-> << >>]
  BY DEF Drop, Idle
<1>3. up' \in UpRecords
  BY <1>1, <1>2 DEF UpOps, UpRecords
<1>4. up'.pc # "await" /\ up'.payload \in Seq(Plain)
  BY <1>2
<1>5. since' \subseteq Docs /\ doc' \in since'
  BY DEF Drop, Shape
<1> QED
  BY <1>1, <1>3, <1>4, <1>5 DEF Shape, MainRecords, UpRecords

(* Every step keeps the state well-typed. *)
LEMMA ShapeStep == Shape /\ Sessions /\ [Next]_vars => Shape'
<1> SUFFICES ASSUME Shape, Sessions, [Next]_vars PROVE Shape'
  OBVIOUS
<1>n. N \in Nat
  BY DEF Shape, N
<1>m. ASSUME NEW pc \in MainPcs, NEW k \in {1, main.k} \cup {j \in {main.k + 1} : main.k <= N}, NEW via \in Vias,
             main' = [pc |-> pc, k |-> k, via |-> via],
             UNCHANGED <<cfg, stages, up, frag, down, doc, since>>,
             sess' \in [1..N -> SessionStates]
      PROVE  Shape'
  <2>1. k \in 1..(N + 1)
    BY <1>n DEF Shape, MainRecords
  <2>2. N' = N /\ main' \in MainRecords
    BY <1>m, <2>1 DEF N, MainRecords
  <2> QED
    BY <1>m, <2>2 DEF Shape, MainRecords, UpRecords
<1>t. main = [pc |-> main.pc, k |-> main.k, via |-> main.via] /\ main.via \in Vias /\ main.pc \in MainPcs
  BY DEF Shape, MainRecords
<1>1. CASE Main
  <2>1. ASSUME NEW a \in {"inspect", "skip", "deny", "fail"}, OpenSession(a) PROVE Shape'
    <3>1. sess' \in [1..N -> SessionStates]
      BY <2>1 DEF OpenSession, Shape, SessionStates
    <3>2. CASE Leave("refused")
      BY <1>t, <1>m, <2>1, <3>1, <3>2 DEF OpenSession, Leave, relayVars, MainPcs, Vias
    <3>3. CASE NextStage
      BY <1>t, <1>m, <2>1, <3>1, <3>3 DEF OpenSession, NextStage, relayVars, MainPcs, Vias
    <3> QED
      BY <2>1, <3>2, <3>3 DEF OpenSession
  <2>2. ASSUME NEW a \in {"switched", "rejected", "unread", "failed"}, Upgrade(a) PROVE Shape'
    <3>1. sess' \in [1..N -> SessionStates]
      BY <2>2, CloseType DEF Upgrade, Shape
    <3> QED
      BY <1>t, <1>m, <2>2, <3>1 DEF Upgrade, Leave, relayVars, MainPcs, Vias
  <2>3. ASSUME NEW ok \in BOOLEAN, StartSession(ok) PROVE Shape'
    <3>1. sess' \in [1..N -> SessionStates]
      BY <2>3, CloseType DEF StartSession, Shape
    <3>2. CASE ok
      BY <1>t, <1>m, <2>3, <3>1, <3>2 DEF StartSession, NextStage, relayVars
    <3>3. CASE ~ok
      BY <1>t, <1>m, <2>3, <3>1, <3>3 DEF StartSession, Leave, relayVars, MainPcs, Vias
    <3> QED
      BY <3>2, <3>3
  <2>4. CASE StartRelay
    <3>1. main' = [pc |-> "relay", k |-> main.k, via |-> "relayed"]
      BY <1>t, <2>4 DEF StartRelay
    <3>2. main' \in MainRecords
      BY <3>1 DEF Shape, MainRecords, MainPcs, Vias
    <3>3. up' \in UpRecords /\ up'.pc = "read" /\ up'.payload = up.payload
      BY <2>4 DEF StartRelay, Shape, UpRecords, UpPcs
    <3>4. down' \in [pc: DownPcs, op: {"none", "text", "close"}]
      BY <2>4 DEF StartRelay, Shape, DownPcs
    <3>5. up.pc = "idle" /\ up.payload \in Seq(Plain)
      BY <2>4 DEF StartRelay, Shape, Sessions
    <3> QED
      BY <2>4, <3>2, <3>3, <3>4, <3>5 DEF StartRelay, Shape, N, MainRecords, UpRecords
  <2>5. CASE Wake
    BY <1>t, <1>m, <2>5 DEF Wake, relayVars, MainPcs, Vias, Shape
  <2>6. CASE CloseSession
    <3>1. sess' \in [1..N -> SessionStates]
      BY <2>6, CloseType DEF CloseSession, Shape
    <3>2. CASE main.k <= N
      BY <1>t, <1>m, <2>6, <3>1, <3>2 DEF CloseSession, NextStage, relayVars
    <3>3. CASE ~(main.k <= N)
      BY <1>t, <1>m, <2>6, <3>1, <3>3 DEF CloseSession, Leave, relayVars, MainPcs, Vias
    <3> QED
      BY <3>2, <3>3
  <2>7. CASE CloseSockets
    BY <1>t, <1>m, <2>7 DEF CloseSockets, MainPcs, Vias, Shape
  <2> QED
    BY <1>1, <2>1, <2>2, <2>3, <2>4, <2>5, <2>6, <2>7 DEF Main
<1>u. ASSUME up' \in UpRecords,
             up'.pc # "send" => up'.payload \in Seq(Plain),
             up'.pc = "await" => up'.k <= N,
             UNCHANGED <<cfg, stages, main, down, doc, frag, since>>,
             sess' \in [1..N -> SessionStates]
      PROVE  Shape'
  <2>1. N' = N
    BY <1>u DEF N
  <2> QED
    BY <1>u, <2>1 DEF Shape, MainRecords, UpRecords
<1>v. /\ up = [pc |-> up.pc, k |-> up.k, op |-> up.op, whole |-> up.whole, payload |-> up.payload,
               trail |-> up.trail]
      /\ sess \in [1..N -> SessionStates]
      /\ up.pc # "send" => up.payload \in Seq(Plain)
  BY DEF Shape, UpRecords
<1>2. CASE Up
  <2>i. ASSUME up.k <= N, UNCHANGED <<cfg, stages, main, down, doc, frag, since>>,
               up' = [up EXCEPT !.pc = "inspect", !.k = @ + 1], up.pc # "send",
               sess' \in [1..N -> SessionStates]
        PROVE  Shape'
    <3>1. up.k + 1 \in 1..(N + 1)
      BY <1>n, <2>i DEF Shape, UpRecords
    <3>2. up' \in UpRecords /\ up'.pc = "inspect" /\ up'.payload = up.payload
      BY <2>i, <3>1 DEF Shape, UpRecords, UpPcs
    <3> QED
      BY <1>u, <1>v, <2>i, <3>2
  <2>1. CASE Inspect
    <3>1. CASE sess[up.k] = "inspecting"
      <4>1. up' \in UpRecords /\ up'.pc = "await" /\ up'.payload = up.payload /\ up'.k = up.k
        BY <2>1, <3>1 DEF Inspect, Shape, UpRecords, UpPcs
      <4> QED
        BY <1>u, <1>v, <2>1, <4>1 DEF Inspect, Keep, upRest
    <3>2. CASE sess[up.k] # "inspecting"
      BY <1>v, <2>1, <2>i, <3>2 DEF Inspect, Keep, upRest
    <3> QED
      BY <3>1, <3>2
  <2>2. CASE Decide
    <3>1. ASSUME NEW pc \in {"send", "rewrite"}, At(pc) PROVE Shape'
      <4>1. up' \in UpRecords /\ up'.pc = pc /\ up'.payload = up.payload
        BY <3>1 DEF At, Shape, UpRecords, UpPcs
      <4> QED
        BY <1>u, <1>v, <2>2, <3>1, <4>1 DEF Decide, At, Keep, upRest
    <3>2. CASE Drop("refuse")
      BY <1>v, <2>2, <3>2, DropType DEF Decide, upRest, UpPcs
    <3> QED
      BY <2>2, <3>1, <3>2 DEF Decide
  <2>3. CASE Refuse
    <3>1. up' \in UpRecords /\ up'.pc \in {"refusing", "done"} /\ up'.payload = up.payload /\ up.pc # "send"
      BY <2>3 DEF Refuse, At, Shape, UpRecords, UpPcs
    <3> QED
      BY <1>u, <1>v, <2>3, <3>1 DEF Refuse, At, Keep, upRest
  <2>4. ASSUME NEW g \in {"none", "token", "fail"}, Rewrite(g) PROVE Shape'
    <3>1. CASE up' = [up EXCEPT !.pc = "send", !.payload = Substituted] /\ Keep
      <4>1. Substituted \in Seq(Bytes)
        BY <1>v, <2>4, SubstitutedType DEF Rewrite
      <4>2. up' \in UpRecords /\ up'.pc = "send"
        BY <3>1, <4>1 DEF Shape, UpRecords, UpPcs
      <4> QED
        BY <1>u, <1>v, <2>4, <3>1, <4>2 DEF Rewrite, Keep, upRest
    <3>2. CASE \E pc \in {"refuse", "done"} : Drop(pc)
      BY <1>v, <2>4, <3>2, DropType DEF Rewrite, upRest, UpPcs
    <3> QED
      BY <2>4, <3>1, <3>2 DEF Rewrite
  <2>5. ASSUME NEW p \in {up.payload} \cup Replacements, MessageAllowed(p) PROVE Shape'
    <3>1. p \in Seq(Plain) /\ up.payload \in Seq(Plain)
      BY <1>v, <2>5, RelayAssumption DEF MessageAllowed
    <3>2. up.k \in 1..N /\ up.k + 1 \in 1..(N + 1)
      BY <1>n, <2>5 DEF MessageAllowed, Shape, UpRecords
    <3>3. p \in Seq(Bytes)
      BY <3>1, PlainBytes
    <3>4. Append(up.trail, [k |-> up.k, shown |-> up.payload, left |-> p])
            \in Seq([k: 1..N, shown: Seq(Plain), left: Seq(Plain)])
      BY <3>1, <3>2 DEF Shape, UpRecords
    <3>5. up' = [pc |-> "inspect", k |-> up.k + 1, op |-> up.op, whole |-> up.whole, payload |-> p,
                 trail |-> Append(up.trail, [k |-> up.k, shown |-> up.payload, left |-> p])]
      BY <1>v, <2>5 DEF MessageAllowed
    <3>6. up' \in UpRecords
      BY <3>2, <3>3, <3>4, <3>5 DEF Shape, UpRecords, UpPcs
    <3>7. up'.pc = "inspect" /\ up'.payload = p
      BY <3>5
    <3> QED
      BY <1>u, <1>v, <2>5, <3>1, <3>6, <3>7 DEF MessageAllowed, Keep, upRest
  <2>6. CASE MessageDenied
    BY <1>v, <2>6, DropType DEF MessageDenied, upRest, UpPcs
  <2>7. CASE MessageFailed
    <3>1. sess' \in [1..N -> SessionStates]
      BY <1>v, <2>7, CloseType DEF MessageFailed
    <3>2. CASE stages[up.k]
      BY <2>7, <3>1, <3>2, DropType DEF MessageFailed, upRest, UpPcs
    <3>3. CASE ~stages[up.k]
      <4>1. up.k <= N
        BY <2>7 DEF MessageFailed, Shape
      <4> QED
        BY <2>7, <2>i, <3>1, <3>3, <4>1 DEF MessageFailed, Keep, upRest
    <3> QED
      BY <3>2, <3>3
  <2>8. CASE UpReadFail
    BY <1>v, <2>8, DropType DEF UpReadFail, upRest, UpPcs
  <2>9. CASE UpWrite
    <3>1. CASE up.op \in MessageOps
      BY <1>v, <2>9, <3>1, DropType DEF UpWrite, upRest, UpPcs
    <3>2. CASE up.op \notin MessageOps
      <4>1. up' = [pc |-> IF up.op = "close" THEN "done" ELSE "read", k |-> 1, op |-> "none",
                   whole |-> << >>, payload |-> << >>, trail |-> << >>]
        BY <2>9, <3>2 DEF UpWrite, Idle
      <4>2. up' \in UpRecords
        BY <1>n, <4>1 DEF UpRecords, UpOps, UpPcs
      <4>3. up'.pc # "await" /\ up'.payload \in Seq(Plain)
        BY <4>1
      <4> QED
        BY <1>u, <1>v, <2>9, <3>2, <4>2, <4>3 DEF UpWrite, upRest, Keep
    <3> QED
      BY <3>1, <3>2
  <2>10. CASE UpWriteFail
    BY <1>v, <2>10, DropType DEF UpWriteFail, upRest, UpPcs
  <2>11. ASSUME NEW f \in Frames, UpRead(f) PROVE Shape'
    <3> DEFINE a == Accept(f)
    <3>1. CASE a.error
      BY <1>v, <2>11, <3>1, DropType DEF UpRead, UpPcs
    <3>2. CASE ~a.error
      <4>1. /\ a.frag \in [op: MessageOps \cup {"none"}, data: Seq(Plain)]
            /\ Len(a.frag.data) <= MaxMessage
            /\ a.op \in UpOps /\ a.data \in Seq(Plain)
        BY <3>2, AcceptType
      <4>2. /\ up' = IF a.ready
                     THEN [pc |-> IF a.op \in MessageOps THEN "inspect" ELSE "send", k |-> 1,
                           op |-> a.op, whole |-> a.data, payload |-> a.data, trail |-> << >>]
                     ELSE up
            /\ frag' = a.frag
            /\ UNCHANGED <<cfg, stages, main, down, doc, sess, since>>
        BY <2>11, <3>2 DEF UpRead
      <4> HIDE DEF a
      <4>3. CASE a.ready
        <5>1. up' \in UpRecords
          BY <1>n, <4>1, <4>2, <4>3, PlainBytes DEF UpRecords, UpPcs
        <5>2. up'.pc # "await" /\ up'.payload \in Seq(Plain)
          BY <4>1, <4>2, <4>3
        <5> QED
          BY <4>1, <4>2, <5>1, <5>2 DEF Shape, N, MainRecords, UpRecords
      <4>4. CASE ~a.ready
        BY <4>1, <4>2, <4>4 DEF Shape, N, MainRecords, UpRecords
      <4> QED
        BY <4>3, <4>4
    <3> QED
      BY <3>1, <3>2
  <2> QED
    BY <1>2, <2>1, <2>2, <2>3, <2>4, <2>5, <2>6, <2>7, <2>8, <2>9, <2>10, <2>11
    DEF Up, UpLocal, StageAnswers
<1>3. CASE Down
  <2>1. UNCHANGED <<cfg, stages, sess, main, up, frag, doc, since>>
    BY <1>3 DEF Down, DownReadFail, DownWrite, DownWriteFail, DownRead, downRest
  <2>2. down' \in [pc: DownPcs, op: {"none", "text", "close"}]
    BY <1>3 DEF Down, DownReadFail, DownWrite, DownWriteFail, DownRead, DownIdle, Shape, DownPcs
  <2> QED
    BY <2>1, <2>2 DEF Shape, N, MainRecords, UpRecords
<1>4. CASE \E d \in Docs : Apply(d)
  BY <1>4 DEF Apply, Shape, N, MainRecords, UpRecords
<1>5. CASE UNCHANGED vars
  BY <1>5 DEF vars, Shape, N, MainRecords, UpRecords
<1> QED
  BY <1>1, <1>2, <1>3, <1>4, <1>5 DEF Next

-----------------------------------------------------------------------------
(* The sessions *)

(* The goroutine of the client's side leaves the main one alone and closes *)
(* only sessions of stages that fail open.                                 *)
LEMMA UpFrame ==
  ASSUME Shape, Up
  PROVE  /\ UNCHANGED <<cfg, stages, main, down>>
         /\ up.pc # "idle" /\ up'.pc # "idle"
         /\ sess' = sess \/ (~stages[up.k] /\ up.pc = "await" /\ up.k \in 1..N /\ sess' = Close({up.k}))
<1> DEFINE Frame == UNCHANGED <<cfg, stages, main, down>> /\ up.pc # "idle" /\ up'.pc # "idle"
           Open == sess' = sess
           Shut == ~stages[up.k] /\ up.pc = "await" /\ up.k \in 1..N /\ sess' = Close({up.k})
<1>1. up \in UpRecords
  BY DEF Shape
<1>2. ASSUME NEW pc \in {"refuse", "done", "read"}, Drop(pc) PROVE up'.pc # "idle"
  BY <1>2 DEF Drop, Idle
<1>3. ASSUME NEW pc \in {"send", "rewrite", "refusing", "done"}, At(pc) PROVE up'.pc # "idle"
  BY <1>1, <1>3 DEF At, UpRecords
<1>4. ASSUME Inspect PROVE Frame /\ Open
  BY <1>1, <1>4 DEF Inspect, upRest, UpRecords
<1>5. ASSUME Decide PROVE Frame /\ Open
  BY <1>2, <1>3, <1>5 DEF Decide, upRest
<1>6. ASSUME Refuse PROVE Frame /\ Open
  BY <1>3, <1>6 DEF Refuse, upRest
<1>7. ASSUME NEW g, Rewrite(g) PROVE Frame /\ Open
  <2>1. CASE up' = [up EXCEPT !.pc = "send", !.payload = Substituted]
    BY <1>1, <1>7, <2>1 DEF Rewrite, upRest, UpRecords
  <2>2. CASE Drop("refuse") \/ Drop("done")
    BY <1>2, <1>7, <2>2 DEF Rewrite, upRest
  <2> QED
    BY <1>7, <2>1, <2>2 DEF Rewrite
<1>8. ASSUME NEW p, MessageAllowed(p) PROVE Frame /\ Open
  BY <1>1, <1>8 DEF MessageAllowed, upRest, UpRecords
<1>9. ASSUME MessageDenied PROVE Frame /\ Open
  BY <1>2, <1>9 DEF MessageDenied, upRest
<1>10. ASSUME MessageFailed
       PROVE  Frame /\ (Open \/ Shut)
  <2>1. up.k \in 1..N /\ up.pc = "await"
    BY <1>1, <1>10 DEF MessageFailed, Shape, UpRecords, N
  <2>2. CASE stages[up.k]
    <3>1. Open /\ Drop("refuse") /\ UNCHANGED <<cfg, stages, main, down>>
      BY <1>10, <2>2 DEF MessageFailed, upRest
    <3>2. Frame
      BY <1>2, <2>1, <3>1
    <3> HIDE DEF Frame, Open, Shut
    <3> QED
      BY <3>1, <3>2
  <2>3. CASE ~stages[up.k]
    <3>1. up' = [up EXCEPT !.pc = "inspect", !.k = @ + 1] /\ UNCHANGED <<cfg, stages, main, down>> /\ sess' = Close({up.k})
      BY <1>10, <2>3 DEF MessageFailed, upRest
    <3>2. up'.pc # "idle"
      BY <1>1, <3>1 DEF UpRecords
    <3> QED
      BY <2>1, <2>3, <3>1, <3>2
  <2> QED
    BY <2>2, <2>3
<1>11. ASSUME UpReadFail \/ UpWriteFail PROVE Frame /\ Open
  BY <1>2, <1>11 DEF UpReadFail, UpWriteFail, upRest
<1>12. ASSUME UpWrite PROVE Frame /\ Open
  <2>1. CASE up.op \in MessageOps
    BY <1>2, <1>12, <2>1 DEF UpWrite, upRest
  <2>2. CASE up.op \notin MessageOps
    BY <1>12, <2>2 DEF UpWrite, upRest, Idle
  <2> QED
    BY <2>1, <2>2
<1>13. ASSUME NEW f \in Frames, UpRead(f) PROVE Frame /\ Open
  <2> DEFINE a == Accept(f)
  <2>1. CASE a.error
    BY <1>2, <1>13, <2>1 DEF UpRead
  <2>2. CASE ~a.error
    <3> HIDE DEF a
    <3>1. /\ up' = IF a.ready
                   THEN [pc |-> IF a.op \in MessageOps THEN "inspect" ELSE "send", k |-> 1,
                         op |-> a.op, whole |-> a.data, payload |-> a.data, trail |-> << >>]
                   ELSE up
          /\ up.pc = "read" /\ UNCHANGED <<cfg, stages, main, down, sess>>
      BY <1>13, <2>2 DEF UpRead, a
    <3>2. up'.pc # "idle"
      BY <3>1
    <3> QED
      BY <3>1, <3>2
  <2> QED
    BY <2>1, <2>2
<1> HIDE DEF Frame, Open, Shut
<1>14. Frame /\ (Open \/ Shut)
  BY <1>4, <1>5, <1>6, <1>7, <1>8, <1>9, <1>10, <1>11, <1>12, <1>13 DEF Up, UpLocal, StageAnswers
<1> QED
  BY <1>14 DEF Frame, Open, Shut

(* What the steps of the upstream's goroutine leave alone. *)
LEMMA DownFrame ==
  ASSUME Shape, Down
  PROVE  /\ UNCHANGED <<cfg, stages, sess, main, up, frag, sock, doc, since, frames>>
         /\ down.pc # "idle" /\ down'.pc # "idle"
BY DEF Down, DownReadFail, DownWrite, DownWriteFail, DownRead, DownIdle, downRest, Shape

(* No session is open at the start. *)
LEMMA SessionsInit == Init => Sessions
BY DEF Init, Sessions, Idle

(* Every step keeps the sessions in line with the relay's progress. *)
LEMMA SessionsStep == Shape /\ Sessions /\ [Next]_vars => Sessions'
<1> SUFFICES ASSUME Shape, Sessions, [Next]_vars PROVE Sessions'
  OBVIOUS
<1>n. N \in Nat
  BY DEF Shape, N
<1>t. /\ main = [pc |-> main.pc, k |-> main.k, via |-> main.via] /\ main.k \in 1..(N + 1)
      /\ sess \in [1..N -> SessionStates]
  BY DEF Shape, MainRecords
<1>c. ASSUME NEW S PROVE \A k \in 1..N : /\ Close(S)[k] \in {sess[k], "closed"}
                                         /\ Close(S)[k] = "inspecting" => sess[k] = "inspecting" /\ k \notin S
  BY <1>t DEF Close
<1>1. CASE Main
  <2>1. ASSUME NEW a \in {"inspect", "skip", "deny", "fail"}, OpenSession(a) PROVE Sessions'
    <3>1. /\ main.pc = "open" /\ main.k \in 1..N /\ main.via = "none"
          /\ N' = N /\ up' = up /\ down' = down
      BY <1>n, <1>t, <2>1 DEF OpenSession, relayVars, Sessions, N
    <3>2. sess' = [sess EXCEPT ![main.k] = IF a = "inspect" THEN "inspecting" ELSE "skipped"]
      BY <2>1 DEF OpenSession
    <3>3. CASE Leave("refused")
      <4>1. main' = [pc |-> "sockets", k |-> main.k, via |-> "refused"]
        BY <1>t, <3>3 DEF Leave
      <4> QED
        BY <3>1, <4>1 DEF Sessions
    <3>4. CASE NextStage
      <4>1. main' = [pc |-> "open", k |-> main.k + 1, via |-> "none"]
        BY <1>t, <3>1, <3>4 DEF NextStage
      <4>2. \A k \in 1..N : k < main.k + 1 => sess'[k] \in {"inspecting", "skipped"}
        <5> SUFFICES ASSUME NEW k \in 1..N, k < main.k + 1
                     PROVE  sess'[k] \in {"inspecting", "skipped"}
          OBVIOUS
        <5>1. k = main.k \/ k < main.k
          BY <1>n, <1>t
        <5> QED
          BY <1>t, <3>1, <3>2, <5>1 DEF Sessions
      <4> QED
        BY <3>1, <4>1, <4>2 DEF Sessions
    <3> QED
      BY <2>1, <3>3, <3>4 DEF OpenSession
  <2>2. ASSUME NEW a \in {"switched", "rejected", "unread", "failed"}, Upgrade(a) PROVE Sessions'
    <3>1. /\ main.pc = "open" /\ main.k > N /\ main.via = "none"
          /\ N' = N /\ up' = up /\ down' = down
      BY <2>2 DEF Upgrade, relayVars, Sessions, N
    <3>2. \A k \in 1..N : sess[k] \in {"inspecting", "skipped"}
      BY <1>n, <1>t, <3>1 DEF Sessions
    <3>3. CASE a = "switched"
      <4>1. main' = [pc |-> "start", k |-> 1, via |-> "none"] /\ sess' = sess
        BY <1>t, <2>2, <3>1, <3>3 DEF Upgrade
      <4> QED
        BY <3>1, <3>2, <4>1 DEF Sessions
    <3>4. CASE a # "switched"
      <4>1. main' = [pc |-> "sockets", k |-> main.k, via |-> a]
        BY <1>t, <2>2, <3>4 DEF Upgrade, Leave
      <4>2. a \in {"rejected", "unread"} => \A k \in 1..N : sess'[k] # "inspecting"
        BY <1>c, <2>2 DEF Upgrade
      <4> QED
        BY <3>1, <4>1, <4>2 DEF Sessions
    <3> QED
      BY <3>3, <3>4
  <2>3. ASSUME NEW ok \in BOOLEAN, StartSession(ok) PROVE Sessions'
    <3>1. main.pc = "start" /\ main.via = "none" /\ N' = N /\ up' = up /\ down' = down
      BY <2>3 DEF StartSession, relayVars, Sessions, N
    <3>2. CASE ok
      <4>1. main' = [pc |-> "start", k |-> main.k + 1, via |-> "none"] /\ sess' = sess
        BY <1>t, <2>3, <3>1, <3>2 DEF StartSession, NextStage
      <4> QED
        BY <3>1, <4>1 DEF Sessions
    <3>3. CASE ~ok
      <4>1. main' = [pc |-> "sockets", k |-> main.k, via |-> "failed"]
        BY <1>t, <2>3, <3>3 DEF StartSession, Leave
      <4> QED
        BY <3>1, <4>1 DEF Sessions
    <3> QED
      BY <3>2, <3>3
  <2>4. CASE StartRelay
    <3>1. main' = [pc |-> "relay", k |-> main.k, via |-> "relayed"] /\ sess' = sess /\ N' = N /\ stages' = stages
      BY <1>t, <2>4 DEF StartRelay, N
    <3>2. up'.pc = "read" /\ down'.pc = "read"
      BY <2>4 DEF StartRelay, Shape, UpRecords
    <3>3. \A k \in 1..N : sess[k] \in {"inspecting", "skipped"}
      BY <2>4 DEF StartRelay, Sessions
    <3> QED
      BY <3>1, <3>2, <3>3 DEF Sessions
  <2>5. CASE Wake
    <3>1. main' = [pc |-> "closing", k |-> 1, via |-> "relayed"] /\ main.via = "relayed"
      BY <1>t, <2>5 DEF Wake, Sessions
    <3>2. sess' = sess /\ N' = N /\ up' = up /\ down' = down
      BY <2>5 DEF Wake, relayVars, N
    <3>3. \A k \in 1..N : ~(k < 1)
      BY <1>n
    <3> QED
      BY <3>1, <3>2, <3>3 DEF Sessions
  <2>6. CASE CloseSession
    <3>1. main.pc = "closing" /\ main.via = "relayed" /\ N' = N /\ up' = up /\ down' = down
      BY <2>6 DEF CloseSession, relayVars, Sessions, N
    <3>2. CASE main.k <= N
      <4>1. main' = [pc |-> "closing", k |-> main.k + 1, via |-> "relayed"]
        BY <1>t, <2>6, <3>1, <3>2 DEF CloseSession, NextStage
      <4>2. sess' = Close({main.k})
        BY <2>6, <3>2 DEF CloseSession
      <4>3. \A k \in 1..N : k < main.k + 1 => k < main.k \/ k \in {main.k}
        BY <1>n, <1>t
      <4>4. \A k \in 1..N : k < main.k + 1 => sess'[k] # "inspecting"
        BY <1>c, <3>1, <4>2, <4>3 DEF Sessions
      <4> QED
        BY <3>1, <4>1, <4>4 DEF Sessions
    <3>3. CASE ~(main.k <= N)
      <4>1. main' = [pc |-> "sockets", k |-> main.k, via |-> "relayed"] /\ sess' = sess
        BY <1>t, <2>6, <3>3 DEF CloseSession, Leave
      <4>2. \A k \in 1..N : k < main.k
        BY <1>n, <1>t, <3>3
      <4> QED
        BY <3>1, <4>1, <4>2 DEF Sessions
    <3> QED
      BY <3>2, <3>3
  <2>7. CASE CloseSockets
    <3>1. main' = [pc |-> "done", k |-> main.k, via |-> main.via] /\ main.pc = "sockets"
      BY <1>t, <2>7 DEF CloseSockets
    <3>2. sess' = sess /\ N' = N /\ up' = up /\ down' = down
      BY <2>7 DEF CloseSockets, N
    <3> QED
      BY <3>1, <3>2 DEF Sessions
  <2> QED
    BY <1>1, <2>1, <2>2, <2>3, <2>4, <2>5, <2>6, <2>7 DEF Main
<1>2. CASE Up
  <2>1. /\ UNCHANGED <<stages, main, down>> /\ N' = N
        /\ up.pc # "idle" /\ up'.pc # "idle"
        /\ sess' = sess \/ (~stages[up.k] /\ up.k \in 1..N /\ sess' = Close({up.k}))
    BY <1>2, UpFrame DEF N
  <2>2. main.pc \notin {"open", "start"}
    BY <2>1 DEF Sessions
  <2>3. /\ \A k \in 1..N : sess[k] # "inspecting" => sess'[k] # "inspecting"
        /\ \A k \in 1..N : stages[k] => sess'[k] = sess[k]
    <3>1. CASE sess' = sess
      BY <3>1
    <3>2. CASE ~stages[up.k] /\ sess' = Close({up.k})
      <4>1. \A k \in 1..N : stages[k] => k \notin {up.k}
        BY <3>2
      <4>2. \A k \in 1..N : k \notin {up.k} => Close({up.k})[k] = sess[k]
        BY <1>t DEF Close
      <4> QED
        BY <1>c, <3>2, <4>1, <4>2
    <3> QED
      BY <2>1, <3>1, <3>2
  <2> QED
    BY <2>1, <2>2, <2>3 DEF Sessions
<1>3. CASE Down
  BY <1>3, DownFrame DEF Sessions, N
<1>4. CASE \E d \in Docs : Apply(d)
  BY <1>4 DEF Apply, Sessions, N
<1>5. CASE UNCHANGED vars
  BY <1>5 DEF vars, Sessions, N
<1> QED
  BY <1>1, <1>2, <1>3, <1>4, <1>5 DEF Next

-----------------------------------------------------------------------------
(* Reassembly *)

(* The payload of one frame is joined from that frame. *)
LEMMA JoinFirst ==
  ASSUME NEW f, f.data \in Seq(Plain)
  PROVE  Joins(f.data, <<f>>)
<1> DEFINE w == f.data
           cut == [i \in 0..1 |-> IF i = 0 THEN 0 ELSE Len(w)]
<1>1. Len(w) \in Nat
  OBVIOUS
<1>2. Len(<<f>>) = 1 /\ <<f>>[1] = f
  OBVIOUS
<1>3. cut \in [0..1 -> 0..Len(w)] /\ cut[0] = 0 /\ cut[1] = Len(w)
  BY <1>1
<1>4. \A j \in 1..1 : j = 1 /\ j - 1 = 0
  OBVIOUS
<1> HIDE DEF cut
<1>5. \A j \in 1..1 : /\ Len(<<f>>[j].data) = cut[j] - cut[j - 1]
                     /\ \A i \in 1..Len(<<f>>[j].data) : w[cut[j - 1] + i] = <<f>>[j].data[i]
  BY <1>1, <1>2, <1>3, <1>4
<1> QED
  BY <1>2, <1>3, <1>5 DEF Joins

(* With one more frame, its payload is joined behind the others'. *)
LEMMA JoinNext ==
  ASSUME NEW T, NEW d \in Seq(T), NEW w \in Seq(Plain), Joins(w, d),
         NEW f \in T, f.data \in Seq(Plain)
  PROVE  Joins(w \o f.data, Append(d, f))
<1> DEFINE n == Len(d)
           m == Len(w)
           l == Len(f.data)
           v == w \o f.data
           e == Append(d, f)
<1>1. n \in Nat /\ m \in Nat /\ l \in Nat
  OBVIOUS
<1>2. Len(v) = m + l /\ (\A i \in 1..m : v[i] = w[i]) /\ \A i \in 1..l : v[m + i] = f.data[i]
  OBVIOUS
<1>3. Len(e) = n + 1 /\ e[n + 1] = f /\ \A j \in 1..n : e[j] = d[j]
  OBVIOUS
<1>4. PICK cut \in [0..n -> 0..m] :
         /\ cut[0] = 0 /\ cut[n] = m
         /\ \A j \in 1..n : /\ Len(d[j].data) = cut[j] - cut[j - 1]
                           /\ \A i \in 1..Len(d[j].data) : w[cut[j - 1] + i] = d[j].data[i]
  BY DEF Joins
<1> HIDE DEF n, m, l, v, e
<1> DEFINE next == [j \in 0..(n + 1) |-> IF j <= n THEN cut[j] ELSE m + l]
<1>5. /\ \A j \in 0..n : next[j] = cut[j]
      /\ next[n + 1] = m + l
  BY <1>1
<1>6. next \in [0..(n + 1) -> 0..(m + l)]
  <2>1. \A j \in 0..n : cut[j] \in 0..(m + l)
    BY <1>1, <1>4
  <2>2. \A j \in 0..(n + 1) : j <= n => j \in 0..n
    BY <1>1
  <2>3. m + l \in 0..(m + l)
    BY <1>1
  <2> QED
    BY <2>1, <2>2, <2>3
<1> HIDE DEF next
<1>7. next[0] = 0
  BY <1>1, <1>4, <1>5
<1>8. ASSUME NEW j \in 1..(n + 1)
      PROVE  /\ Len(e[j].data) = next[j] - next[j - 1]
             /\ \A i \in 1..Len(e[j].data) : v[next[j - 1] + i] = e[j].data[i]
  <2>1. CASE j = n + 1
    <3>1. j - 1 = n /\ n \in 0..n /\ next[j - 1] = m /\ next[j] = m + l /\ e[j] = f
      BY <1>1, <1>3, <1>4, <1>5, <2>1
    <3>2. Len(f.data) = (m + l) - m
      BY <1>1 DEF l
    <3> QED
      BY <1>2, <3>1, <3>2 DEF l
  <2>2. CASE j \in 1..n
    <3>1. j - 1 \in 0..n /\ j \in 0..n
      BY <1>1, <2>2
    <3>2. next[j] = cut[j] /\ next[j - 1] = cut[j - 1] /\ e[j] = d[j] /\ cut[j] \in 0..m /\ cut[j - 1] \in 0..m
      BY <1>3, <1>4, <1>5, <2>2, <3>1
    <3>3. Len(d[j].data) = cut[j] - cut[j - 1]
      BY <1>4, <2>2
    <3>a. \A a, b \in 0..m : \A i \in 1..(b - a) : a + i \in 1..m
      BY <1>1
    <3>4. \A i \in 1..Len(d[j].data) : cut[j - 1] + i \in 1..m
      BY <3>2, <3>3, <3>a
    <3>5. \A i \in 1..Len(d[j].data) : w[cut[j - 1] + i] = d[j].data[i]
      BY <1>4, <2>2
    <3> QED
      BY <1>2, <3>2, <3>3, <3>4, <3>5
  <2> QED
    BY <1>1, <2>1, <2>2
<1>9. Joins(v, e)
  <2>1. next \in [0..Len(e) -> 0..Len(v)] /\ next[0] = 0 /\ next[Len(e)] = Len(v)
    BY <1>2, <1>3, <1>5, <1>6, <1>7
  <2>2. \A j \in 1..Len(e) : /\ Len(e[j].data) = next[j] - next[j - 1]
                             /\ \A i \in 1..Len(e[j].data) : v[next[j - 1] + i] = e[j].data[i]
    BY <1>3, <1>8
  <2> QED
    BY <2>1, <2>2 DEF Joins
<1> QED
  BY <1>9 DEF v, e

(* A first frame begins a message. *)
LEMMA BegunFirst ==
  ASSUME NEW f \in DataFrames, f.op \in MessageOps
  PROVE  /\ Append(<< >>, f) \in Seq(DataFrames) /\ Len(Append(<< >>, f)) = 1
         /\ Append(<< >>, f)[1] = f
         /\ Begun(Append(<< >>, f), f.op, f.data)
<1>1. Append(<< >>, f) = <<f>> /\ <<f>> \in Seq(DataFrames) /\ Len(<<f>>) = 1 /\ <<f>>[1] = f /\ <<f>> # << >>
  OBVIOUS
<1>2. Joins(f.data, <<f>>)
  BY JoinFirst DEF DataFrames
<1>3. \A j \in 1..1 : j > 1 <=> <<f>>[j].op = "cont"
  BY <1>1 DEF MessageOps
<1> QED
  BY <1>1, <1>2, <1>3 DEF Begun

(* A continuation carries a begun message on. *)
LEMMA BegunNext ==
  ASSUME NEW d \in Seq(DataFrames), NEW op, NEW w \in Seq(Plain), Begun(d, op, w),
         NEW f \in DataFrames, f.op = "cont"
  PROVE  /\ Append(d, f) \in Seq(DataFrames) /\ Len(Append(d, f)) = Len(d) + 1
         /\ Append(d, f)[Len(d) + 1] = f /\ \A j \in 1..Len(d) : Append(d, f)[j] = d[j]
         /\ Begun(Append(d, f), op, w \o f.data)
<1> DEFINE e == Append(d, f)
           n == Len(d)
<1>1. /\ e \in Seq(DataFrames) /\ Len(e) = n + 1 /\ e[n + 1] = f
      /\ \A j \in 1..n : e[j] = d[j]
  OBVIOUS
<1>2. n \in Nat /\ n > 0
  BY DEF Begun
<1>3. Joins(w \o f.data, e)
  BY JoinNext DEF Begun, DataFrames
<1>4. \A j \in 1..n : j > 1 <=> d[j].op = "cont"
  BY DEF Begun
<1>5. d[1].op = op
  BY DEF Begun
<1> HIDE DEF e, n
<1>6. \A j \in 1..(n + 1) : j \in 1..n \/ j = n + 1
  BY <1>2
<1>7. n + 1 > 1 /\ 1 \in 1..n
  BY <1>2
<1>8. \A j \in 1..Len(e) : j > 1 <=> e[j].op = "cont"
  BY <1>1, <1>4, <1>6, <1>7
<1>9. e # << >> /\ e[1].op = op
  BY <1>1, <1>2, <1>5, <1>7
<1>10. Begun(e, op, w \o f.data)
  BY <1>3, <1>8, <1>9 DEF Begun
<1> QED
  BY <1>1, <1>10 DEF e, n

(* Nothing is buffered at the start. *)
LEMMA BufferedInit == Init => Buffered
BY DEF Init, Buffered, InHand, Sending, Idle, NoFragments

(* Every step keeps fragments and message equal to the frames they came from. *)
LEMMA BufferedStep == Shape /\ Sessions /\ Buffered /\ [Next]_vars => Buffered'
<1> SUFFICES ASSUME Shape, Sessions, Buffered, [Next]_vars PROVE Buffered'
  OBVIOUS
<1>v. /\ up \in UpRecords
      /\ up = [pc |-> up.pc, k |-> up.k, op |-> up.op, whole |-> up.whole, payload |-> up.payload,
               trail |-> up.trail]
  BY DEF Shape, UpRecords
<1>a. ASSUME UNCHANGED <<up, frag, frames>> PROVE Buffered'
  BY <1>a DEF Buffered, InHand, Sending
(* The message stays in hand. *)
<1>k. ASSUME InHand, UNCHANGED <<frag, frames>>, up'.op = up.op, up'.whole = up.whole,
             up'.pc \in {"inspect", "await", "rewrite", "send"}
      PROVE  Buffered'
  <2>1. InHand'
    BY <1>k DEF Buffered, InHand, Sending
  <2> QED
    BY <1>k, <2>1 DEF Buffered
(* The goroutine is about to end. *)
<1>e. ASSUME up'.pc \in {"refuse", "refusing", "done"}, frames' \in {frames, << >>} PROVE Buffered'
  <2>1. ~InHand' /\ up'.pc \notin {"idle", "read", "send"}
    BY <1>e DEF InHand, Sending
  <2>2. frames' \in Seq(DataFrames)
    <3>1. << >> \in Seq(DataFrames)
      OBVIOUS
    <3> QED
      BY <1>e, <3>1 DEF Buffered
  <2> QED
    BY <2>1, <2>2 DEF Buffered
<1>d. ASSUME NEW pc \in {"refuse", "done"}, Drop(pc) PROVE Buffered'
  BY <1>e, <1>d DEF Drop, Idle
<1>1. CASE Main
  <2>1. CASE StartRelay
    <3>1. up.pc = "idle" /\ up'.pc = "read" /\ UNCHANGED <<frag, frames>>
      BY <1>v, <2>1 DEF StartRelay, Sessions
    <3>2. ~InHand /\ ~InHand'
      BY <3>1 DEF InHand, Sending
    <3> QED
      BY <3>1, <3>2 DEF Buffered
  <2>2. CASE ~StartRelay
    <3>1. UNCHANGED <<up, frag, frames>>
      BY <1>1, <2>2 DEF Main, OpenSession, Upgrade, StartSession, Wake, CloseSession,
            CloseSockets, relayVars
    <3> QED
      BY <1>a, <3>1
  <2> QED
    BY <2>1, <2>2
<1>2. CASE Up
  <2>1. CASE Inspect
    <3>1. up'.op = up.op /\ up'.whole = up.whole /\ up'.pc \in {"inspect", "await"} /\ UNCHANGED <<frag, frames>>
      BY <1>v, <2>1 DEF Inspect, Keep
    <3>2. InHand
      BY <2>1 DEF Inspect, InHand
    <3> QED
      BY <1>k, <3>1, <3>2
  <2>2. CASE Decide
    <3>1. InHand
      BY <2>2 DEF Decide, InHand
    <3>2. ASSUME NEW pc \in {"send", "rewrite"}, At(pc) PROVE Buffered'
      <4>1. up'.op = up.op /\ up'.whole = up.whole /\ up'.pc = pc /\ UNCHANGED <<frag, frames>>
        BY <1>v, <2>2, <3>2 DEF Decide, At, Keep
      <4> QED
        BY <1>k, <3>1, <4>1
    <3> QED
      BY <1>d, <2>2, <3>2 DEF Decide
  <2>3. CASE Refuse
    <3>1. up'.pc \in {"refusing", "done"} /\ frames' = frames
      BY <1>v, <2>3 DEF Refuse, At, Keep
    <3> QED
      BY <1>e, <3>1
  <2>4. ASSUME NEW g, Rewrite(g) PROVE Buffered'
    <3>1. CASE up' = [up EXCEPT !.pc = "send", !.payload = Substituted] /\ Keep
      <4>1. up'.op = up.op /\ up'.whole = up.whole /\ up'.pc = "send" /\ UNCHANGED <<frag, frames>>
        BY <1>v, <2>4, <3>1 DEF Rewrite, Keep
      <4>2. InHand
        BY <2>4 DEF Rewrite, InHand
      <4> QED
        BY <1>k, <4>1, <4>2
    <3>2. CASE Drop("refuse") \/ Drop("done")
      BY <1>d, <3>2
    <3> QED
      BY <2>4, <3>1, <3>2 DEF Rewrite
  <2>5. ASSUME NEW p, MessageAllowed(p) PROVE Buffered'
    <3>1. up'.op = up.op /\ up'.whole = up.whole /\ up'.pc = "inspect" /\ UNCHANGED <<frag, frames>>
      BY <1>v, <2>5 DEF MessageAllowed, Keep
    <3>2. InHand
      BY <2>5 DEF MessageAllowed, InHand
    <3> QED
      BY <1>k, <3>1, <3>2
  <2>6. CASE MessageDenied
    BY <1>d, <2>6 DEF MessageDenied
  <2>7. CASE MessageFailed
    <3>1. CASE stages[up.k]
      BY <1>d, <2>7, <3>1 DEF MessageFailed
    <3>2. CASE ~stages[up.k]
      <4>1. up'.op = up.op /\ up'.whole = up.whole /\ up'.pc = "inspect" /\ UNCHANGED <<frag, frames>>
        BY <1>v, <2>7, <3>2 DEF MessageFailed, Keep
      <4>2. InHand
        BY <2>7 DEF MessageFailed, InHand
      <4> QED
        BY <1>k, <4>1, <4>2
    <3> QED
      BY <3>1, <3>2
  <2>8. CASE UpReadFail \/ UpWriteFail
    BY <1>d, <2>8 DEF UpReadFail, UpWriteFail
  <2>9. CASE UpWrite
    <3>1. CASE up.op \in MessageOps
      <4>1. frag' = NoFragments
        BY <2>9, <3>1 DEF UpWrite, Buffered, InHand, Sending
      <4>2. frames' = << >> /\ up'.pc = "read"
        BY <2>9, <3>1 DEF UpWrite, Drop, Idle
      <4> QED
        BY <4>1, <4>2 DEF Buffered, NoFragments, InHand, Sending
    <3>2. CASE up.op \notin MessageOps
      <4>1. up.pc = "send" /\ up'.pc \in {"read", "done"} /\ UNCHANGED <<frag, frames>>
        BY <2>9, <3>2 DEF UpWrite, Idle, Keep
      <4>2. ~InHand /\ ~InHand'
        BY <3>2, <4>1 DEF InHand, Sending
      <4> QED
        BY <4>1, <4>2 DEF Buffered
    <3> QED
      BY <3>1, <3>2
  <2>10. ASSUME NEW f \in Frames, UpRead(f) PROVE Buffered'
    <3> DEFINE a == Accept(f)
    <3>1. CASE a.error
      BY <1>d, <2>10, <3>1 DEF UpRead
    <3>2. CASE ~a.error
      <4>1. /\ up' = IF a.ready
                     THEN [pc |-> IF a.op \in MessageOps THEN "inspect" ELSE "send", k |-> 1,
                           op |-> a.op, whole |-> a.data, payload |-> a.data, trail |-> << >>]
                     ELSE up
            /\ frag' = a.frag /\ up.pc = "read"
            /\ frames' = IF f.op \in DataOps THEN Append(frames, f) ELSE frames
        BY <2>10, <3>2 DEF UpRead
      <4>2. ~InHand
        BY <4>1 DEF InHand, Sending
      <4>3. /\ frag.op = "none" => frames = << >>
            /\ frag.op # "none" => Begun(frames, frag.op, frag.data)
                                      /\ \A j \in 1..Len(frames) : ~frames[j].fin
            /\ frames \in Seq(DataFrames)
        BY <4>1, <4>2 DEF Buffered
      <4>4. f.op \in DataOps => f \in DataFrames
        BY FrameType
      <4>5. f.fin \in BOOLEAN
        BY FrameType
      <4>6. CASE f.op \in MessageOps
        <5>1. /\ frag.op = "none" /\ ~(Len(f.data) > MaxMessage)
              /\ a.frag = IF f.fin THEN NoFragments ELSE [op |-> f.op, data |-> f.data]
              /\ a.ready = f.fin /\ a.op = f.op /\ a.data = f.data
          BY <3>2, <4>6, AcceptFirst
        <5> HIDE DEF a
        <5>2. frames' = Append(<< >>, f) /\ f \in DataFrames
          BY <4>1, <4>3, <4>4, <4>6, <5>1 DEF DataOps
        <5>3. frames' \in Seq(DataFrames) /\ Len(frames') = 1 /\ frames'[1] = f /\ Begun(frames', f.op, f.data)
          BY <4>6, <5>2, BegunFirst
        <5>4. Len(f.data) <= MaxMessage
          BY <5>1, <5>2, RelayAssumption, LenProperties DEF DataFrames
        <5>5. CASE f.fin
          <6>1. up'.pc = "inspect" /\ up'.op = f.op /\ up'.whole = f.data /\ frag' = NoFragments
            BY <4>1, <4>6, <5>1, <5>5
          <6>2. InHand'
            BY <6>1 DEF InHand
          <6>3. \A j \in 1..Len(frames') : j = Len(frames') <=> frames'[j].fin
            BY <5>3, <5>5
          <6> QED
            BY <4>6, <5>3, <5>4, <6>1, <6>2, <6>3 DEF Buffered
        <5>6. CASE ~f.fin
          <6>1. up' = up /\ frag' = [op |-> f.op, data |-> f.data]
            BY <4>1, <5>1, <5>6
          <6>2. frag'.op = f.op /\ frag'.data = f.data /\ f.op # "none"
            BY <4>6, <6>1 DEF MessageOps
          <6>3. ~InHand'
            BY <4>2, <6>1 DEF InHand, Sending
          <6>4. \A j \in 1..Len(frames') : ~frames'[j].fin
            BY <5>3, <5>6
          <6> QED
            BY <5>3, <6>2, <6>3, <6>4 DEF Buffered
        <5> QED
          BY <5>5, <5>6
      <4>7. CASE f.op = "cont"
        <5> DEFINE w == frag.data \o f.data
        <5>1. /\ frag.op # "none" /\ ~(Len(w) > MaxMessage)
              /\ a.frag = IF f.fin THEN NoFragments ELSE [op |-> frag.op, data |-> w]
              /\ a.ready = f.fin /\ a.op = frag.op /\ a.data = w
          BY <3>2, <4>7, AcceptCont
        <5>2. frames' = Append(frames, f) /\ f \in DataFrames
          BY <4>1, <4>4, <4>7 DEF DataOps
        <5>3. frag.data \in Seq(Plain) /\ f.data \in Seq(Plain) /\ frag.op \in MessageOps
          BY <5>1, <5>2 DEF Shape, DataFrames
        <5>4. Begun(frames, frag.op, frag.data) /\ (\A j \in 1..Len(frames) : ~frames[j].fin) /\ Len(frames) \in Nat
          BY <4>3, <5>1
        <5>5. /\ frames' \in Seq(DataFrames) /\ Len(frames') = Len(frames) + 1
              /\ frames'[Len(frames) + 1] = f /\ \A j \in 1..Len(frames) : frames'[j] = frames[j]
              /\ Begun(frames', frag.op, w)
          BY <4>3, <4>7, <5>2, <5>3, <5>4, BegunNext
        <5>6. w \in Seq(Plain)
          BY <5>3
        <5> HIDE DEF a, w
        <5>7. Len(w) <= MaxMessage
          BY <5>1, <5>6, RelayAssumption, LenProperties
        <5>8. \A j \in 1..Len(frames') : (j \in 1..Len(frames) /\ j # Len(frames')) \/ j = Len(frames')
          BY <5>4, <5>5
        <5>9. CASE f.fin
          <6>1. up'.pc = "inspect" /\ up'.op = frag.op /\ up'.whole = w /\ frag' = NoFragments
            BY <4>1, <5>1, <5>3, <5>9
          <6>2. InHand'
            BY <6>1 DEF InHand
          <6>3. \A j \in 1..Len(frames') : j = Len(frames') <=> frames'[j].fin
            BY <5>4, <5>5, <5>8, <5>9
          <6> QED
            BY <5>3, <5>5, <5>7, <6>1, <6>2, <6>3 DEF Buffered
        <5>10. CASE ~f.fin
          <6>1. up' = up /\ frag' = [op |-> frag.op, data |-> w]
            BY <4>1, <5>1, <5>10
          <6>2. frag'.op = frag.op /\ frag'.data = w
            BY <6>1
          <6>3. ~InHand'
            BY <4>2, <6>1 DEF InHand, Sending
          <6>4. \A j \in 1..Len(frames') : ~frames'[j].fin
            BY <5>4, <5>5, <5>8, <5>10
          <6> QED
            BY <5>1, <5>5, <6>2, <6>3, <6>4 DEF Buffered
        <5> QED
          BY <5>9, <5>10
      <4>8. CASE f.op \notin DataOps
        <5>1. a.frag = frag /\ a.ready /\ a.op = f.op
          BY <4>8, AcceptControl
        <5> HIDE DEF a
        <5>2. up'.pc = "send" /\ up'.op = f.op /\ frag' = frag /\ frames' = frames
          BY <4>1, <4>8, <5>1 DEF DataOps
        <5>3. ~InHand'
          BY <4>8, <5>2 DEF InHand, Sending, DataOps
        <5> QED
          BY <4>3, <5>2, <5>3 DEF Buffered
      <4> QED
        BY <4>6, <4>7, <4>8 DEF DataOps
    <3> QED
      BY <3>1, <3>2
  <2> QED
    BY <1>2, <2>1, <2>2, <2>3, <2>4, <2>5, <2>6, <2>7, <2>8, <2>9, <2>10
       DEF Up, UpLocal, StageAnswers
<1>3. CASE Down
  BY <1>3, <1>a, DownFrame
<1>4. CASE \E d \in Docs : Apply(d)
  BY <1>4, <1>a DEF Apply
<1>5. CASE UNCHANGED vars
  BY <1>5, <1>a DEF vars
<1> QED
  BY <1>1, <1>2, <1>3, <1>4, <1>5 DEF Next

-----------------------------------------------------------------------------
(* What the stages and the policy saw *)

(* No message has a trail at the start. *)
LEMMA FollowedInit == Init => Followed
BY DEF Init, Followed, InHand, Sending, Idle

(* Every step keeps the trail, the verdict and the substitution of the message. *)
LEMMA FollowedStep == Shape /\ Sessions /\ Buffered /\ Followed /\ [Next]_vars => Followed'
<1> SUFFICES ASSUME Shape, Sessions, Buffered, Followed, [Next]_vars PROVE Followed'
  OBVIOUS
<1>v. /\ up \in UpRecords
      /\ up = [pc |-> up.pc, k |-> up.k, op |-> up.op, whole |-> up.whole, payload |-> up.payload,
               trail |-> up.trail]
  BY DEF Shape, UpRecords
<1>t. up.trail \in Seq([k: 1..N, shown: Seq(Plain), left: Seq(Plain)])
  BY <1>v DEF UpRecords
<1>a. ASSUME UNCHANGED <<cfg, up>>, up.pc \in {"rewrite", "send"} => since \subseteq since'
      PROVE  Followed'
  <2>1. Judged' = Judged /\ ControlMessage' = ControlMessage
    BY <1>a DEF Judged, ControlMessage
  <2>2. up.pc \in {"rewrite", "send"} /\ Permitted => Permitted'
    BY <1>a, <2>1 DEF Permitted
  <2> QED
    BY <1>a, <2>1, <2>2 DEF Followed, InHand, Sending
<1>e. ASSUME up'.pc \in {"idle", "read", "refuse", "refusing", "done"} PROVE Followed'
  BY <1>e DEF Followed, InHand, Sending
<1>d. ASSUME NEW pc \in {"read", "refuse", "done"}, Drop(pc) PROVE Followed'
  BY <1>e, <1>d DEF Drop, Idle
(* The stages go on with the message as it is. *)
<1>i. ASSUME up.pc \in {"inspect", "await"}, up'.pc \in {"inspect", "await"},
             up'.whole = up.whole, up'.payload = up.payload, up'.trail = up.trail
      PROVE  Followed'
  <2>1. Judged' = Judged
    BY <1>i DEF Judged
  <2>2. InHand
    BY <1>i DEF InHand
  <2> QED
    BY <1>i, <2>1, <2>2 DEF Followed, Sending
<1>1. CASE Main
  <2>1. CASE StartRelay
    <3>1. up'.pc = "read"
      BY <1>v, <2>1 DEF StartRelay
    <3> QED
      BY <1>e, <3>1
  <2>2. CASE ~StartRelay
    <3>1. UNCHANGED <<cfg, up, since>>
      BY <1>1, <2>2 DEF Main, OpenSession, Upgrade, StartSession, Wake, CloseSession,
            CloseSockets, relayVars
    <3> QED
      BY <1>a, <3>1
  <2> QED
    BY <2>1, <2>2
<1>2. CASE Up
  <2>1. CASE Inspect
    BY <1>i, <1>v, <2>1 DEF Inspect
  <2>2. CASE Decide
    <3>1. /\ up.pc = "inspect" /\ InHand /\ up.op \in MessageOps
          /\ up.payload = Judged /\ up.payload \in Seq(Plain)
      BY <2>2 DEF Decide, InHand, Followed, Buffered, Shape
    <3>2. \A j \in 1..Len(up.trail) :
             up.trail[j].shown = IF j = 1 THEN up.whole ELSE up.trail[j - 1].left
      BY <3>1 DEF Followed
    <3>3. cfg.graphql \in BOOLEAN /\ cfg.rewrite \in BOOLEAN /\ doc \in since
      BY DEF Shape, ConfigType
    <3>4. Verdict = "pass" => ControlMessage
      BY <3>1, <3>3 DEF Verdict, ControlMessage
    <3>5. Verdict = "allow" => ~ControlMessage /\ Permitted
      BY <3>1, <3>3 DEF Verdict, ControlMessage, Permitted, Allowed
    <3>6. ASSUME NEW pc \in {"send", "rewrite"}, At(pc),
                 pc = "send" /\ up.op = "text" => ControlMessage \/ Permitted,
                 pc = "rewrite" => cfg.rewrite /\ up.op = "text" /\ ~ControlMessage /\ Permitted
          PROVE  Followed'
      <4>1. /\ up'.op = up.op /\ up'.whole = up.whole /\ up'.pc = pc /\ up'.trail = up.trail
            /\ up'.payload = up.payload /\ UNCHANGED <<cfg, since>>
        BY <1>v, <2>2, <3>6 DEF Decide, At, Keep, upRest
      <4>2. Judged' = Judged /\ ControlMessage' = ControlMessage /\ Permitted' = Permitted
        BY <4>1 DEF Judged, ControlMessage, Permitted
      <4>3. Rewritten(Judged, up.payload)
        BY <3>1 DEF Rewritten
      <4>4. Rewritten(Judged, up.payload)'
        BY <4>1, <4>2, <4>3 DEF Rewritten
      <4> QED
        BY <3>1, <3>2, <3>6, <4>1, <4>2, <4>4 DEF Followed, Sending, InHand
    <3>7. CASE up.op = "binary" /\ At("send")
      BY <3>6, <3>7
    <3>8. CASE up.op = "text" /\ Verdict = "pass" /\ At("send")
      BY <3>4, <3>6, <3>8
    <3>9. CASE Drop("refuse")
      BY <1>d, <3>9
    <3>10. CASE up.op = "text" /\ Verdict = "allow" /\ At(IF cfg.rewrite /\ HasMarker THEN "rewrite" ELSE "send")
      <4>1. CASE cfg.rewrite /\ HasMarker
        <5>1. At("rewrite")
          BY <3>10, <4>1
        <5> QED
          BY <3>5, <3>6, <3>10, <4>1, <5>1
      <4>2. CASE ~(cfg.rewrite /\ HasMarker)
        <5>1. At("send")
          BY <3>10, <4>2
        <5> QED
          BY <3>5, <3>6, <3>10, <5>1
      <4> QED
        BY <4>1, <4>2
    <3> QED
      BY <2>2, <3>7, <3>8, <3>9, <3>10 DEF Decide
  <2>3. CASE Refuse
    <3>1. up'.pc \in {"refusing", "done"}
      BY <1>v, <2>3 DEF Refuse, At
    <3> QED
      BY <1>e, <3>1
  <2>4. ASSUME NEW g, Rewrite(g) PROVE Followed'
    <3>1. CASE Drop("refuse") \/ Drop("done")
      BY <1>d, <3>1
    <3>2. CASE cfg.bound /\ up' = [up EXCEPT !.pc = "send", !.payload = Substituted] /\ Keep
      <4>1. /\ up.pc = "rewrite" /\ InHand /\ up.payload = Judged /\ up.payload \in Seq(Plain)
            /\ cfg.rewrite /\ up.op = "text" /\ ~ControlMessage /\ Permitted
        BY <2>4 DEF Rewrite, InHand, Followed, Shape
      <4>2. /\ up'.op = up.op /\ up'.whole = up.whole /\ up'.pc = "send" /\ up'.trail = up.trail
            /\ up'.payload = Substituted /\ UNCHANGED <<cfg, since>>
        BY <1>v, <2>4, <3>2 DEF Rewrite, Keep, upRest
      <4>3. Judged' = Judged /\ ControlMessage' = ControlMessage /\ Permitted' = Permitted
        BY <4>2 DEF Judged, ControlMessage, Permitted
      <4>4. Rewritten(Judged, Substituted)
        BY <4>1, SubstitutedType
      <4>5. Rewritten(Judged, up.payload)'
        BY <4>2, <4>3, <4>4 DEF Rewritten
      <4>6. \A j \in 1..Len(up.trail) :
               up.trail[j].shown = IF j = 1 THEN up.whole ELSE up.trail[j - 1].left
        BY <4>1 DEF Followed
      <4> QED
        BY <3>2, <4>1, <4>2, <4>3, <4>5, <4>6 DEF Followed, Sending, InHand
    <3> QED
      BY <2>4, <3>1, <3>2 DEF Rewrite
  <2>5. ASSUME NEW p \in {up.payload} \cup Replacements, MessageAllowed(p) PROVE Followed'
    <3> DEFINE r == [k |-> up.k, shown |-> up.payload, left |-> p]
               n == Len(up.trail)
    <3>1. up.pc = "await" /\ InHand /\ up.payload = Judged
      BY <2>5 DEF MessageAllowed, InHand, Followed
    <3>2. \A j \in 1..n : up.trail[j].shown = IF j = 1 THEN up.whole ELSE up.trail[j - 1].left
      BY <3>1 DEF Followed
    <3>3. /\ up'.pc = "inspect" /\ up'.whole = up.whole /\ up'.payload = p
          /\ up'.trail = Append(up.trail, r)
      BY <1>v, <2>5 DEF MessageAllowed
    <3>4. n \in Nat /\ Len(up'.trail) = n + 1 /\ up'.trail[n + 1] = r /\ \A j \in 1..n : up'.trail[j] = up.trail[j]
      BY <1>t, <3>3
    <3>5. r.shown = up.payload /\ r.left = p
      OBVIOUS
    <3>6. up.payload = IF n = 0 THEN up.whole ELSE up.trail[n].left
      BY <1>t, <3>1 DEF Judged
    <3> HIDE DEF r, n
    <3>7. Judged' = p
      <4>1. up'.trail # << >>
        BY <3>4
      <4> QED
        BY <3>4, <3>5, <4>1 DEF Judged
    <3>8. ASSUME NEW j \in 1..(n + 1)
          PROVE  up'.trail[j].shown = IF j = 1 THEN up.whole ELSE up'.trail[j - 1].left
      <4>1. CASE j \in 1..n
        <5>1. j # 1 => j - 1 \in 1..n
          BY <3>4, <4>1
        <5> QED
          BY <3>2, <3>4, <4>1, <5>1
      <4>2. CASE j = n + 1
        <5>1. j - 1 = n /\ (j = 1 <=> n = 0) /\ (n # 0 => n \in 1..n)
          BY <3>4, <4>2
        <5> QED
          BY <3>4, <3>5, <3>6, <4>2, <5>1
      <4> QED
        BY <3>4, <4>1, <4>2
    <3>9. ~Sending(MessageOps)' /\ ~Sending({"text"})'
      BY <3>3 DEF Sending
    <3> QED
      BY <3>3, <3>4, <3>7, <3>8, <3>9 DEF Followed
  <2>6. CASE MessageDenied
    BY <1>d, <2>6 DEF MessageDenied
  <2>7. CASE MessageFailed
    <3>1. CASE stages[up.k]
      BY <1>d, <2>7, <3>1 DEF MessageFailed
    <3>2. CASE ~stages[up.k]
      BY <1>i, <1>v, <2>7, <3>2 DEF MessageFailed
    <3> QED
      BY <3>1, <3>2
  <2>8. CASE UpReadFail \/ UpWriteFail
    BY <1>d, <2>8 DEF UpReadFail, UpWriteFail
  <2>9. CASE UpWrite
    <3>1. up'.pc \in {"read", "done"}
      BY <2>9 DEF UpWrite, Drop, Idle
    <3> QED
      BY <1>e, <3>1
  <2>10. ASSUME NEW f \in Frames, UpRead(f) PROVE Followed'
    <3> DEFINE a == Accept(f)
    <3>1. CASE a.error
      BY <1>d, <2>10, <3>1 DEF UpRead
    <3>2. CASE ~a.error
      <4>1. /\ up' = IF a.ready
                     THEN [pc |-> IF a.op \in MessageOps THEN "inspect" ELSE "send", k |-> 1,
                           op |-> a.op, whole |-> a.data, payload |-> a.data, trail |-> << >>]
                     ELSE up
            /\ up.pc = "read"
        BY <2>10, <3>2 DEF UpRead
      <4>2. a.data \in Seq(Plain)
        BY <3>2, AcceptType
      <4> HIDE DEF a
      <4>3. CASE a.ready
        <5>1. /\ up'.pc = IF a.op \in MessageOps THEN "inspect" ELSE "send"
              /\ up'.op = a.op /\ up'.whole = a.data /\ up'.payload = a.data /\ up'.trail = << >>
          BY <4>1, <4>3
        <5>2. Judged' = up'.payload /\ ~Sending(MessageOps)' /\ ~Sending({"text"})' /\ up'.pc \in {"inspect", "send"}
          BY <5>1 DEF Judged, Sending, MessageOps
        <5>3. Len(up'.trail) = 0 /\ \A j \in 1..0 : FALSE
          BY <5>1
        <5> QED
          BY <4>2, <5>1, <5>2, <5>3 DEF Followed
      <4>4. CASE ~a.ready
        BY <1>e, <4>1, <4>4
      <4> QED
        BY <4>3, <4>4
    <3> QED
      BY <3>1, <3>2
  <2> QED
    BY <1>2, <2>1, <2>2, <2>3, <2>4, <2>5, <2>6, <2>7, <2>8, <2>9, <2>10
       DEF Up, UpLocal, StageAnswers
<1>3. CASE Down
  BY <1>3, <1>a, DownFrame
<1>4. CASE \E d \in Docs : Apply(d)
  BY <1>4, <1>a DEF Apply
<1>5. CASE UNCHANGED vars
  BY <1>5, <1>a DEF vars
<1> QED
  BY <1>1, <1>2, <1>3, <1>4, <1>5 DEF Next

-----------------------------------------------------------------------------
(* Which stages have seen the message *)

(* No message is behind any stage at the start. *)
LEMMA CoveredInit == Init => Covered
BY DEF Init, Covered, InHand, Sending, Idle

(* Every step keeps the stages behind the message on its trail, or failed open. *)
LEMMA CoveredStep == Shape /\ Sessions /\ Covered /\ [Next]_vars => Covered'
<1> SUFFICES ASSUME Shape, Sessions, Covered, [Next]_vars PROVE Covered'
  OBVIOUS
<1>n. N \in Nat
  BY DEF Shape, N
<1>v. /\ up \in UpRecords /\ up.k \in 1..(N + 1)
      /\ up = [pc |-> up.pc, k |-> up.k, op |-> up.op, whole |-> up.whole, payload |-> up.payload,
               trail |-> up.trail]
      /\ up.trail \in Seq([k: 1..N, shown: Seq(Plain), left: Seq(Plain)])
      /\ sess \in [1..N -> SessionStates]
  BY DEF Shape, UpRecords
<1>a. ASSUME UNCHANGED <<stages, up>>, main'.pc = "relay" => main.pc = "relay" /\ sess' = sess
      PROVE  Covered'
  BY <1>a DEF Covered, InHand, Sending, N
<1>e. ASSUME up'.pc \in {"idle", "read", "refuse", "refusing", "done"} PROVE Covered'
  BY <1>e DEF Covered, InHand, Sending
<1>d. ASSUME NEW pc \in {"read", "refuse", "done"}, Drop(pc) PROVE Covered'
  BY <1>e, <1>d DEF Drop, Idle
(* The message has passed the stage up.k. *)
<1>i. ASSUME up.pc \in {"inspect", "await"}, up'.pc = "inspect", up'.k = up.k + 1,
             UNCHANGED <<stages, main>>,
             \A j \in 1..Len(up.trail) : j \in 1..Len(up'.trail) /\ up'.trail[j] = up.trail[j],
             \A k \in 1..N : k # up.k => sess'[k] = sess[k],
             main.pc = "relay" /\ up.k \in 1..N /\ stages[up.k] =>
                sess'[up.k] = "skipped" \/ \E j \in 1..Len(up'.trail) : up'.trail[j].k = up.k
      PROVE  Covered'
  <2>1. InHand /\ ~Sending(MessageOps)' /\ N' = N
    BY <1>i DEF InHand, Sending, N
  <2>2. ASSUME NEW k \in 1..N, main.pc = "relay", k < up.k + 1, stages[k], sess'[k] # "skipped"
        PROVE  \E j \in 1..Len(up'.trail) : up'.trail[j].k = k
    <3>1. CASE k = up.k
      BY <1>i, <2>2, <3>1
    <3>2. CASE k # up.k
      <4>1. k < up.k
        BY <1>n, <1>v, <2>2, <3>2
      <4>2. PICK j \in 1..Len(up.trail) : up.trail[j].k = k
        BY <1>i, <2>1, <2>2, <3>2, <4>1 DEF Covered
      <4> QED
        BY <1>i, <4>2
    <3> QED
      BY <3>1, <3>2
  <2> QED
    BY <1>i, <2>1, <2>2 DEF Covered
<1>1. CASE Main
  <2>1. CASE StartRelay
    <3>1. up'.pc = "read"
      BY <1>v, <2>1 DEF StartRelay
    <3> QED
      BY <1>e, <3>1
  <2>2. CASE ~StartRelay
    <3>0. main = [pc |-> main.pc, k |-> main.k, via |-> main.via]
      BY DEF Shape, MainRecords
    <3>1. UNCHANGED <<stages, up>>
      BY <1>1, <2>2 DEF Main, OpenSession, Upgrade, StartSession, Wake, CloseSession,
            CloseSockets, relayVars
    <3>2. main'.pc # "relay"
      <4>1. ASSUME NEW a, OpenSession(a) PROVE main'.pc # "relay"
        BY <3>0, <4>1 DEF OpenSession, Leave, NextStage
      <4>2. ASSUME NEW a, Upgrade(a) PROVE main'.pc # "relay"
        BY <3>0, <4>2 DEF Upgrade, Leave
      <4>3. ASSUME NEW ok, StartSession(ok) PROVE main'.pc # "relay"
        BY <3>0, <4>3 DEF StartSession, Leave, NextStage
      <4>4. CASE Wake
        BY <3>0, <4>4 DEF Wake
      <4>5. CASE CloseSession
        BY <3>0, <4>5 DEF CloseSession, Leave, NextStage
      <4>6. CASE CloseSockets
        BY <3>0, <4>6 DEF CloseSockets
      <4> QED
        BY <1>1, <2>2, <4>1, <4>2, <4>3, <4>4, <4>5, <4>6 DEF Main
    <3> QED
      BY <1>a, <3>1, <3>2
  <2> QED
    BY <2>1, <2>2
<1>2. CASE Up
  <2>u. UNCHANGED <<stages, main>> /\ N' = N
    BY <1>2, UpFrame DEF N
  <2>1. CASE Inspect
    <3>1. CASE sess[up.k] = "inspecting"
      <4>1. up'.pc = "await" /\ up'.k = up.k /\ up'.trail = up.trail /\ sess' = sess /\ InHand
        BY <1>v, <2>1, <3>1 DEF Inspect, InHand
      <4> QED
        BY <2>u, <4>1 DEF Covered, Sending
    <3>2. CASE sess[up.k] # "inspecting"
      <4>1. up'.pc = "inspect" /\ up'.k = up.k + 1 /\ up'.trail = up.trail /\ sess' = sess /\ up.pc = "inspect"
        BY <1>v, <2>1, <3>2 DEF Inspect
      <4>2. main.pc = "relay" /\ up.k \in 1..N /\ stages[up.k] => sess[up.k] = "skipped"
        BY <3>2 DEF Sessions
      <4> QED
        BY <1>i, <2>u, <4>1, <4>2
    <3> QED
      BY <3>1, <3>2
  <2>2. CASE Decide
    <3>1. up.k = N + 1 /\ InHand
      BY <1>n, <1>v, <2>2 DEF Decide, InHand
    <3>2. ASSUME NEW pc \in {"send", "rewrite"}, At(pc) PROVE Covered'
      <4>1. up'.pc = pc /\ up'.k = up.k /\ up'.trail = up.trail /\ sess' = sess
        BY <1>v, <2>2, <3>2 DEF Decide, At
      <4> QED
        BY <2>u, <3>1, <4>1 DEF Covered, InHand, Sending
    <3> QED
      BY <1>d, <2>2, <3>2 DEF Decide
  <2>3. CASE Refuse
    <3>1. up'.pc \in {"refusing", "done"}
      BY <1>v, <2>3 DEF Refuse, At
    <3> QED
      BY <1>e, <3>1
  <2>4. ASSUME NEW g, Rewrite(g) PROVE Covered'
    <3>1. CASE Drop("refuse") \/ Drop("done")
      BY <1>d, <3>1
    <3>2. CASE up' = [up EXCEPT !.pc = "send", !.payload = Substituted]
      <4>1. up'.pc = "send" /\ up'.k = up.k /\ up'.trail = up.trail /\ sess' = sess
        BY <1>v, <2>4, <3>2 DEF Rewrite
      <4>2. up.k = N + 1 /\ InHand
        BY <2>4 DEF Rewrite, Covered, InHand
      <4> QED
        BY <2>u, <4>1, <4>2 DEF Covered, InHand, Sending
    <3> QED
      BY <2>4, <3>1, <3>2 DEF Rewrite
  <2>5. ASSUME NEW p, MessageAllowed(p) PROVE Covered'
    <3> DEFINE r == [k |-> up.k, shown |-> up.payload, left |-> p]
               n == Len(up.trail)
    <3>1. /\ up.pc = "await" /\ up'.pc = "inspect" /\ up'.k = up.k + 1 /\ sess' = sess
          /\ up'.trail = Append(up.trail, r)
      BY <1>v, <2>5 DEF MessageAllowed
    <3>2. n \in Nat /\ Len(up'.trail) = n + 1 /\ up'.trail[n + 1] = r /\ \A j \in 1..n : up'.trail[j] = up.trail[j]
      BY <1>v, <3>1
    <3>3. r.k = up.k
      OBVIOUS
    <3> HIDE DEF r, n
    <3>4. n + 1 \in 1..(n + 1) /\ \A j \in 1..n : j \in 1..(n + 1)
      BY <3>2
    <3>5. \E j \in 1..Len(up'.trail) : up'.trail[j].k = up.k
      BY <3>2, <3>3, <3>4
    <3>6. \A j \in 1..Len(up.trail) : j \in 1..Len(up'.trail) /\ up'.trail[j] = up.trail[j]
      BY <3>2, <3>4 DEF n
    <3> QED
      BY <1>i, <2>u, <3>1, <3>5, <3>6
  <2>6. CASE MessageDenied
    BY <1>d, <2>6 DEF MessageDenied
  <2>7. CASE MessageFailed
    <3>1. CASE stages[up.k]
      BY <1>d, <2>7, <3>1 DEF MessageFailed
    <3>2. CASE ~stages[up.k]
      <4>1. /\ up.pc = "await" /\ up'.pc = "inspect" /\ up'.k = up.k + 1 /\ up'.trail = up.trail
            /\ sess' = Close({up.k})
        BY <1>v, <2>7, <3>2 DEF MessageFailed
      <4>2. \A k \in 1..N : k # up.k => sess'[k] = sess[k]
        BY <1>v, <4>1 DEF Close
      <4> QED
        BY <1>i, <2>u, <3>2, <4>1, <4>2
    <3> QED
      BY <3>1, <3>2
  <2>8. CASE UpReadFail \/ UpWriteFail
    BY <1>d, <2>8 DEF UpReadFail, UpWriteFail
  <2>9. CASE UpWrite
    <3>1. up'.pc \in {"read", "done"}
      BY <2>9 DEF UpWrite, Drop, Idle
    <3> QED
      BY <1>e, <3>1
  <2>10. ASSUME NEW f \in Frames, UpRead(f) PROVE Covered'
    <3> DEFINE a == Accept(f)
    <3>1. CASE a.error
      BY <1>d, <2>10, <3>1 DEF UpRead
    <3>2. CASE ~a.error
      <4>1. /\ up' = IF a.ready
                     THEN [pc |-> IF a.op \in MessageOps THEN "inspect" ELSE "send", k |-> 1,
                           op |-> a.op, whole |-> a.data, payload |-> a.data, trail |-> << >>]
                     ELSE up
            /\ up.pc = "read"
        BY <2>10, <3>2 DEF UpRead
      <4> HIDE DEF a
      <4>2. CASE a.ready
        <5>1. up'.k = 1 /\ up'.pc \in {"inspect", "send"} /\ (up'.pc = "send" => up'.op \notin MessageOps)
          BY <4>1, <4>2
        <5>2. \A k \in 1..N : ~(k < 1)
          BY <1>n
        <5> QED
          BY <2>u, <5>1, <5>2 DEF Covered, Sending
      <4>3. CASE ~a.ready
        BY <1>e, <4>1, <4>3
      <4> QED
        BY <4>2, <4>3
    <3> QED
      BY <3>1, <3>2
  <2> QED
    BY <1>2, <2>1, <2>2, <2>3, <2>4, <2>5, <2>6, <2>7, <2>8, <2>9, <2>10
       DEF Up, UpLocal, StageAnswers
<1>3. CASE Down
  BY <1>3, <1>a, DownFrame
<1>4. CASE \E d \in Docs : Apply(d)
  BY <1>4, <1>a DEF Apply
<1>5. CASE UNCHANGED vars
  BY <1>5, <1>a DEF vars
<1> QED
  BY <1>1, <1>2, <1>3, <1>4, <1>5 DEF Next

-----------------------------------------------------------------------------
(* What the client was sent *)

(* Nothing is on the wire at the start. *)
LEMMA WholeInit == Init => Whole
BY DEF Init, Whole

(* Every step keeps headers and payloads paired until a refusal. *)
LEMMA WholeStep == Shape /\ Sessions /\ Whole /\ [Next]_vars => Whole'
<1> SUFFICES ASSUME Shape, Sessions, Whole, [Next]_vars PROVE Whole'
  OBVIOUS
<1> DEFINE n == Len(wire)
<1>n. n \in Nat /\ wire \in Seq({"up", "down"} \X {"header", "payload"})
  BY DEF Whole
<1>a. ASSUME wire' = wire, down'.pc \in {down.pc, "done"} \/ (down.pc = "idle" /\ down'.pc = "read")
                             \/ (down.pc = "read" /\ down'.pc = "header")
      PROVE  Whole'
  BY <1>a DEF Whole
(* One more part on the wire. *)
<1>p. ASSUME NEW who \in {"up", "down"}, NEW part \in {"header", "payload"}, wire' = Append(wire, <<who, part>>)
      PROVE  /\ wire' \in Seq({"up", "down"} \X {"header", "payload"})
             /\ Len(wire') = n + 1 /\ wire'[n + 1] = <<who, part>>
             /\ \A j \in 1..n : wire'[j] = wire[j] /\ (Clean(wire', j) <=> Clean(wire, j))
             /\ Clean(wire', n + 1) <=> who = "down" /\ Clean(wire, n)
             /\ \A j \in 1..(n + 1) : j \in 1..n \/ j = n + 1
  <2>1. /\ wire' \in Seq({"up", "down"} \X {"header", "payload"})
        /\ Len(wire') = n + 1 /\ wire'[n + 1] = <<who, part>>
        /\ \A j \in 1..n : wire'[j] = wire[j]
    BY <1>n, <1>p
  <2>2. \A j \in 1..(n + 1) : j \in 1..n \/ j = n + 1
    BY <1>n
  <2>3. \A j \in 1..n : \A i \in 1..j : i \in 1..n
    BY <1>n
  <2>4. n + 1 \in 1..(n + 1) /\ \A j \in 1..n : j \in 1..(n + 1)
    BY <1>n
  <2> HIDE DEF n
  <2>5. \A j \in 1..n : Clean(wire', j) <=> Clean(wire, j)
    BY <2>1, <2>3 DEF Clean
  <2>6. Clean(wire', n + 1) <=> who = "down" /\ Clean(wire, n)
    BY <2>1, <2>2, <2>4 DEF Clean
  <2> QED
    BY <2>1, <2>2, <2>5, <2>6
<1>1. CASE Main
  <2>1. CASE StartRelay
    <3>1. wire' = wire /\ down.pc = "idle" /\ down'.pc = "read"
      BY <2>1 DEF StartRelay, Sessions, Shape
    <3> QED
      BY <1>a, <3>1
  <2>2. CASE ~StartRelay
    <3>1. wire' = wire /\ down' = down
      BY <1>1, <2>2 DEF Main, OpenSession, Upgrade, StartSession, Wake, CloseSession,
            CloseSockets, relayVars
    <3> QED
      BY <1>a, <3>1
  <2> QED
    BY <2>1, <2>2
<1>2. CASE Up
  <2>1. down' = down
    BY <1>2, UpFrame
  <2>2. CASE Refuse
    <3>1. CASE wire' = wire
      BY <1>a, <2>1, <3>1
    <3>2. ASSUME NEW part \in {"header", "payload"}, wire' = Append(wire, <<"up", part>>)
          PROVE  Whole'
      <4>1. /\ wire' \in Seq({"up", "down"} \X {"header", "payload"})
            /\ Len(wire') = n + 1 /\ wire'[n + 1] = <<"up", part>>
            /\ \A j \in 1..n : wire'[j] = wire[j] /\ (Clean(wire', j) <=> Clean(wire, j))
            /\ ~Clean(wire', n + 1)
            /\ \A j \in 1..(n + 1) : j \in 1..n \/ j = n + 1
        BY <1>p, <3>2
      <4> HIDE DEF n
      <4>2. ~Clean(wire', Len(wire'))
        BY <4>1
      <4>3. \A j \in 1..Len(wire') : Clean(wire', j) /\ wire'[j][2] = "payload" => j > 1 /\ wire'[j - 1][2] = "header"
        <5> SUFFICES ASSUME NEW j \in 1..(n + 1), Clean(wire', j), wire'[j][2] = "payload"
                     PROVE  j > 1 /\ wire'[j - 1][2] = "header"
          BY <4>1
        <5>1. j \in 1..n /\ Clean(wire, j) /\ wire[j][2] = "payload"
          BY <4>1
        <5>2. j > 1 /\ wire[j - 1][2] = "header"
          BY <5>1 DEF Whole, n
        <5>3. j - 1 \in 1..n
          BY <1>n, <5>1, <5>2
        <5> QED
          BY <4>1, <5>2, <5>3
      <4>4. \A j \in 1..Len(wire') : j < Len(wire') /\ Clean(wire', j + 1) /\ wire'[j][2] = "header" =>
                wire'[j + 1][2] = "payload"
        <5> SUFFICES ASSUME NEW j \in 1..(n + 1), j < n + 1, Clean(wire', j + 1), wire'[j][2] = "header"
                     PROVE  wire'[j + 1][2] = "payload"
          BY <4>1
        <5>1. j \in 1..n /\ j < n
          <6>1. j # n
            BY <4>1
          <6> QED
            BY <1>n, <6>1
        <5>2. j + 1 \in 1..n
          BY <1>n, <5>1
        <5>3. wire[j + 1][2] = "payload"
          BY <4>1, <5>1, <5>2 DEF Whole, n
        <5> QED
          BY <4>1, <5>2, <5>3
      <4> QED
        BY <4>1, <4>2, <4>3, <4>4 DEF Whole
    <3> QED
      BY <2>2, <3>1, <3>2 DEF Refuse, Put
  <2>3. CASE ~Refuse
    <3>1. wire' = wire
      BY <1>2, <2>3 DEF Up, UpLocal, StageAnswers, Inspect, Decide, Rewrite, MessageAllowed,
            MessageDenied, MessageFailed, UpReadFail, UpWrite, UpWriteFail, UpRead
    <3> QED
      BY <1>a, <2>1, <3>1
  <2> QED
    BY <2>2, <2>3
<1>3. CASE Down
  <2>1. CASE DownReadFail \/ DownWriteFail
    BY <1>a, <2>1 DEF DownReadFail, DownWriteFail, DownIdle
  <2>2. ASSUME NEW op \in {"text", "close"}, DownRead(op) PROVE Whole'
    BY <1>a, <2>2 DEF DownRead
  <2>3. CASE DownWrite
    <3>1. wire' = Append(wire, <<"down", down.pc>>) /\ down.pc \in {"header", "payload"}
      BY <2>3 DEF DownWrite, Put
    <3>2. /\ down.pc = "header" => down'.pc = "payload"
          /\ down.pc = "payload" => down'.pc \in {"done", "read"}
      BY <2>3 DEF DownWrite, DownIdle, Shape
    <3>3. /\ wire' \in Seq({"up", "down"} \X {"header", "payload"})
          /\ Len(wire') = n + 1 /\ wire'[n + 1] = <<"down", down.pc>>
          /\ \A j \in 1..n : wire'[j] = wire[j] /\ (Clean(wire', j) <=> Clean(wire, j))
          /\ Clean(wire', n + 1) <=> Clean(wire, n)
          /\ \A j \in 1..(n + 1) : j \in 1..n \/ j = n + 1
      BY <1>p, <3>1
    <3>4. /\ Clean(wire, n) /\ down.pc = "payload" => n # 0 /\ wire[n][2] = "header"
          /\ Clean(wire, n) /\ down.pc = "header" => n = 0 \/ wire[n][2] = "payload"
      BY DEF Whole
    <3> HIDE DEF n
    <3>5. \A j \in 1..Len(wire') : Clean(wire', j) /\ wire'[j][2] = "payload" => j > 1 /\ wire'[j - 1][2] = "header"
      <4> SUFFICES ASSUME NEW j \in 1..(n + 1), Clean(wire', j), wire'[j][2] = "payload"
                   PROVE  j > 1 /\ wire'[j - 1][2] = "header"
        BY <3>3
      <4>1. CASE j \in 1..n
        <5>1. j > 1 /\ wire[j - 1][2] = "header"
          BY <3>3, <4>1 DEF Whole, n
        <5>2. j - 1 \in 1..n
          BY <1>n, <4>1, <5>1
        <5> QED
          BY <3>3, <5>1, <5>2
      <4>2. CASE j = n + 1
        <5>1. down.pc = "payload" /\ Clean(wire, n)
          BY <3>1, <3>3, <4>2
        <5>2. n # 0 /\ wire[n][2] = "header"
          BY <3>4, <5>1
        <5>3. j > 1 /\ j - 1 = n /\ n \in 1..n
          BY <1>n, <4>2, <5>2
        <5> QED
          BY <3>3, <5>2, <5>3
      <4> QED
        BY <3>3, <4>1, <4>2
    <3>6. \A j \in 1..Len(wire') : j < Len(wire') /\ Clean(wire', j + 1) /\ wire'[j][2] = "header" =>
              wire'[j + 1][2] = "payload"
      <4> SUFFICES ASSUME NEW j \in 1..(n + 1), j < n + 1, Clean(wire', j + 1), wire'[j][2] = "header"
                   PROVE  wire'[j + 1][2] = "payload"
        BY <3>3
      <4>0. j \in 1..n
        BY <1>n
      <4>1. CASE j < n
        <5>1. j + 1 \in 1..n
          BY <1>n, <4>0, <4>1
        <5>2. wire[j + 1][2] = "payload"
          BY <3>3, <4>0, <4>1, <5>1 DEF Whole, n
        <5> QED
          BY <3>3, <5>1, <5>2
      <4>2. CASE j = n
        <5>1. wire[n][2] = "header" /\ Clean(wire, n) /\ n # 0
          BY <1>n, <3>3, <4>0, <4>2
        <5>2. down.pc = "payload"
          BY <3>1, <3>4, <5>1
        <5> QED
          BY <3>3, <4>2, <5>2
      <4> QED
        BY <1>n, <4>0, <4>1, <4>2
    <3>7. wire' # << >> /\ wire'[Len(wire')][2] = down.pc
      BY <1>n, <3>3
    <3> QED
      BY <3>1, <3>2, <3>3, <3>5, <3>6, <3>7 DEF Whole
  <2> QED
    BY <1>3, <2>1, <2>2, <2>3 DEF Down
<1>4. CASE \E d \in Docs : Apply(d)
  BY <1>4, <1>a DEF Apply
<1>5. CASE UNCHANGED vars
  BY <1>5, <1>a DEF vars
<1> QED
  BY <1>1, <1>2, <1>3, <1>4, <1>5 DEF Next

(* No part is on the wire at the start. *)
LEMMA HeadedInit == Init => Headed
BY DEF Init, Headed, Idle

(* Every step keeps a header first on the wire. *)
LEMMA HeadedStep == Shape /\ Sessions /\ Headed /\ [Next]_vars => Headed'
<1> SUFFICES ASSUME Shape, Sessions, Headed, [Next]_vars PROVE Headed'
  OBVIOUS
<1>v. up = [pc |-> up.pc, k |-> up.k, op |-> up.op, whole |-> up.whole, payload |-> up.payload,
            trail |-> up.trail]
  BY DEF Shape, UpRecords
<1>a. ASSUME wire' = wire, sock' \subseteq sock, down'.pc = "payload" => down.pc = "payload",
             up'.pc = "refusing" => up.pc = "refusing"
      PROVE  Headed'
  BY <1>a DEF Headed
<1>p. ASSUME NEW who \in {"up", "down"}, NEW part \in {"header", "payload"},
             wire' = Append(wire, <<who, part>>), part = "payload" => wire # << >>
      PROVE  Headed'
  <2>1. wire' \in Seq({"up", "down"} \X {"header", "payload"}) /\ wire' # << >>
    BY <1>p DEF Headed
  <2>2. wire'[1][2] = "header"
    <3>1. CASE wire = << >>
      BY <1>p, <3>1
    <3>2. CASE wire # << >>
      <4>1. wire'[1] = wire[1]
        BY <1>p, <3>2 DEF Headed
      <4> QED
        BY <3>2, <4>1 DEF Headed
    <3> QED
      BY <3>1, <3>2
  <2> QED
    BY <2>1, <2>2 DEF Headed
<1>1. CASE Main
  <2>1. CASE StartRelay
    BY <1>v, <1>a, <2>1 DEF StartRelay, Shape
  <2>2. CASE ~StartRelay
    <3>1. wire' = wire /\ down' = down /\ up' = up /\ sock' \subseteq sock
      BY <1>1, <2>2 DEF Main, OpenSession, Upgrade, StartSession, Wake, CloseSession,
            CloseSockets, relayVars
    <3> QED
      BY <1>a, <3>1
  <2> QED
    BY <2>1, <2>2
<1>2. CASE Up
  <2>1. down' = down
    BY <1>2, UpFrame
  <2>2. CASE Refuse
    <3>1. /\ sock' = sock /\ up.pc \in {"refuse", "refusing"}
          /\ up'.pc = IF up.pc = "refuse" THEN "refusing" ELSE "done"
      BY <1>v, <2>2 DEF Refuse, At, upRest
    <3>2. wire' = IF "client" \in sock
                  THEN Append(wire, <<"up", IF up.pc = "refuse" THEN "header" ELSE "payload">>) ELSE wire
      BY <2>2 DEF Refuse, Put
    <3>3. CASE "client" \notin sock
      BY <2>1, <3>1, <3>2, <3>3 DEF Headed
    <3>4. CASE "client" \in sock
      <4>1. CASE up.pc = "refuse"
        BY <1>p, <3>2, <3>4, <4>1
      <4>2. CASE up.pc = "refusing"
        <5>1. wire' = Append(wire, <<"up", "payload">>) /\ wire # << >>
          BY <3>2, <3>4, <4>2 DEF Headed
        <5> QED
          BY <1>p, <5>1
      <4> QED
        BY <3>1, <4>1, <4>2
    <3> QED
      BY <3>3, <3>4
  <2>3. CASE ~Refuse
    <3>1. wire' = wire /\ sock' = sock
      BY <1>2, <2>3 DEF Up, UpLocal, StageAnswers, Inspect, Decide, Rewrite, MessageAllowed,
         MessageDenied, MessageFailed, UpReadFail, UpWrite, UpWriteFail, UpRead, upRest
    <3>2. up'.pc # "refusing"
      <4>1. ASSUME NEW pc \in {"read", "refuse", "done"}, Drop(pc) PROVE up'.pc # "refusing"
        BY <4>1 DEF Drop, Idle
      <4>2. CASE Inspect
        BY <1>v, <4>2 DEF Inspect
      <4>3. CASE Decide
        BY <1>v, <4>1, <4>3 DEF Decide, At
      <4>4. ASSUME NEW g, Rewrite(g) PROVE up'.pc # "refusing"
        BY <1>v, <4>1, <4>4 DEF Rewrite
      <4>5. ASSUME NEW p, MessageAllowed(p) PROVE up'.pc # "refusing"
        BY <1>v, <4>5 DEF MessageAllowed
      <4>6. CASE MessageDenied \/ UpReadFail \/ UpWriteFail
        BY <4>1, <4>6 DEF MessageDenied, UpReadFail, UpWriteFail
      <4>7. CASE MessageFailed
        BY <1>v, <4>1, <4>7 DEF MessageFailed
      <4>8. CASE UpWrite
        BY <4>1, <4>8 DEF UpWrite, Idle
      <4>9. ASSUME NEW f \in Frames, UpRead(f) PROVE up'.pc # "refusing"
        <5>1. CASE Accept(f).error
          BY <4>1, <4>9, <5>1 DEF UpRead
        <5>2. CASE ~Accept(f).error
          BY <1>v, <4>9, <5>2 DEF UpRead
        <5> QED
          BY <5>1, <5>2
      <4> QED
        BY <1>2, <2>3, <4>2, <4>3, <4>4, <4>5, <4>6, <4>7, <4>8, <4>9 DEF Up, UpLocal, StageAnswers
    <3> QED
      BY <1>a, <2>1, <3>1, <3>2
  <2> QED
    BY <2>2, <2>3
<1>3. CASE Down
  <2>1. up' = up /\ sock' = sock
    BY <1>3, DownFrame
  <2>2. CASE DownReadFail \/ DownWriteFail \/ \E op \in {"text", "close"} : DownRead(op)
    BY <1>a, <2>1, <2>2 DEF DownReadFail, DownWriteFail, DownRead, DownIdle
  <2>3. CASE DownWrite
    <3>1. wire' = Append(wire, <<"down", down.pc>>) /\ down.pc \in {"header", "payload"}
      BY <2>3 DEF DownWrite, Put
    <3> QED
      BY <1>p, <3>1 DEF Headed
  <2> QED
    BY <1>3, <2>2, <2>3 DEF Down
<1>4. CASE \E d \in Docs : Apply(d)
  BY <1>4, <1>a DEF Apply
<1>5. CASE UNCHANGED vars
  BY <1>5, <1>a DEF vars
<1> QED
  BY <1>1, <1>2, <1>3, <1>4, <1>5 DEF Next

-----------------------------------------------------------------------------
(* The theorems *)

(* The trail of a message holds payloads of the client. *)
LEMMA TrailType ==
  ASSUME Shape
  PROVE  \A j \in DOMAIN up.trail : up.trail[j].shown \in Seq(Plain) /\ up.trail[j].left \in Seq(Plain)
<1> DEFINE T == [k: 1..N, shown: Seq(Plain), left: Seq(Plain)]
           t == up.trail
<1>1. t \in Seq(T)
  BY DEF Shape, UpRecords
<1>2. \A r \in T : r.shown \in Seq(Plain) /\ r.left \in Seq(Plain)
  OBVIOUS
<1> HIDE DEF T, t
<1>3. \A j \in DOMAIN t : t[j] \in T
  BY <1>1
<1> QED
  BY <1>2, <1>3 DEF t

(* The inductive invariant holds in every behaviour. *)
LEMMA RelayInvariant == Spec => []RInv
<1>1. Init => RInv
  BY ShapeInit, SessionsInit, BufferedInit, FollowedInit, CoveredInit, WholeInit, HeadedInit
     DEF RInv
<1>2. RInv /\ [Next]_vars => RInv'
  BY ShapeStep, SessionsStep, BufferedStep, FollowedStep, CoveredStep, WholeStep, HeadedStep
     DEF RInv
<1> QED
  BY <1>1, <1>2, PTL DEF Spec

(* What the stages and the policy are handed is the client's whole         *)
(* message, however it was cut into frames and whatever control frames     *)
(* came in between; types included (wsFragmentBuffer.accept).              *)
THEOREM MessageAlwaysWhole == Spec => []Reassembled
<1>1. Shape /\ Sessions => TypeOK
  <2> SUFFICES ASSUME Shape, Sessions PROVE TypeOK
    OBVIOUS
  <2>1. (main.via = "relayed") = (up.pc # "idle") /\ (up.pc = "idle") = (down.pc = "idle")
    BY DEF Sessions
  <2> QED
    BY <2>1 DEF Shape, TypeOK, MainRecords, UpRecords, MainPcs, UpPcs, DownPcs, Vias, SessionStates
<1>2. Shape /\ Sessions /\ Buffered => Reassembled
  <2> SUFFICES ASSUME Shape, Sessions, Buffered, up.pc \in {"inspect", "await", "rewrite"}
               PROVE  /\ frames # << >> /\ frames[1].op = up.op
                      /\ \A j \in DOMAIN frames :
                            (j > 1) = (frames[j].op = "cont") /\ (j = Len(frames)) = frames[j].fin
                      /\ Joins(up.whole, frames)
                      /\ Len(up.whole) <= MaxMessage
    BY <1>1 DEF Reassembled
  <2>1. InHand
    BY DEF InHand
  <2>2. /\ frames \in Seq(DataFrames) /\ Begun(frames, up.op, up.whole) /\ Len(up.whole) <= MaxMessage
        /\ \A j \in 1..Len(frames) : j = Len(frames) <=> frames[j].fin
    BY <2>1 DEF Buffered
  <2>3. DOMAIN frames = 1..Len(frames) /\ \A j \in 1..Len(frames) : frames[j].fin \in BOOLEAN
    <3>1. \A j \in 1..Len(frames) : frames[j] \in DataFrames
      BY <2>2
    <3> QED
      BY <2>2, <3>1 DEF DataFrames
  <2>4. \A j \in 1..Len(frames) : (j = Len(frames)) = frames[j].fin
    BY <2>2, <2>3
  <2>5. \A j \in 1..Len(frames) : (j > 1) = (frames[j].op = "cont")
    BY <2>2 DEF Begun
  <2> QED
    BY <2>2, <2>3, <2>4, <2>5 DEF Begun
<1> QED
  BY <1>2, RelayInvariant, PTL DEF RInv

(* A message goes upstream, while the relay runs, only after every         *)
(* fail-closed stage has allowed what the stages before it left, and is    *)
(* what the last one left but for credentials (relayWebsocket,             *)
(* grpcWebSocketSession.Message).                                          *)
THEOREM AlwaysInspectedByAll == Spec => []InspectedByAll
<1>1. Shape /\ Followed /\ Covered => InspectedByAll
  <2> SUFFICES ASSUME Shape, Followed, Covered, Sending(MessageOps) PROVE InspectedByAll
    BY DEF InspectedByAll
  <2>1. InHand /\ Rewritten(Judged, up.payload) /\ up.k = N + 1
    BY DEF InHand, Followed, Covered
  <2>2. /\ up.trail \in Seq([k: 1..N, shown: Seq(Plain), left: Seq(Plain)]) /\ N \in Nat
        /\ up.whole \in Seq(Plain)
    BY DEF Shape, UpRecords, N
  <2>3. DOMAIN up.trail = 1..Len(up.trail)
    BY <2>2
  <2>4. Judged \in Seq(Plain)
    <3>1. CASE up.trail = << >>
      BY <2>2, <3>1 DEF Judged
    <3>2. CASE up.trail # << >>
      <4>1. Len(up.trail) \in DOMAIN up.trail
        BY <2>2, <3>2
      <4> QED
        BY <3>2, <4>1, TrailType DEF Judged
    <3> QED
      BY <3>1, <3>2
  <2>5. DOMAIN Judged = 1..Len(Judged)
    BY <2>4
  <2>6. \A k \in 1..N : k < N + 1
    BY <2>2
  <2>7. main.pc = "relay" => \A k \in 1..N : stages[k] /\ sess[k] # "skipped" =>
           \E j \in DOMAIN up.trail : up.trail[j].k = k
    BY <2>1, <2>3, <2>6 DEF Covered
  <2>8. \A j \in DOMAIN up.trail : up.trail[j].shown = IF j = 1 THEN up.whole ELSE up.trail[j - 1].left
    BY <2>1, <2>3 DEF Followed
  <2>9. /\ Len(Judged) = Len(up.payload)
        /\ \A j \in DOMAIN Judged : Judged[j] # up.payload[j] => Judged[j] = Marker /\ up.payload[j] = Secret
    BY <2>1, <2>5 DEF Rewritten
  <2> QED
    BY <2>7, <2>8, <2>9 DEF InspectedByAll
<1> QED
  BY <1>1, RelayInvariant, PTL DEF RInv

(* A text message that goes upstream has a form that some policy in force  *)
(* since it was read allows, or is a control message of GraphQL, however   *)
(* policies change while stages inspect it (relayWebsocket).               *)
THEOREM TextAlwaysPermitted == Spec => []TextPermitted
<1>1. Followed => TextPermitted
  BY DEF Followed, TextPermitted, Permitted
<1> QED
  BY <1>1, RelayInvariant, PTL DEF RInv

(* Credentials go only into judged text messages of endpoints that ask for *)
(* rewriting and to which their key is bound, and no stage is shown one    *)
(* (relayWebsocket, SecretsForEndpoint).                                   *)
THEOREM SecretsAlwaysBound == Spec => []SecretsBound
<1>1. Shape /\ Followed => SecretsBound
  <2> SUFFICES ASSUME Shape, Followed PROVE SecretsBound
    OBVIOUS
  <2>1. Secret \notin Plain
    BY RelayAssumption
  <2>2. ASSUME NEW p \in Seq(Plain) PROVE \A i \in DOMAIN p : p[i] # Secret
    BY <2>1
  <2>4. \A j \in DOMAIN up.trail : up.trail[j].shown \in Seq(Plain)
    BY TrailType
  <2>5. \A j \in DOMAIN up.trail : \A i \in DOMAIN up.trail[j].shown : up.trail[j].shown[i] # Secret
    BY <2>2, <2>4
  <2>6. up.pc = "send" /\ (\E j \in DOMAIN up.payload : up.payload[j] = Secret) =>
           cfg.rewrite /\ cfg.bound /\ up.op = "text" /\ ~ControlMessage
    BY <2>2 DEF Followed
  <2> QED
    BY <2>5, <2>6 DEF SecretsBound
<1> QED
  BY <1>1, RelayInvariant, PTL DEF RInv

(* The frames the client is sent are whole unless the other goroutine      *)
(* writes a refusal between two writes (writeWSFrame).                     *)
THEOREM AlwaysTornOnlyByRefusal == Spec => []TornOnlyByRefusal
<1>1. Whole /\ Headed => TornOnlyByRefusal
  <2> SUFFICES ASSUME Whole, Headed PROVE TornOnlyByRefusal
    OBVIOUS
  <2> DEFINE n == Len(wire)
  <2>1. /\ wire \in Seq({"up", "down"} \X {"header", "payload"}) /\ n \in Nat /\ DOMAIN wire = 1..n
        /\ \A j \in 1..n : wire[j] = <<wire[j][1], wire[j][2]>> /\ wire[j][1] \in {"up", "down"}
    BY DEF Whole
  <2>2. \A j \in 1..n : Clean(wire, j) \/ \E i \in 1..j : wire[i][1] = "up"
    <3> SUFFICES ASSUME NEW j \in 1..n PROVE Clean(wire, j) \/ \E i \in 1..j : wire[i][1] = "up"
      OBVIOUS
    <3>1. \A i \in 1..j : i \in 1..n
      BY <2>1
    <3> QED
      BY <2>1, <3>1 DEF Clean
  <2>3. ASSUME NEW j \in 1..n, wire[j][2] = "payload"
        PROVE  j > 1 /\ (wire[j - 1] = <<wire[j][1], "header">> \/ \E i \in 1..j : wire[i][1] = "up")
    <3>1. j > 1
      <4>1. j # 1
        BY <2>1, <2>3 DEF Headed
      <4> QED
        BY <2>1, <4>1
    <3>2. j - 1 \in 1..n /\ j - 1 \in 1..j /\ j \in 1..j
      BY <2>1, <3>1
    <3>3. CASE Clean(wire, j)
      <4>1. wire[j][1] = "down" /\ wire[j - 1][1] = "down"
        BY <3>2, <3>3 DEF Clean
      <4>2. wire[j - 1][2] = "header"
        BY <2>3, <3>3 DEF Whole
      <4> QED
        BY <2>1, <3>1, <3>2, <4>1, <4>2
    <3> QED
      BY <2>2, <3>1, <3>3
  <2>4. ASSUME NEW j \in 1..n, wire[j][2] = "header", j < n, wire[j + 1] # <<wire[j][1], "payload">>
        PROVE  \E i \in 1..(j + 1) : wire[i][1] = "up"
    <3>1. j + 1 \in 1..n /\ j \in 1..(j + 1) /\ j + 1 \in 1..(j + 1)
      BY <2>1, <2>4
    <3> SUFFICES ASSUME Clean(wire, j + 1) PROVE FALSE
      BY <2>2, <3>1
    <3>2. wire[j][1] = "down" /\ wire[j + 1][1] = "down"
      BY <3>1 DEF Clean
    <3>3. wire[j + 1][2] = "payload"
      BY <2>4 DEF Whole
    <3> QED
      BY <2>1, <2>4, <3>1, <3>2, <3>3
  <2> QED
    BY <2>1, <2>3, <2>4 DEF TornOnlyByRefusal
<1> QED
  BY <1>1, RelayInvariant, PTL DEF RInv

(* No middleware session is left open behind a relay that has ended, or an *)
(* upgrade that was rejected or whose answer could not be read             *)
(* (relayWebsocket's deferred function, mitmHTTPS).                        *)
THEOREM SessionsAlwaysEnded == Spec => []SessionsEnded
<1>1. Sessions => SessionsEnded
  BY DEF Sessions, SessionsEnded
<1> QED
  BY <1>1, RelayInvariant, PTL DEF RInv
=============================================================================
