---------------------------- MODULE ResponseChain ----------------------------
(***************************************************************************)
(* The way back through the pipeline: runMiddlewareResponse (proxy.go),    *)
(* Pipeline.RunResponse (stage.go) and EvaluateResponse of a gRPC stage    *)
(* (grpc.go), after the request of MiddlewareChain was forwarded.  Only    *)
(* gRPC stages look at responses.  Each is told of the headers, then of    *)
(* the body unit by unit, then of the trailers, edits the response in      *)
(* place as it answers, and may block it or fail at any of these points.   *)
(***************************************************************************)
EXTENDS MiddlewareChain

CONSTANTS
    TrailerNames,  \* trailers, canonical names
    Protected,     \* isProtectedTrailer: the names stages may not touch
    TrailerLists,  \* mutation lists a stage may answer trailers with
    Upstream,      \* responses of the upstream
    MaxBuffer,     \* maxBufferedMiddlewareResponse
    Limit,         \* payload limit of a stage
    ChunkSize      \* size of a unit when the body is streamed

ASSUME ResponseAssumption ==
    /\ Protected \subseteq TrailerNames
    /\ TrailerLists \subseteq Seq([op: {"remove", "set", "append", "skip"}, name: TrailerNames])
    /\ \A r \in Upstream :
          r \in [header: [Names -> Seq({0})], trailer: [TrailerNames -> Seq({0})],
                 body: Seq({0}), bodyless: BOOLEAN]
    /\ MaxBuffer \in Nat
    /\ Limit \in Nat \ {0} /\ ChunkSize \in 1..Limit

VARIABLES
    rpc,       \* where runMiddlewareResponse is
    ri,        \* the stage in hand
    resp,      \* the response: [header, trailer, body, bodyless]; a byte is its writer
    origin,    \* history: the response as the upstream sent it
    mode,      \* BodyMode of the stage in hand: "headers", "whole" or "stream"
    output,    \* what the stage in hand has let through so far
    offset,    \* bytes of the body it has been shown
    base,      \* history: the body when the stage in hand was asked
    answers,   \* history: its answers to the units
    settled,   \* history: how each stage left: "pass", "fail" or "block"
    length     \* Content-Length as restated, once it is

responseVars == <<rpc, ri, resp, origin, mode, output, offset, base, answers, settled, length>>
requestVars == vars
exchangeVars == <<vars, responseVars>>

NoResponse == [header |-> [n \in Names |-> Absent], trailer |-> [t \in TrailerNames |-> Absent],
               body |-> << >>, bodyless |-> FALSE]

ExchangeInit ==
    /\ Init
    /\ rpc = "request"
    /\ ri = 1
    /\ resp = NoResponse
    /\ origin = NoResponse
    /\ mode = "none"
    /\ output = << >>
    /\ offset = 0
    /\ base = << >>
    /\ answers = << >>
    /\ settled = << >>
    /\ length = 0

local == <<mode, output, offset, base, answers>>

(* The request was sent and the upstream answered; what runMiddleware      *)
(* computed on the way is gone.                                            *)
Respond(r) ==
    /\ pc = "forwarded"
    /\ pc' = "returned"
    /\ rpc' = "buffer"
    /\ resp' = r /\ origin' = r
    /\ i' = 1 /\ verdicts' = << >> /\ muts' = << >> /\ removed' = {} /\ body' = 0
    /\ client' = NoResponse.header /\ intended' = NoResponse.header
    /\ view' = [s \in Spellings |-> Absent] /\ acc' = [s \in Spellings |-> Absent]
    /\ wire' = [header |-> NoResponse.header, body |-> 0]
    /\ touched' = [n \in Names |-> {}]
    /\ UNCHANGED <<stages, ri, local, settled, length>>

HasResponseStages == \E k \in DOMAIN stages : stages[k].kind = "grpc"

(* runMiddlewareResponse buffers the body; without response stages the     *)
(* response goes through as it is.                                         *)
Buffer(ok) ==
    /\ rpc = "buffer"
    /\ rpc' = IF ~HasResponseStages THEN "delivered"
              ELSE IF ok /\ Len(resp.body) <= MaxBuffer THEN "stage"
              ELSE "denied"
    /\ UNCHANGED <<requestVars, ri, resp, origin, local, settled, length>>

-----------------------------------------------------------------------------
(* One stage *)

Leave(how) == settled' = Append(settled, how)

(* The stage is done with and the next is asked. *)
Pass(how) == rpc' = "stage" /\ ri' = ri + 1 /\ Leave(how)
Block == rpc' = "denied" /\ UNCHANGED ri /\ Leave("block")

(* Mutant: an unreachable stage never blocks a response. *)
ResponseFailureOpen ==
    /\ rpc \in {"stage", "body", "trailers"} /\ ri <= Len(stages) /\ stages[ri].kind = "grpc"
    /\ Pass("fail")
    /\ UNCHANGED <<requestVars, resp, origin, local, length>>

(* responseFailure: no connection, no answer in time, or one that makes no *)
(* sense, at whichever point.  Edits already made stay.                    *)
ResponseFailure ==
    /\ rpc \in {"stage", "body", "trailers"} /\ ri <= Len(stages) /\ stages[ri].kind = "grpc"
    /\ IF stages[ri].failClosed
       THEN rpc' = "denied" /\ UNCHANGED ri /\ Leave("fail")
       ELSE Pass("fail")
    /\ UNCHANGED <<requestVars, resp, origin, local, length>>

(* Not a ResponseStage, another host, or a preflight that skips. *)
ResponseSkip ==
    /\ rpc = "stage" /\ ri <= Len(stages)
    /\ Pass("pass")
    /\ UNCHANGED <<requestVars, resp, origin, local, length>>

ResponseBlock ==
    /\ rpc \in {"stage", "body"} /\ ri <= Len(stages) /\ stages[ri].kind = "grpc"
    /\ Block
    /\ UNCHANGED <<requestVars, resp, origin, local, length>>

(* The preflight's answer: inspect in mode m, after the header mutations   *)
(* ms have been applied.  Headers only, or a response without body, end    *)
(* here; a whole body beyond the limit is a failure.  (A mode left         *)
(* unspecified is a stream whose ChunkSize is Limit.)                      *)
Preflight(m, ms) ==
    /\ rpc = "stage" /\ ri <= Len(stages) /\ stages[ri].kind = "grpc"
    /\ resp' = [resp EXCEPT !.header = Edited(@, Canon, Written(ri, ms))]
    /\ IF m = "headers" \/ resp.bodyless THEN Pass("pass")
       ELSE IF m = "whole" /\ Len(resp.body) > Limit
       THEN IF stages[ri].failClosed THEN rpc' = "denied" /\ UNCHANGED ri /\ Leave("fail")
                                     ELSE Pass("fail")
       ELSE rpc' = "body" /\ UNCHANGED <<ri, settled>>
    /\ mode' = m /\ output' = << >> /\ offset' = 0
    /\ base' = resp.body /\ answers' = << >>
    /\ UNCHANGED <<requestVars, origin, length>>

Smaller(a, b) == IF a < b THEN a ELSE b

(* end: the unit shown is resp.Body[offset:end]. *)
End == Smaller(offset + (IF mode = "stream" THEN ChunkSize ELSE Limit), Len(resp.body))
Unit == SubSeq(resp.body, offset + 1, End)

(* A unit's answers.  skip_remaining may pass the unit, transform it, or   *)
(* do neither, which drops it.                                             *)
UnitAnswers ==
    [kind: {"pass"}, data: {<< >>}]
        \cup [kind: {"transform", "skipTransform"}, data: {<< >>, <<ri>>}]
        \cup [kind: {"skipPass", "skipDrop"}, data: {<< >>}]
Skips(a) == a.kind \in {"skipPass", "skipTransform", "skipDrop"}
Emitted(a, unit) == IF a.kind \in {"pass", "skipPass"} THEN unit ELSE a.data

(* Mutant: what a skipping stage has not seen is lost. *)
BodyUnitTruncated(a) ==
    LET out == output \o Emitted(a, Unit)
    IN
    /\ rpc = "body"
    /\ answers' = Append(answers, a)
    /\ IF Skips(a)
       THEN resp' = [resp EXCEPT !.body = out] /\ Pass("pass") /\ UNCHANGED <<output, offset>>
       ELSE IF End = Len(resp.body)
       THEN resp' = [resp EXCEPT !.body = out] /\ rpc' = "trailers"
            /\ UNCHANGED <<ri, settled, output, offset>>
       ELSE output' = out /\ offset' = End /\ UNCHANGED <<rpc, ri, settled, resp>>
    /\ UNCHANGED <<requestVars, origin, mode, base, length>>

(* One turn of the loop over units: at least one, even of an empty body.   *)
(* resp.Body is replaced only once the last unit is answered.              *)
BodyUnit(a) ==
    LET out == output \o Emitted(a, Unit)
        rest == SubSeq(resp.body, End + 1, Len(resp.body))
    IN
    /\ rpc = "body"
    /\ answers' = Append(answers, a)
    /\ IF Skips(a)
       THEN resp' = [resp EXCEPT !.body = out \o rest] /\ Pass("pass")
            /\ UNCHANGED <<output, offset>>
       ELSE IF End = Len(resp.body)
       THEN resp' = [resp EXCEPT !.body = out] /\ rpc' = "trailers"
            /\ UNCHANGED <<ri, settled, output, offset>>
       ELSE output' = out /\ offset' = End /\ UNCHANGED <<rpc, ri, settled, resp>>
    /\ UNCHANGED <<requestVars, origin, mode, base, length>>

(* Mutant: only the last mutation is validated. *)
TrailersValidLast(ms) ==
    ms = << >> \/ (ms[Len(ms)].name \notin Protected
                   /\ (ms[Len(ms)].op # "remove" => resp.trailer[ms[Len(ms)].name] # Absent))

(* applyTrailerMutations validates every mutation before it applies one:   *)
(* no protected name, and nothing written that was not there.              *)
TrailersValid(ms) ==
    \A j \in DOMAIN ms :
        /\ ms[j].name \notin Protected
        /\ ms[j].op # "remove" => resp.trailer[ms[j].name] # Absent

Spelt == [t \in TrailerNames |-> t]

(* The answer to the trailers; an invalid one is a failure of the stage. *)
Trailers(ms) ==
    /\ rpc = "trailers"
    /\ IF TrailersValid(ms)
       THEN Pass("pass") /\ resp' = [resp EXCEPT !.trailer = Edited(@, Spelt, Written(ri, ms))]
       ELSE /\ UNCHANGED resp
            /\ IF stages[ri].failClosed
               THEN rpc' = "denied" /\ UNCHANGED ri /\ Leave("fail")
               ELSE Pass("fail")
    /\ UNCHANGED <<requestVars, origin, local, length>>

(* Every stage let the response pass: it is what the client gets, and its  *)
(* length is stated anew.                                                  *)
Deliver ==
    /\ rpc = "stage" /\ ri > Len(stages)
    /\ rpc' = "delivered"
    /\ length' = Len(resp.body)
    /\ UNCHANGED <<requestVars, ri, resp, origin, local, settled>>

ResponseNext ==
    \/ \E r \in Upstream : Respond(r)
    \/ \E ok \in BOOLEAN : Buffer(ok)
    \/ ResponseFailure \/ ResponseSkip \/ ResponseBlock \/ Deliver
    \/ \E m \in {"headers", "whole", "stream"}, ms \in Lists : Preflight(m, ms)
    \/ \E a \in UnitAnswers : BodyUnit(a)
    \/ \E ms \in TrailerLists : Trailers(ms)

ExchangeNext == (Next /\ UNCHANGED responseVars) \/ ResponseNext

ExchangeSpec == ExchangeInit /\ [][ExchangeNext]_exchangeVars

-----------------------------------------------------------------------------
(* Properties *)

(* A response is delivered only when every stage was gone through, none    *)
(* blocked it and no fail-closed one failed.                               *)
BlockWins ==
    rpc = "delivered" =>
        /\ HasResponseStages => Len(settled) = Len(stages)
        /\ \A k \in DOMAIN settled :
              /\ settled[k] # "block"
              /\ settled[k] = "fail" => stages[k].kind = "grpc" /\ ~stages[k].failClosed
        /\ ~HasResponseStages => resp = origin

(* First deny wins, both ways: a request goes on only when every stage was *)
(* asked and none denied it or failed closed (DenyWins); its response is   *)
(* delivered only when every stage was gone through in order, none blocked *)
(* it and none that failed, at whatever point, is fail-closed, and without *)
(* response stages it is delivered untouched (Pipeline.Run, RunResponse,   *)
(* responseFailure).  (Types included.)                                    *)
FirstDenyWins == TypeOK /\ DenyWins /\ BlockWins

(* What a stage's answers make of the body it was shown: the units it saw, *)
(* each as answered, then whatever it asked not to see.                    *)
Chunk == IF mode = "stream" THEN ChunkSize ELSE Limit
Piece(j) == SubSeq(base, (j - 1) * Chunk + 1, Smaller(j * Chunk, Len(base)))
Parts == [j \in DOMAIN answers |-> Emitted(answers[j], Piece(j))]
Unseen == SubSeq(base, Smaller(Len(answers) * Chunk, Len(base)) + 1, Len(base))

(* w is the parts ps one after the other: part j stands in it from         *)
(* cut[j - 1] on.                                                          *)
Joins(w, ps) ==
    \E cut \in [0..Len(ps) -> 0..Len(w)] :
        /\ cut[0] = 0 /\ cut[Len(ps)] = Len(w)
        /\ \A j \in 1..Len(ps) :
              /\ Len(ps[j]) = cut[j] - cut[j - 1]
              /\ \A x \in 1..Len(ps[j]) : w[cut[j - 1] + x] = ps[j][x]

Complete ==
    answers # << >> /\ (Skips(answers[Len(answers)]) \/ Len(answers) * Chunk >= Len(base))

(* No byte of a body is lost, repeated or moved: after each stage the body *)
(* is what its answers, unit by unit, make of the one before, and a stage  *)
(* that failed before its last answer has left it as it was, whatever it   *)
(* had answered so far (the loop of EvaluateResponse); the client is told  *)
(* the length that is left in the end (runMiddlewareResponse).             *)
BodyAsAnswered ==
    /\ rpc \in {"stage", "trailers", "delivered"} /\ mode # "none" =>
          IF Complete THEN Joins(resp.body, Append(Parts, Unseen)) ELSE resp.body = base
    /\ rpc = "delivered" /\ HasResponseStages => length = Len(resp.body)

(* Trailers that frame the message are never touched and none is created,  *)
(* however many stages edit them and whichever fail half-way               *)
(* (applyTrailerMutations).                                                *)
TrailersSafe ==
    rpc = "delivered" => \A t \in TrailerNames :
        /\ t \in Protected => resp.trailer[t] = origin.trailer[t]
        /\ origin.trailer[t] = Absent => resp.trailer[t] = Absent
=============================================================================
