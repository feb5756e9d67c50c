--------------------------- MODULE MiddlewareChain ---------------------------
(***************************************************************************)
(* Pipeline.Run (proxy/middleware/stage.go) and what runMiddleware         *)
(* (proxy/proxy.go) makes of its result: the stages of one request, each   *)
(* shown the headers and body the ones before it left, and at the end one  *)
(* merged decision that is carried out on the request itself.  The stages  *)
(* see a plain map of names as they are spelt; the request is an           *)
(* http.Header, in which spellings of one name are the same.               *)
(***************************************************************************)
EXTENDS Naturals, Sequences, SequencesExt

CONSTANTS
    Names,       \* canonical header names
    Spellings,   \* names as stages and clients spell them
    Canon,       \* Canon[s]: the canonical name
    MaxClient,   \* bound: values of one header of the client's request
    MaxGrpc,     \* bound: configured supervisor middlewares
    MaxList      \* bound: header mutations of one answer

ASSUME ChainAssumption ==
    /\ Names \subseteq Spellings
    /\ Canon \in [Spellings -> Names]
    /\ \A n \in Names : Canon[n] = n
    /\ MaxClient \in Nat /\ MaxGrpc \in Nat /\ MaxList \in Nat

SeqsUpTo(S, n) == UNION {[1..k -> S] : k \in 0..n}

(* The stages FromEnviron builds: a refusal for removed settings, a remote *)
(* stage that is always fail-closed, then the supervisor middlewares, each *)
(* of which is a gRPC stage or, when misconfigured, a refusal.             *)
Rejected == [kind |-> "rejected", failClosed |-> TRUE]
Remote == [kind |-> "remote", failClosed |-> TRUE]
Grpc(closed) == [kind |-> "grpc", failClosed |-> closed]

FromEnviron ==
    {x[1] \o x[2] : x \in {<< >>, <<Rejected>>, <<Remote>>, <<Rejected, Remote>>}
                           \X SeqsUpTo({Rejected, Grpc(TRUE), Grpc(FALSE)}, MaxGrpc)}

(* A header mutation of a stage: a removal, or a write that replaces,      *)
(* appends to, or gives way to (skip) what is there.  The value written is *)
(* never empty and is told apart by its writer, the stage's number; the    *)
(* client writes 0.                                                        *)
Mutations == [op: {"remove", "set", "append", "skip"}, name: Spellings]
Lists == SeqsUpTo(Mutations, MaxList)

VARIABLES
    stages,    \* p.Stages
    pc,        \* "run", "denied" or "forwarded" ("returned" once answered)
    i,         \* the stage to ask next
    verdicts,  \* history: what each stage asked so far said
    client,    \* r.Header as the client sent it
    view,      \* req.Headers: what the next stage is shown
    acc,       \* acc
    muts,      \* accHeaderMutations
    removed,   \* accRemovedHeaders
    body,      \* req.Body: the stage that wrote it; 0 for the client
    wire,      \* r.Header and r.Body after runMiddleware
    intended,  \* history: the stages' edits carried out in order on r.Header
    touched    \* history: per name the styles and spellings of edits so far

vars == <<stages, pc, i, verdicts, client, view, acc, muts, removed, body, wire,
          intended, touched>>

Absent == << >>

Init ==
    /\ stages \in FromEnviron
    /\ pc = "run"
    /\ i = 1
    /\ verdicts = << >>
    /\ client \in [Names -> SeqsUpTo({0}, MaxClient)]
    /\ view = [s \in Spellings |->
                  IF s \in Names /\ client[s] # Absent THEN <<client[s][1]>> ELSE Absent]
    /\ acc = [s \in Spellings |-> Absent]
    /\ muts = << >>
    /\ removed = {}
    /\ body = 0
    /\ wire = [header |-> client, body |-> 0]
    /\ intended = client
    /\ touched = [n \in Names |-> {}]

(* Stage k's mutation m of header n in a map of value lists.  (Pipeline.Run *)
(* joins the values with commas, http.Header keeps them apart: the same    *)
(* header.)                                                                *)
Edit(h, n, m, k) ==
    [h EXCEPT ![n] = IF m.op = "remove" THEN Absent
                     ELSE IF m.op = "append" THEN Append(@, k)
                     ELSE IF m.op = "skip" /\ @ # Absent THEN @
                     ELSE <<k>>]

(* Pipeline.Run's bookkeeping for one mutation: the name as spelt, and acc *)
(* when something was written.                                             *)
EditSeen(k, seen, m) ==
    LET v == Edit(seen.view, m.name, m, k)
        idle == m.op = "remove" \/ (m.op = "skip" /\ seen.view[m.name] # Absent)
    IN [view |-> v,
        acc |-> IF idle THEN seen.acc ELSE [seen.acc EXCEPT ![m.name] = v[m.name]]]

(* Its loop over the mutations ms of stage k. *)
SeenAfter(k, seen, ms) ==
    LET after[n \in 0..Len(ms)] ==
            IF n = 0 THEN seen ELSE EditSeen(k, after[n - 1], ms[n])
    IN after[Len(ms)]

Written(k, ms) == [j \in DOMAIN ms |-> <<k, ms[j]>>]

(* The loops over mutations ws, pairs <<stage, mutation>>, on the headers  *)
(* h of a message, where s is called name[s].                              *)
Edited(h, name, ws) ==
    LET after[n \in 0..Len(ws)] ==
            IF n = 0 THEN h ELSE Edit(after[n - 1], name[ws[n][2].name], ws[n][2], ws[n][1])
    IN after[Len(ws)]

(* The style of mutation j of ms, on a header with the styles t so far. *)
Style(t, ms, j) ==
    IF ms[j].op = "remove" THEN "remove"
    ELSE IF \/ \E e \in t : e[1] = "remove"
            \/ \E l \in 1..(j - 1) : ms[l].op = "remove" /\ Canon[ms[l].name] = Canon[ms[j].name]
    THEN "rewrite" ELSE "list"

-----------------------------------------------------------------------------
Answer(v) ==
    /\ pc = "run"
    /\ i <= Len(stages)
    /\ verdicts' = Append(verdicts, v)

NextStage == i' = i + 1 /\ UNCHANGED pc

(* The stage denies, as a refusal always does, or Evaluate returns an      *)
(* error: nobody else is asked.                                            *)
StageDeny ==
    /\ Answer("deny")
    /\ pc' = "denied"
    /\ UNCHANGED <<stages, i, client, view, acc, muts, removed, body, wire, intended, touched>>

(* The stage cannot be reached, times out, or its answer makes no sense. *)
StageFail ==
    /\ Answer("fail")
    /\ stages[i].kind # "rejected"
    /\ IF stages[i].failClosed THEN pc' = "denied" /\ UNCHANGED i ELSE NextStage
    /\ UNCHANGED <<stages, client, view, acc, muts, removed, body, wire, intended, touched>>

(* matchesHost: the stage has nothing to do with this host. *)
StageSkip ==
    /\ Answer("skip")
    /\ stages[i].kind = "grpc"
    /\ NextStage
    /\ UNCHANGED <<stages, client, view, acc, muts, removed, body, wire, intended, touched>>

(* Pipeline.Run's loop body for an answer that allows: MutateHeaders (set, *)
(* but for names that are mutations too), then HeaderMutations in order,   *)
(* then RemoveHeaders (gone), then the body.                               *)
Allow(set, ms, gone, newBody) ==
    LET mapped == set \ {ms[j].name : j \in DOMAIN ms}
        Put(h) == [s \in Spellings |-> IF s \in mapped THEN <<i>> ELSE h[s]]
        seen == SeenAfter(i, [view |-> Put(view), acc |-> Put(acc)], ms)
        Spells(n, S) == {s \in S : Canon[s] = n}
        start == [n \in Names |-> IF Spells(n, mapped) = {} THEN intended[n] ELSE <<i>>]
        listed == Edited(start, Canon, Written(i, ms))
        On(n) == {j \in DOMAIN ms : Canon[ms[j].name] = n}
    IN
    /\ Answer("allow")
    /\ muts' = muts \o Written(i, ms)
    /\ removed' = removed \cup gone
    /\ view' = [s \in Spellings |-> IF s \in gone THEN Absent ELSE seen.view[s]]
    /\ acc' = seen.acc
    /\ body' = IF newBody THEN i ELSE body
    /\ intended' = [n \in Names |-> IF Spells(n, gone) = {} THEN listed[n] ELSE Absent]
    /\ touched' = [n \in Names |->
                      touched[n] \cup {<<"map", s>> : s \in Spells(n, mapped)}
                          \cup {<<Style(touched[n], ms, j), ms[j].name>> : j \in On(n)}
                          \cup {<<"remove", s>> : s \in Spells(n, gone)}]
    /\ NextStage
    /\ UNCHANGED <<stages, client, wire>>

(* A gRPC stage's writes are MutateHeaders and HeaderMutations both, its   *)
(* removals HeaderMutations and RemoveHeaders both.                        *)
GrpcAllow(ms, newBody) ==
    LET Named(removal) == {ms[j].name : j \in {j \in DOMAIN ms :
                                                 (ms[j].op = "remove") = removal}}
    IN
    /\ i <= Len(stages) /\ stages[i].kind = "grpc"
    /\ Allow(Named(FALSE), ms, Named(TRUE), newBody)

(* The remote stage answers with a Decision in JSON, whatever is in it. *)
RemoteAllow(set, ms, gone, newBody) ==
    /\ i <= Len(stages) /\ stages[i].kind = "remote"
    /\ Allow(set, ms, gone, newBody)

(* Mutant: the stages' headers overwrite the ordered mutations. *)
MergedMapLast(pick) ==
    LET listed == Edited(client, Canon, muts)
    IN [n \in Names |-> IF \E s \in removed : Canon[s] = n THEN Absent
                        ELSE IF acc[pick[n]] # Absent THEN acc[pick[n]] ELSE listed[n]]

(* The spellings runMiddleware sets from MutateHeaders: those that are not *)
(* mutations too.                                                          *)
Unhandled ==
    {s \in Spellings : acc[s] # Absent /\ \A j \in DOMAIN muts : muts[j][2].name # s}

(* runMiddleware's merge: MutateHeaders in map order (pick says which      *)
(* spelling of a name is set last), then the mutations in order, then      *)
(* every removal.                                                          *)
Merged(pick) ==
    LET mapped == [n \in Names |-> IF pick[n] \in Unhandled THEN acc[pick[n]] ELSE client[n]]
        listed == Edited(mapped, Canon, muts)
    IN [n \in Names |-> IF \E s \in removed : Canon[s] = n THEN Absent ELSE listed[n]]

Picks ==
    {p \in [Names -> Spellings] : \A n \in Names :
        LET last == {s \in Unhandled : Canon[s] = n}
        IN p[n] \in IF last = {} THEN {n} ELSE last}

(* Mutant: the client's body is sent although a stage replaced it. *)
FinishOldBody(pick) ==
    /\ pc = "run"
    /\ i > Len(stages)
    /\ pc' = "forwarded"
    /\ wire' = [header |-> Merged(pick), body |-> 0]
    /\ UNCHANGED <<stages, i, verdicts, client, view, acc, muts, removed, body,
                   intended, touched>>

(* All stages have allowed the request. *)
Finish(pick) ==
    /\ pc = "run"
    /\ i > Len(stages)
    /\ pc' = "forwarded"
    /\ wire' = [header |-> Merged(pick), body |-> body]
    /\ UNCHANGED <<stages, i, verdicts, client, view, acc, muts, removed, body,
                   intended, touched>>

Next ==
    \/ StageDeny \/ StageFail \/ StageSkip
    \/ \E b \in BOOLEAN :
         \/ \E ms \in Lists : GrpcAllow(ms, b)
         \/ \E set, gone \in SUBSET Spellings, ms \in Lists :
              RemoteAllow(set, ms, gone, b)
    \/ \E pick \in Picks : Finish(pick)

Spec == Init /\ [][Next]_vars

-----------------------------------------------------------------------------
(* Properties *)

Headers(S) == [S -> Seq(0..Len(stages))]

(* Every variable has its type; once the request is settled, every stage   *)
(* up to the one that settled it was asked exactly once (the loop of       *)
(* Pipeline.Run, stage.go).                                                *)
TypeOK ==
    /\ stages \in FromEnviron
    /\ pc \in {"run", "denied", "forwarded", "returned"}
    /\ i \in 1..(Len(stages) + 1)
    /\ verdicts \in Seq({"allow", "skip", "fail", "deny"})
    /\ pc # "returned" => Len(verdicts) = IF pc = "denied" THEN i ELSE i - 1
    /\ client \in Headers(Names) /\ intended \in Headers(Names)
    /\ view \in Headers(Spellings) /\ acc \in Headers(Spellings)
    /\ muts \in Seq((1..Len(stages)) \X Mutations)
    /\ removed \subseteq Spellings
    /\ body \in 0..Len(stages)
    /\ wire \in [header: Headers(Names), body: 0..Len(stages)]
    /\ touched \in [Names -> SUBSET ({"map", "list", "remove", "rewrite"} \X Spellings)]

(* First deny wins: a request goes on only when every stage was asked, no  *)
(* stage denied it, none that failed is fail-closed and none stands for    *)
(* configuration that was rejected (Pipeline.Run, Evaluate, FromEnviron).  *)
DenyWins ==
    pc = "forwarded" =>
        /\ Len(verdicts) = Len(stages)
        /\ \A j \in DOMAIN verdicts :
              /\ verdicts[j] # "deny"
              /\ stages[j].kind # "rejected"
              /\ verdicts[j] = "fail" => ~stages[j].failClosed

Styles(n) == {e[1] : e \in touched[n]}

(* Names the merge is exact about: not written after a removal, and not    *)
(* written both by the remote stage's map and by gRPC mutations.           *)
Clean(n) ==
    /\ "rewrite" \notin Styles(n)
    /\ ~({"map", "list"} \subseteq Styles(n))

(* The one merged decision does to a request what the stages' edits would  *)
(* have done one after the other, for every header but those written again *)
(* after a removal or written in both styles: whichever spellings were     *)
(* used and however many values the client sent (runMiddleware, proxy.go). *)
InOrder ==
    pc = "forwarded" => \A n \in Names : Clean(n) => wire.header[n] = intended[n]

(* What was inspected is what is sent: the body is the one the last stage  *)
(* left, and a header that the stages spelt as the request spells it, of   *)
(* which the client sent at most one value, goes out as the map the stages *)
(* were shown had it at the end (Pipeline.Run against runMiddleware).      *)
SentAsInspected ==
    pc = "forwarded" =>
        /\ wire.body = body
        /\ \A n \in Names :
              /\ Clean(n)
              /\ \A e \in touched[n] : e[2] = n
              /\ Len(client[n]) <= 1
              => wire.header[n] = view[n]
=============================================================================
