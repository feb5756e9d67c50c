--------------------------- MODULE RequestPipeline ---------------------------
(***************************************************************************)
(* One HTTP request on its way out (proxy/proxy.go, proxy/terminate.go,    *)
(* proxy/secrets.go, proxy/token_grant.go): the policy decision, message   *)
(* by message for batch protocols, the middleware, the token grants, the   *)
(* choice and the substitution of credentials, and the write upstream,     *)
(* while policies, secrets and grants are replaced underneath.             *)
(*                                                                         *)
(* A flow is a goroutine: handleAbsoluteHTTP, which serves one request, or *)
(* mitmHTTPS, which serves one request after another on a terminated       *)
(* stream.  Of a request the model keeps the messages the policy judges    *)
(* and the keys of the credential markers in it, by where they are.        *)
(***************************************************************************)
EXTENDS Naturals, Sequences

CONSTANTS
    Flows,      \* goroutines serving requests
    Absolute,   \* those that run handleAbsoluteHTTP; the others mitmHTTPS
    Docs,       \* policy documents
    Hosts,
    Keys,       \* credential keys
    Msgs,       \* messages: a REST request, or one call of a batch
    Exempt,     \* client responses and receive streams of MCP, not judged
    Requests,   \* requests the clients send
    Rule,       \* Rule[d][h]: what engine.Decide matches, see RuleType
    Permits,    \* Permits[d][h]: messages that engine.DecideHTTP allows
    MaxChanges  \* bound: replacements of policy, secrets and grants

CONSTANTS NoHost, NoReq

(* credentialed: blocksUninspectedCredentials; batch: MCP, JSON-RPC or     *)
(* GraphQL; single: anything else.  keys: CredentialKeys.  body: REST with *)
(* RequestBodyCredentialRewrite.                                           *)
Kinds == {"deny", "credentialed", "single", "batch"}
RuleType == [kind: Kinds, keys: SUBSET Keys, body: BOOLEAN]

(* head: markers in path, query values and headers; names: in the names of *)
(* query parameters; body: in the body.  coded: percent-encoded in a query *)
(* value next to a plain marker, without which rewriteQuery leaves all of  *)
(* the query as it is.                                                     *)
RequestType == [host: Hosts, msgs: Seq(Msgs), head: SUBSET Keys,
                names: SUBSET Keys, coded: SUBSET Keys, body: SUBSET Keys]

ASSUME PipelineAssumption ==
    /\ Absolute \subseteq Flows
    /\ Exempt \subseteq Msgs
    /\ Requests \subseteq RequestType
    /\ Rule \in [Docs -> [Hosts -> RuleType]]
    /\ Permits \in [Docs -> [Hosts -> SUBSET Msgs]]
    /\ MaxChanges \in Nat

VARIABLES
    eng,       \* the document in the engine
    secrets,   \* keys in Server.secrets
    grants,    \* keys in Server.tokenGrants
    resolver,  \* Server.tokenGrantResolver is set
    changes,   \* counter behind MaxChanges
    pc,        \* where each flow is
    dest,      \* its host
    store,     \* the secrets the flow captured: for each key where its value is from
    req,       \* the request in hand
    batch,     \* it is judged message by message
    at,        \* index of the next message to judge
    bound,     \* CredentialKeys of the matched rule
    opt,       \* rewriteBody
    work,      \* the secrets for this request, token grants included
    sent,      \* values substituted in the request, by key
    since,     \* history: documents in force since the request was read
    granted    \* history: keys whose grant was resolved for this request

serverVars == <<eng, secrets, grants, resolver, changes>>
flowVars == <<dest, store, req, batch, at, bound, opt, work, sent, since, granted>>
vars == <<serverVars, pc, flowVars>>

Values == {"none", "static", "token"}
Nothing == [k \in Keys |-> "none"]
Capture == [k \in Keys |-> IF k \in secrets THEN "static" ELSE "none"]

Busy == {"decide", "messages", "middleware", "grants", "rewrite", "dial",
         "write", "sent"}

Init ==
    /\ eng \in Docs
    /\ secrets = Keys
    /\ grants = {}
    /\ resolver = TRUE
    /\ changes = 0
    /\ pc = [f \in Flows |-> "idle"]
    /\ dest = [f \in Flows |-> NoHost]
    /\ store = [f \in Flows |-> Nothing]
    /\ req = [f \in Flows |-> NoReq]
    /\ batch = [f \in Flows |-> FALSE]
    /\ at = [f \in Flows |-> 1]
    /\ bound = [f \in Flows |-> {}]
    /\ opt = [f \in Flows |-> FALSE]
    /\ work = [f \in Flows |-> Nothing]
    /\ sent = [f \in Flows |-> Nothing]
    /\ since = [f \in Flows |-> {}]
    /\ granted = [f \in Flows |-> {}]

Goto(f, l) == pc' = [pc EXCEPT ![f] = l]

-----------------------------------------------------------------------------
(* Apply, SetSecrets, SetTokenGrants, SetTokenGrantResolver. *)
Change == changes < MaxChanges /\ changes' = changes + 1

Apply(d) ==
    /\ Change
    /\ eng' = d
    /\ since' = [f \in Flows |-> IF pc[f] \in Busy THEN since[f] \cup {d} ELSE since[f]]
    /\ UNCHANGED <<secrets, grants, resolver, pc, dest, store, req, batch, at,
                   bound, opt, work, sent, granted>>

SetSecrets(S) ==
    /\ Change
    /\ secrets' = S
    /\ UNCHANGED <<eng, grants, resolver, pc, flowVars>>

SetTokenGrants(S) ==
    /\ Change
    /\ grants' = S
    /\ UNCHANGED <<eng, secrets, resolver, pc, flowVars>>

SetTokenGrantResolver(b) ==
    /\ Change
    /\ resolver' = b
    /\ UNCHANGED <<eng, secrets, grants, pc, flowVars>>

-----------------------------------------------------------------------------
(* mitmHTTPS captures the secrets once per stream. *)
Connect(f, h) ==
    /\ f \notin Absolute
    /\ pc[f] = "idle"
    /\ dest' = [dest EXCEPT ![f] = h]
    /\ store' = [store EXCEPT ![f] = Capture]
    /\ Goto(f, "ready")
    /\ UNCHANGED <<serverVars, req, batch, at, bound, opt, work, sent, since, granted>>

(* Nothing of a request outlives its turn in the loop: every variable of   *)
(* the loop body is declared in it.                                        *)
Forget(f) ==
    /\ req' = [req EXCEPT ![f] = NoReq]
    /\ batch' = [batch EXCEPT ![f] = FALSE]
    /\ at' = [at EXCEPT ![f] = 1]
    /\ bound' = [bound EXCEPT ![f] = {}]
    /\ opt' = [opt EXCEPT ![f] = FALSE]
    /\ work' = [work EXCEPT ![f] = Nothing]
    /\ sent' = [sent EXCEPT ![f] = Nothing]
    /\ since' = [since EXCEPT ![f] = {}]
    /\ granted' = [granted EXCEPT ![f] = {}]

Take(f, r) ==
    /\ req' = [req EXCEPT ![f] = r]
    /\ since' = [since EXCEPT ![f] = {eng}]
    /\ Goto(f, "decide")
    /\ UNCHANGED <<serverVars, batch, at, bound, opt, work, sent, granted>>

ReadRequest(f, r) ==
    /\ pc[f] = "ready"
    /\ r.host = dest[f]
    /\ Take(f, r)
    /\ UNCHANGED <<dest, store>>

(* handleAbsoluteHTTP captures the secrets for its only request. *)
AbsoluteRequest(f, r) ==
    /\ f \in Absolute
    /\ pc[f] = "idle"
    /\ dest' = [dest EXCEPT ![f] = r.host]
    /\ store' = [store EXCEPT ![f] = Capture]
    /\ Take(f, r)

(* Any refusal or error: the handler returns, the stream is closed. *)
Leave(f) ==
    /\ Goto(f, "idle")
    /\ dest' = [dest EXCEPT ![f] = NoHost]
    /\ store' = [store EXCEPT ![f] = Nothing]
    /\ Forget(f)
    /\ UNCHANGED serverVars

-----------------------------------------------------------------------------
(* decideHTTP, first half: the L4 verdict.  For batch protocols its rule   *)
(* stays the matched one.                                                  *)
Decide(f) ==
    LET r == Rule[eng][dest[f]] IN
    /\ pc[f] = "decide"
    /\ r.kind \in {"single", "batch"}
    /\ batch' = [batch EXCEPT ![f] = r.kind = "batch"]
    /\ bound' = [bound EXCEPT ![f] = r.keys]
    /\ Goto(f, "messages")
    /\ UNCHANGED <<serverVars, dest, store, req, at, opt, work, sent, since, granted>>

DecideDeny(f) ==
    /\ pc[f] = "decide"
    /\ Rule[eng][dest[f]].kind \in {"deny", "credentialed"}
    /\ Leave(f)

(* The engine fails, or path, query or body do not parse. *)
DecideMalformed(f) ==
    /\ pc[f] \in {"decide", "messages"}
    /\ Leave(f)

(* decideHTTP, second half: one message of a batch, judged by the engine   *)
(* of that moment.                                                         *)
DecideMessage(f) ==
    /\ pc[f] = "messages"
    /\ batch[f]
    /\ at[f] <= Len(req[f].msgs)
    /\ req[f].msgs[at[f]] \in Exempt \cup Permits[eng][dest[f]]
    /\ at' = [at EXCEPT ![f] = @ + 1]
    /\ UNCHANGED <<serverVars, pc, dest, store, req, batch, bound, opt, work,
                   sent, since, granted>>

(* Mutant: the first message speaks for the batch. *)
DecideBatchFirst(f) ==
    /\ pc[f] = "messages"
    /\ batch[f]
    /\ at[f] > 1
    /\ Goto(f, "middleware")
    /\ UNCHANGED <<serverVars, flowVars>>

DecideBatch(f) ==
    /\ pc[f] = "messages"
    /\ batch[f]
    /\ at[f] > Len(req[f].msgs)
    /\ Goto(f, "middleware")
    /\ UNCHANGED <<serverVars, flowVars>>

(* A single request is matched anew, rule included. *)
DecideSingle(f) ==
    LET r == Rule[eng][dest[f]] IN
    /\ pc[f] = "messages"
    /\ ~batch[f]
    /\ \A i \in 1..Len(req[f].msgs) : req[f].msgs[i] \in Permits[eng][dest[f]]
    /\ bound' = [bound EXCEPT ![f] = r.keys]
    /\ opt' = [opt EXCEPT ![f] = r.kind = "single" /\ r.body]
    /\ Goto(f, "middleware")
    /\ UNCHANGED <<serverVars, dest, store, req, batch, at, work, sent, since, granted>>

(* Some message is not allowed. *)
DecideMessageDeny(f) ==
    /\ pc[f] = "messages"
    /\ \/ /\ batch[f]
          /\ at[f] <= Len(req[f].msgs)
          /\ req[f].msgs[at[f]] \notin Exempt \cup Permits[eng][dest[f]]
       \/ /\ ~batch[f]
          /\ \E i \in 1..Len(req[f].msgs) : req[f].msgs[i] \notin Permits[eng][dest[f]]
    /\ Leave(f)

-----------------------------------------------------------------------------
(* runMiddleware: the stages may add and remove headers and replace the    *)
(* body, markers included, or refuse.                                      *)
Middleware(f, H, B) ==
    /\ pc[f] = "middleware"
    /\ req' = [req EXCEPT ![f].head = H, ![f].body = B]
    /\ Goto(f, "grants")
    /\ UNCHANGED <<serverVars, dest, store, batch, at, bound, opt, work, sent,
                   since, granted>>

MiddlewareDeny(f) ==
    /\ pc[f] = "middleware"
    /\ Leave(f)

(* PlaceholderKeysInRequest: path, raw query and headers; not the body and *)
(* not what is percent-encoded in the query.                               *)
UsedKeys(f) == req[f].head \cup req[f].names

(* Mutant: the loop's own secrets are overwritten ("=" for ":="). *)
ResolveGrantsSticky(f) ==
    LET asked == UsedKeys(f) \cap grants
        result == [k \in Keys |-> IF k \in asked THEN "token" ELSE store[f][k]]
    IN
    /\ pc[f] = "grants"
    /\ \/ UsedKeys(f) = {} \/ grants = {}
       \/ resolver /\ asked \subseteq bound[f]
    /\ work' = [work EXCEPT ![f] = result]
    /\ store' = [store EXCEPT ![f] = result]
    /\ granted' = [granted EXCEPT ![f] = asked]
    /\ Goto(f, "rewrite")
    /\ UNCHANGED <<serverVars, dest, req, batch, at, bound, opt, sent, since>>

(* resolveTokenGrantPlaceholders: every used key that has a grant is       *)
(* resolved, for this request only.                                        *)
ResolveGrants(f) ==
    LET asked == UsedKeys(f) \cap grants IN
    /\ pc[f] = "grants"
    /\ \/ UsedKeys(f) = {} \/ grants = {}
       \/ resolver /\ asked \subseteq bound[f]
    /\ work' = [work EXCEPT ![f] =
                   [k \in Keys |-> IF k \in asked THEN "token" ELSE store[f][k]]]
    /\ granted' = [granted EXCEPT ![f] = asked]
    /\ Goto(f, "rewrite")
    /\ UNCHANGED <<serverVars, dest, store, req, batch, at, bound, opt, sent, since>>

(* No resolver, a key that is not bound, or an exchange that fails. *)
ResolveGrantsError(f) ==
    /\ pc[f] = "grants"
    /\ UsedKeys(f) # {} /\ grants # {}
    /\ ~resolver \/ UsedKeys(f) \cap grants # {}
    /\ Leave(f)

(* SecretsForEndpoint: every used key is bound by the matched rule. *)
EndpointMatches(f) == UsedKeys(f) \subseteq bound[f]

(* FilterSecrets: what the matched rule binds, of what there is. *)
FilterSecrets(f) == {k \in bound[f] : work[f][k] # "none"}

(* The markers that the rewriter resolves. *)
Markers(f) ==
    req[f].head \cup req[f].coded \cup (IF opt[f] THEN req[f].body ELSE {})

(* Mutant: the used keys are checked, the store is not filtered. *)
RewriteUnfiltered(f) ==
    /\ pc[f] = "rewrite"
    /\ EndpointMatches(f)
    /\ \A k \in Markers(f) : work[f][k] # "none"
    /\ sent' = [sent EXCEPT ![f] =
                   [k \in Keys |-> IF k \in Markers(f) THEN work[f][k] ELSE "none"]]
    /\ Goto(f, IF f \in Absolute THEN "dial" ELSE "write")
    /\ UNCHANGED <<serverVars, dest, store, req, batch, at, bound, opt, work,
                   since, granted>>

(* SecretsForEndpoint and RewriteHTTPRequestWithOptions.  The names of     *)
(* query parameters are never rewritten.                                   *)
Rewrite(f) ==
    /\ pc[f] = "rewrite"
    /\ EndpointMatches(f)
    /\ Markers(f) \subseteq FilterSecrets(f)
    /\ sent' = [sent EXCEPT ![f] =
                   [k \in Keys |-> IF k \in Markers(f) THEN work[f][k] ELSE "none"]]
    /\ Goto(f, IF f \in Absolute THEN "dial" ELSE "write")
    /\ UNCHANGED <<serverVars, dest, store, req, batch, at, bound, opt, work,
                   since, granted>>

(* credential_endpoint_mismatch, an unresolved marker, or a body that is   *)
(* too large or not textual.                                               *)
RewriteDeny(f) ==
    /\ pc[f] = "rewrite"
    /\ \/ ~EndpointMatches(f)
       \/ ~(Markers(f) \subseteq FilterSecrets(f))
       \/ opt[f]
    /\ Leave(f)

(* DialSSRF, for absolute-form requests only now. *)
Dial(f) ==
    /\ pc[f] = "dial"
    /\ Goto(f, "write")
    /\ UNCHANGED <<serverVars, flowVars>>

DialError(f) ==
    /\ pc[f] = "dial"
    /\ Leave(f)

(* outReq.Write: from here on upstream has the request. *)
Write(f) ==
    /\ pc[f] = "write"
    /\ Goto(f, "sent")
    /\ UNCHANGED <<serverVars, flowVars>>

(* The response is read, filtered and returned; a terminated stream goes   *)
(* on with the next request unless it failed or was to be closed.          *)
Respond(f) ==
    /\ pc[f] = "sent"
    /\ \/ Leave(f)
       \/ /\ f \notin Absolute
          /\ Goto(f, "ready")
          /\ Forget(f)
          /\ UNCHANGED <<serverVars, dest, store>>

FlowStep(f) ==
    \/ Decide(f) \/ DecideDeny(f) \/ DecideMalformed(f)
    \/ DecideMessage(f) \/ DecideBatch(f) \/ DecideSingle(f) \/ DecideMessageDeny(f)
    \/ (\E r \in Requests : Middleware(f, r.head, r.body)) \/ MiddlewareDeny(f)
    \/ ResolveGrants(f) \/ ResolveGrantsError(f)
    \/ Rewrite(f) \/ RewriteDeny(f)
    \/ Dial(f) \/ DialError(f) \/ Write(f) \/ Respond(f)

Next ==
    \/ \E d \in Docs : Apply(d)
    \/ \E S \in SUBSET Keys : SetSecrets(S) \/ SetTokenGrants(S)
    \/ \E b \in BOOLEAN : SetTokenGrantResolver(b)
    \/ \E f \in Flows :
         \/ \E h \in Hosts : Connect(f, h)
         \/ \E r \in Requests : ReadRequest(f, r) \/ AbsoluteRequest(f, r)
         \/ FlowStep(f)

Spec == Init /\ [][Next]_vars

-----------------------------------------------------------------------------
(* Types of the shared and of the per-flow state. *)
TypeOK ==
    /\ eng \in Docs
    /\ secrets \subseteq Keys
    /\ grants \subseteq Keys
    /\ resolver \in BOOLEAN
    /\ changes \in 0..MaxChanges
    /\ pc \in [Flows -> Busy \cup {"idle", "ready"}]
    /\ dest \in [Flows -> Hosts \cup {NoHost}]
    /\ store \in [Flows -> [Keys -> Values]]
    /\ req \in [Flows -> RequestType \cup {NoReq}]
    /\ batch \in [Flows -> BOOLEAN]
    /\ at \in [Flows -> Nat]
    /\ bound \in [Flows -> SUBSET Keys]
    /\ opt \in [Flows -> BOOLEAN]
    /\ work \in [Flows -> [Keys -> Values]]
    /\ sent \in [Flows -> [Keys -> Values]]
    /\ since \in [Flows -> SUBSET Docs]
    /\ granted \in [Flows -> SUBSET Keys]

(* Past the rewriter, so that credentials are in the request. *)
Outbound(f) == pc[f] \in {"dial", "write", "sent"}

(* A credential leaves only for a host to which a policy in force since    *)
(* the request was read binds its key, whether the marker was in the head, *)
(* in the body or percent-encoded (where PlaceholderKeysInRequest does not *)
(* see it) or put there by middleware (secrets.go: "Any placeholder key    *)
(* not listed in boundKeys fails closed").                                 *)
BoundOnly ==
    \A f \in Flows : Outbound(f) =>
        \A k \in Keys : sent[f][k] # "none" =>
            \E d \in since[f] : k \in Rule[d][dest[f]].keys

(* Every message of a request that leaves was allowed by a policy in force *)
(* since the request was read, at L4 and, one by one, at L7, although the  *)
(* engine is asked several times and may be replaced in between.           *)
MessagesPermitted ==
    \A f \in Flows : Outbound(f) =>
        /\ \E d \in since[f] : Rule[d][dest[f]].kind \in {"single", "batch"}
        /\ \A i \in 1..Len(req[f].msgs) :
             \/ req[f].msgs[i] \in Exempt /\ batch[f]
             \/ \E d \in since[f] : req[f].msgs[i] \in Permits[d][dest[f]]

(* A token is sent only in the request it was granted for: a terminated    *)
(* stream serves many requests, and the grant of a key may be withdrawn    *)
(* between two of them (SetTokenGrants).                                   *)
GrantFresh ==
    \A f \in Flows : Outbound(f) =>
        \A k \in Keys : sent[f][k] = "token" => k \in granted[f]

(* secrets.go:165, of "path, query, and headers": "Fail-closed: unresolved *)
(* markers return an error (do not send upstream)."                        *)
MarkersResolved ==
    \A f \in Flows : pc[f] = "sent" =>
        \A k \in req[f].head \cup req[f].names : sent[f][k] # "none"
=============================================================================
