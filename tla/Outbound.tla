------------------------------- MODULE Outbound -------------------------------
(***************************************************************************)
(* One plain HTTP request from its target to its connection: decideHTTP    *)
(* (proxy/proxy.go) makes the path canonical, reads the members of the     *)
(* body as the endpoint's protocol says and judges each; handleHTTP then   *)
(* dials and forwards.  What RequestPipeline adds in between (middleware,  *)
(* grants, credentials) is not repeated here.                              *)
(***************************************************************************)
EXTENDS PathCanon, MessageGuard, UpstreamDial

CONSTANTS
    Requests,       \* requests and the endpoint each one matches, see below
    AllowedPaths,   \* the engine (external): paths it allows,
    AllowedCalls,   \*   pairs of method and tool,
    AllowedFields,  \*   root fields of GraphQL operations,
    AllowPersisted  \*   and whether operations sent by reference

(* A request is [protocol, slash, target, method, query, stream, header,   *)
(* version, versions, body]: protocol is "rest", "mcp", "jsonrpc" or       *)
(* "graphql", slash the endpoint's allow_encoded_slash, query whether      *)
(* parsePolicyQuery can read the query, stream whether it accepts          *)
(* text/event-stream, versions what the endpoint's MCP configuration       *)
(* allows.                                                                 *)
TargetType ==
    [form: {"origin", "absolute", "bare", "star", "fragment"}, segs: Seq(SegmentType) \ {<< >>}]
ASSUME RequestAssumption ==
    \A r \in Requests :
        /\ r.target \in TargetType
        /\ r.protocol = "graphql" => r.body.items \in Seq(EnvelopeType)

VARIABLES
    req,      \* the request
    handler,  \* "decide", "admitted", "forward", "refused"
    path      \* r.URL.RawPath once it is canonical

vars == <<req, handler, path, dialVars>>

Init ==
    /\ req \in Requests
    /\ handler = "decide"
    /\ path = NoPath
    /\ DialInit

(* DecideHTTP of the engine (external) for one member at one path. *)
Permits(member, p) ==
    /\ p \in AllowedPaths
    /\ CASE member.kind = "call" -> <<member.method, member.tool>> \in AllowedCalls
         [] member.kind = "operation" ->
                member.fields \subseteq AllowedFields /\ (member.persisted => AllowPersisted)
         [] member.kind = "rest" -> TRUE

Parsed(r) ==
    CASE r.protocol = "mcp" -> parseMCPMessages(r)
      [] r.protocol = "jsonrpc" -> parseJSONRPCRequest(r)
      [] r.protocol = "graphql" -> parseGraphQLRequest(r)
      [] r.protocol = "rest" -> Members(<<[kind |-> "rest"]>>)

(* Mutant: only the first member of a batch is judged. *)
AdmitsFirst(r, p) ==
    /\ p.ok /\ r.query /\ Parsed(r).ok
    /\ Parsed(r).members[1] = Unjudged \/ Permits(Parsed(r).members[1], p.segs)

(* decideHTTP behind the L4 decision.  Members that are MCP responses, and *)
(* the receive stream, are passed over.                                    *)
Admits(r, p) ==
    /\ p.ok /\ r.query /\ Parsed(r).ok
    /\ \A i \in DOMAIN Parsed(r).members :
        Parsed(r).members[i] = Unjudged \/ Permits(Parsed(r).members[i], p.segs)

(* r.URL holds the canonical path even if the request is then refused. *)
Decide ==
    /\ handler = "decide"
    /\ path' = TargetPath(req.target, req.slash)
    /\ handler' = IF Admits(req, path') THEN "admitted" ELSE "refused"
    /\ UNCHANGED <<req, dialVars>>

(* DialSSRF is called.  What will be forwarded is settled, and nothing of  *)
(* it bears on the dial, so it is let go here.                             *)
Forward(c) ==
    /\ handler = "admitted"
    /\ handler' = "forward"
    /\ req' = [protocol |-> "none"]
    /\ path' = NoPath
    /\ Start(c)

Next ==
    \/ Decide
    \/ \E c \in Calls : Forward(c)
    \/ DialNext /\ UNCHANGED <<req, handler, path>>

Spec == Init /\ [][Next]_vars /\ DialFairness

-----------------------------------------------------------------------------
(* Properties *)

(* The variables hold what they are meant to, and only an admitted request *)
(* is dialled for: a refused one reaches neither DNS nor the upstream.     *)
TypeOK ==
    /\ handler \in {"decide", "admitted", "forward", "refused"}
    /\ path.ok \in BOOLEAN
    /\ handler = "admitted" => path.ok
    /\ handler # "forward" => At("idle")
    /\ DialTypeOK

(* The path that was judged is the path the upstream gets.  It is what     *)
(* walking the target means, and it is refused exactly when the walk       *)
(* leaves the root or keeps a dot (canonicalizeL7Path).  It is a fixed     *)
(* point, so an upstream that normalises again resolves the same one, and  *)
(* one that also decodes encoded slashes finds no way up in it.  (Types    *)
(* included.)                                                              *)
PathSettled ==
    /\ TypeOK
    /\ handler \in {"admitted", "refused"} /\ req.target.form \in {"origin", "absolute"} =>
          path = Walk(req.target.segs, req.slash)
    /\ handler = "admitted" =>
          /\ Canonicalize(path.segs, req.slash) = path
          /\ Kept(Flat(path.segs)) = Names(Flat(path.segs))
          /\ req.protocol = "rest" => path.segs \in AllowedPaths

(* Every object with a method in an admitted body is a call the endpoint   *)
(* allows at the path, with its tool on MCP: none hides behind another     *)
(* member, in the shape of a response, or under a version that is not      *)
(* negotiated.                                                             *)
CallsJudged ==
    handler = "admitted" /\ req.protocol \in {"mcp", "jsonrpc"} /\ req.body.kind = "json" =>
        \A item \in ToSet(req.body.items) : item.method # "none" =>
            /\ path.segs \in AllowedPaths
            /\ \E tool \in {item.tool, "none"} :
                /\ <<item.method, tool>> \in AllowedCalls
                /\ item.method = "tools/call" /\ req.protocol = "mcp" => tool = item.tool
            /\ req.protocol = "mcp" /\ ~VersionAllowed(req) =>
                   item.method = "initialize" /\ ~req.body.batch

(* Whatever way a GraphQL operation spreads its fragments, in cycles too,  *)
(* the fields an upstream would resolve at its root are ones the endpoint  *)
(* allows.                                                                 *)
FieldsJudged ==
    handler = "admitted" /\ req.protocol = "graphql" =>
        \A env \in ToSet(req.body.items) : env.query.kind = "document" =>
            \E op \in ToSet(env.query.ops) :
                /\ env.name \in {"", op.name}
                /\ RootFields(env.query, op.sel) \subseteq AllowedFields
=============================================================================
