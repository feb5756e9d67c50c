----------------------------- MODULE MessageGuard -----------------------------
(***************************************************************************)
(* What a request's body asks for, as the policy is told it: the MCP,      *)
(* JSON-RPC and GraphQL readers (proxy/mcp.go, jsonrpc.go, graphql.go).    *)
(*                                                                         *)
(* A body is [kind, batch, items]: kind "none" (no body), "garbled" (too   *)
(* long, unreadable, encoded or not JSON) or "json"; without batch it is   *)
(* one value.  An MCP or JSON-RPC item is                                  *)
(*   sound    a JSON object that says jsonrpc 2.0                          *)
(*   method   "none" when the key is missing, "bad" when it is no string,  *)
(*            "empty" when it is null or has no text, or the method        *)
(*   id       "none", "null", "good" (a string or integer) or "bad"        *)
(*   payload  which of the keys result and error are there                 *)
(*   params   "none", "good", or "bad": not what the method needs (for an  *)
(*            error, not a code and a message)                             *)
(*   tool     params.name, "none" when there is none                       *)
(* A reader answers Refused, or the sequence of members to judge.          *)
(***************************************************************************)
EXTENDS Naturals, Sequences, SequencesExt

CONSTANTS
    Notifications,  \* MCP methods with the prefix notifications/
    RequireParams   \* MCP methods that need an object of params

ASSUME GuardAssumption ==
    /\ {"initialize", "tools/call"} \subseteq RequireParams
    /\ {"initialize", "tools/call"} \cap Notifications = {}

Refused == [ok |-> FALSE, members |-> << >>]
Members(m) == [ok |-> TRUE, members |-> m]

(* Every item is read; one that does not pass refuses them all. *)
ReadAll(Passes(_), Read(_), items) ==
    IF \A i \in DOMAIN items : Passes(items[i])
    THEN Members([i \in DOMAIN items |-> Read(items[i])])
    ELSE Refused

WellFormed(body) == body.kind = "json" /\ (body.batch => body.items # << >>)

-----------------------------------------------------------------------------
(* MCP.  A header is "absent", "single" or "broken" (repeated, empty or    *)
(* nominated by Connection), with the version it names.                    *)

Supported == {"v1", "v2", "v3"}     \* v1 is the legacy fallback
(* validateMCPProtocolVersion. *)
VersionAllowed(req) ==
    LET version == IF req.header = "absent" THEN "v1" ELSE req.version
    IN req.header # "broken" /\ version \in Supported /\ version \in req.versions

(* validateMCPMethodParams: params are an object of the shape the method   *)
(* asks for, and some methods may do without.  The shapes are not told     *)
(* apart.                                                                  *)
validateMCPMethodParams(item) ==
    item.params = "good" \/ (item.params = "none" /\ item.method \notin RequireParams)

(* A message with a method: a notification has no id, any other request    *)
(* has one; neither carries a response.  initialize stands alone, and it   *)
(* names its version in its params and not in the header.                  *)
MCPRequest(req, item) ==
    /\ item.id = (IF item.method \in Notifications THEN "none" ELSE "good")
    /\ item.payload = {}
    /\ item.method = "initialize" => ~req.body.batch
    /\ validateMCPMethodParams(item)
    /\ item.method # "initialize" => VersionAllowed(req)

(* A response: exactly one of result and error; only an error has a null id. *)
MCPResponse(req, item) ==
    /\ item.payload \in {{"result"}, {"error"}}
    /\ item.id = "good" \/ (item.id = "null" /\ item.payload = {"error"})
    /\ item.payload = {"error"} => item.params = "good"
    /\ VersionAllowed(req)

MCPPasses(req, item) ==
    /\ item.sound /\ item.method \notin {"bad", "empty"}
    /\ IF item.method # "none" THEN MCPRequest(req, item) ELSE MCPResponse(req, item)

(* A response and the receive stream are members that are not judged. *)
Unjudged == [kind |-> "response"]
MCPMember(item) ==
    IF item.payload # {} THEN Unjudged
    ELSE [kind |-> "call", method |-> item.method,
          tool |-> IF item.method = "tools/call" THEN item.tool ELSE "none"]

parseMCPMessages(req) ==
    LET Passes(item) == MCPPasses(req, item)
    IN IF req.method = "GET" /\ req.body.kind = "none" /\ req.stream
       THEN IF VersionAllowed(req) THEN Members(<<Unjudged>>) ELSE Refused
       ELSE IF WellFormed(req.body) THEN ReadAll(Passes, MCPMember, req.body.items)
       ELSE Refused

-----------------------------------------------------------------------------
(* JSON-RPC: the methods, whatever their ids and params; an empty one is   *)
(* judged like any other.  The receive stream is judged as the method GET. *)

JSONRPCPasses(item) == item.sound /\ item.payload = {} /\ item.method \notin {"none", "bad"}
JSONRPCMember(item) == [kind |-> "call", method |-> item.method, tool |-> "none"]

parseJSONRPCRequest(req) ==
    IF req.body.kind = "none"
    THEN IF req.method = "GET" /\ req.stream
         THEN Members(<<[kind |-> "call", method |-> "GET", tool |-> "none"]>>)
         ELSE Refused
    ELSE IF WellFormed(req.body) THEN ReadAll(JSONRPCPasses, JSONRPCMember, req.body.items)
    ELSE Refused

-----------------------------------------------------------------------------
(* GraphQL.  An envelope (an item of a body, or the query of a GET) is     *)
(* [sound, query, name, persisted]: name is the operationName, persisted   *)
(* whether a hash or an id comes along.  A query is [kind, ops, frags]:    *)
(* kind "none", "bad" (the parser refuses it) or "document", ops and frags *)
(* sequences of [name, sel].  A selection is                               *)
(* [fields, spreads, inline]: root fields, named spreads in their order,   *)
(* and the inline fragments.  An inline fragment has no further ones here: *)
(* selectionSet merges those into it the way it merges it.                 *)

InlineType == [fields: SUBSET STRING, spreads: Seq(STRING), inline: {<< >>}]
SelectionType == [fields: SUBSET STRING, spreads: Seq(STRING), inline: Seq(InlineType)]
DefinitionType == [name: STRING, sel: SelectionType]
QueryType == [kind: {"none", "bad", "document"}, ops: Seq(DefinitionType),
              frags: Seq(DefinitionType)]
EnvelopeType == [sound: BOOLEAN, query: QueryType, name: STRING, persisted: BOOLEAN]

(* selectionSet gives an inline fragment's fields and spreads to the       *)
(* selection it stands in; nested selections are read and dropped.         *)
Merged(sel) ==
    [fields |-> sel.fields \cup UNION {part.fields : part \in ToSet(sel.inline)},
     spreads |-> sel.spreads \o FlattenSeq([i \in DOMAIN sel.inline |-> sel.inline[i].spreads])]

(* parser.fragments: of two definitions of a name the last one stays. *)
FragmentMap(frags) ==
    [n \in {frags[i].name : i \in DOMAIN frags} |->
        Merged(frags[SelectLastInSeq(frags, LAMBDA f : f.name = n)].sel)]

(* visit is called for the spreads in their order; what it has seen grows. *)
Follow(visit, seen, spreads) ==
    LET after[j \in 0..Len(spreads)] ==
            IF j = 0 THEN seen ELSE visit[spreads[j]][after[j - 1]]
    IN after[Len(spreads)]

(* The closure visit of expandRootFields: the names visited once the       *)
(* spreads are followed in their order, depth first, each at most once.    *)
Visited(fragments, spreads) ==
    LET names == ToSet(spreads) \cup UNION {ToSet(fragments[n].spreads) : n \in DOMAIN fragments}
        visit[n \in names] ==
            [seen \in SUBSET names |->
                IF n \in seen \/ n \notin DOMAIN fragments THEN seen \cup {n}
                ELSE Follow(visit, seen \cup {n}, fragments[n].spreads)]
    IN Follow(visit, {}, spreads)

(* Mutant: only the spreads of the operation itself are followed. *)
ExpandOneLevel(doc, sel) ==
    LET fragments == FragmentMap(doc.frags)
    IN Merged(sel).fields
           \cup UNION {fragments[n].fields : n \in ToSet(Merged(sel).spreads) \cap DOMAIN fragments}

expandRootFields(doc, sel) ==
    LET fragments == FragmentMap(doc.frags)
        entered == Visited(fragments, Merged(sel).spreads) \cap DOMAIN fragments
    IN Merged(sel).fields \cup UNION {fragments[n].fields : n \in entered}

(* The operation that classifyGraphQLEnvelopes picks, 0 for none. *)
Selected(env) ==
    IF env.name # ""
    THEN SelectInSeq(env.query.ops, LAMBDA op : op.name = env.name)
    ELSE IF Len(env.query.ops) = 1 THEN 1 ELSE 0

EnvelopePasses(env) ==
    /\ env.sound /\ env.query.kind # "bad"
    /\ IF env.query.kind = "none" THEN env.persisted ELSE Selected(env) # 0

Operation(env) ==
    [kind |-> "operation", persisted |-> env.persisted,
     fields |-> IF env.query.kind = "none" THEN {}
                ELSE expandRootFields(env.query, env.query.ops[Selected(env)].sel)]

(* A GET carries its envelope in the query, another method must be POST. *)
parseGraphQLRequest(req) ==
    IF req.method \in {"GET", "POST"} /\ WellFormed(req.body)
    THEN ReadAll(EnvelopePasses, Operation, req.body.items)
    ELSE Refused

(* The reference: a field is a root field of a selection if it stands in   *)
(* it or in a fragment that every set closed under spreading contains.     *)
RootFields(doc, sel) ==
    LET fragments == FragmentMap(doc.frags)
        names == DOMAIN fragments
        Spread(part) == ToSet(part.spreads) \cap names
        closed == {S \in SUBSET names :
                      /\ Spread(Merged(sel)) \subseteq S
                      /\ \A n \in S : Spread(fragments[n]) \subseteq S}
        reached == {n \in names : \A S \in closed : n \in S}
    IN Merged(sel).fields \cup UNION {fragments[n].fields : n \in reached}
=============================================================================
