------------------------------ MODULE MCOutbound ------------------------------
EXTENDS Outbound

Plain(p) == Written(<<p>>)
Text == {"", ".", "..", "a"}

(* Segments: plain text; encoded dots; parameters, with an encoded slash    *)
(* in one; encoded slashes between names and around dots; broken octets.   *)
Segments ==
    {Plain(p) : p \in Text \cup {"b"}}
        \cup {[Plain("..") EXCEPT !.coded = TRUE], [Plain("..") EXCEPT !.param = "plain"],
              [Plain("a") EXCEPT !.param = "slash"], [Plain("a") EXCEPT !.bad = TRUE],
              Written(<<"a", "b">>), Written(<<"a", "..">>), Written(<<"", "">>)}
Targets ==
    [form: {"origin", "absolute"}, segs: UNION {[1..n -> Segments] : n \in 1..3}]
        \cup [form: {"origin"}, segs: [1..4 -> Segments]]
        \cup [form: {"bare", "star", "fragment"}, segs: {<<Empty>>}]

Root == [form |-> "origin", segs |-> <<Plain("a")>>]
Elsewhere == [form |-> "origin", segs |-> <<Plain("b")>>]
NoBody == [kind |-> "none", batch |-> FALSE, items |-> << >>]
Garbled == [kind |-> "garbled", batch |-> FALSE, items |-> << >>]
Bodies(items) ==
    {NoBody, Garbled}
        \cup [kind: {"json"}, batch: {FALSE}, items: [1..1 -> items]]
        \cup [kind: {"json"}, batch: {TRUE}, items: UNION {[1..n -> items] : n \in 0..2}]

Request(protocols, targets, methods, headers, bodies) ==
    [protocol: protocols, slash: BOOLEAN, target: targets, method: methods, query: BOOLEAN,
     stream: {FALSE}, header: headers, version: {"v3"}, versions: {{"v3"}}, body: bodies]

(* MCP and JSON-RPC items: calls with and without an allowed tool,         *)
(* notifications, handshakes, responses, and mixtures that are refused.    *)
Item == [sound |-> TRUE, method |-> "tools/call", id |-> "good", payload |-> {},
         params |-> "good", tool |-> "t"]
Items ==
    {Item, [Item EXCEPT !.tool = "u"], [Item EXCEPT !.sound = FALSE], [Item EXCEPT !.id = "none"],
     [Item EXCEPT !.payload = {"result"}], [Item EXCEPT !.params = "none"],
     [Item EXCEPT !.method = "bad"], [Item EXCEPT !.method = "empty"], [Item EXCEPT !.method = "ping", !.params = "none"],
     [Item EXCEPT !.method = "ping", !.params = "bad"], [Item EXCEPT !.method = "list"],
     [Item EXCEPT !.method = "initialize"],
     [Item EXCEPT !.method = "notice", !.id = "none"], [Item EXCEPT !.method = "notice"]}
        \cup {[Item EXCEPT !.method = "none", !.payload = p, !.id = i] :
                  p \in SUBSET {"result", "error"}, i \in {"good", "null"}}
Calling ==
    {[r EXCEPT !.stream = s, !.versions = v] :
        r \in {q \in Request({"mcp", "jsonrpc"}, {Root, Elsewhere}, {"GET", "POST"},
                             {"absent", "single", "broken"}, Bodies(Items)) : q.query /\ q.slash},
        s \in BOOLEAN, v \in {{"v3"}, {"v1", "v2"}}}

(* GraphQL documents: an operation and up to three fragments that spread   *)
(* one another in every way; inline fragments, names and two operations.   *)
Names3 == {"A", "B", "C"}
Sel(fields, spreads) == [fields |-> fields, spreads |-> spreads, inline |-> << >>]
Orders == {<< >>} \cup [1..1 -> Names3] \cup {<<"A", "B">>, <<"B", "C">>, <<"C", "A">>}
Document(ops, frags) == [kind |-> "document", ops |-> ops, frags |-> frags]
Op(name, sel) == [name |-> name, sel |-> sel]
Graphs3 ==
    {Document(<<Op("q", Sel({"f"}, o))>>,
              <<Op("A", Sel({"fA"}, a)), Op("B", Sel({"fB"}, b)), Op(last, Sel({"fC"}, c))>>) :
        o \in Orders, a \in Orders, b \in Orders, c \in Orders, last \in {"A", "C"}}
Inline == [fields |-> {"f"}, spreads |-> << >>, inline |-> <<Sel({"fA"}, <<"C">>)>>]
Shapes ==
    {[kind |-> k, ops |-> << >>, frags |-> << >>] : k \in {"none", "bad"}}
        \cup {Document(<<Op("q", Inline), Op("p", Sel({"fC"}, << >>))>>, <<Op("C", Sel({f}, << >>))>>) :
                  f \in {"fB", "fC"}}
Envelope(queries) ==
    [sound: {TRUE}, query: queries, name: {"", "q", "p"}, persisted: BOOLEAN]
Asking ==
    {r \in Request({"graphql"}, {Root}, {"GET", "POST", "PUT"}, {"absent"},
                   Bodies(Envelope(Shapes) \cup {[sound |-> FALSE, query |-> q, name |-> "",
                                                   persisted |-> TRUE] : q \in Shapes})) :
        r.query /\ r.slash}
        \cup {r \in Request({"graphql"}, {Root}, {"POST"}, {"absent"},
                            [kind: {"json"}, batch: {FALSE},
                             items: [1..1 -> [sound: {TRUE}, query: Graphs3, name: {"q"},
                                              persisted: {FALSE}]]]) : r.query /\ r.slash}

MCRequests ==
    {r \in Request({"rest"}, Targets, {"GET"}, {"absent"}, {NoBody}) : r.query \/ r.target = Root} \cup Calling \cup Asking
MCAllowedPaths == {<<Plain("a")>>, <<Empty>>, <<Written(<<"a", "b">>)>>}
MCAllowedCalls ==
    {<<"tools/call", "t">>, <<"ping", "none">>, <<"initialize", "none">>, <<"notice", "none">>}
MCAllowedFields == {"f", "fA", "fB"}

(* Dials: a name and literals of each kind, lists that allow what is       *)
(* private, blocked or mapped, and exemptions from a proxy.  p1, in and ll *)
(* are IPv4 addresses, p2 and ll6 are IPv6.                                *)
Addr(b) == [base |-> b, mapped |-> FALSE, zoned |-> FALSE]
Mapped(b) == [Addr(b) EXCEPT !.mapped = TRUE]
Zoned(a) == [a EXCEPT !.zoned = TRUE]
MCKind == [p1 |-> "public", p2 |-> "public", in |-> "private", ll |-> "blocked", ll6 |-> "blocked"]
MCAnswers == {<<Addr("p1")>>, <<Mapped("in")>>, <<Mapped("ll")>>, <<Zoned(Addr("ll6"))>>,
              <<Addr("p1"), Addr("p2")>>, <<Mapped("in"), Mapped("p1")>>, <<Zoned(Addr("ll6")), Addr("p1")>>,
              <<Addr("p2"), Addr("in"), Addr("p1")>>}
Over(bs) == [bases |-> bs, mapped |-> FALSE]
Lists ==
    {[listed |-> FALSE, valid |-> TRUE, nets |-> {}], [listed |-> TRUE, valid |-> FALSE, nets |-> {}]}
        \cup [listed: {TRUE}, valid: {TRUE},
              nets: {{Over({"in", "p1"})}, {Over({"ll", "ll6"})}, {[Over({"in"}) EXCEPT !.mapped = TRUE]}}]
Exempt(kind, bs, port) ==
    [kind |-> kind, covers |-> TRUE, ip |-> Addr("p1"), net |-> Over(bs), port |-> port]
Exemptions ==
    {<< >>, <<Exempt("all", {}, 0)>>, <<Exempt("domain", {}, 80), Exempt("ip", {}, 0)>>,
     <<Exempt("ip", {}, 80)>>, <<Exempt("cidr", {"in"}, 0), Exempt("cidr", {"p1", "p2"}, 0)>>}

(* The literals of ZonesPublic: zones on public and on mapped addresses. *)
Hosts == {<< >>, <<Addr("p1")>>, <<Mapped("in")>>, <<Zoned(Addr("p2"))>>, <<Zoned(Mapped("ll"))>>}
MCCalls ==
    [host: Hosts, allowed: Lists, proxy: {"none"}, byName: {FALSE}, port: {80}, noProxy: {<< >>}]
        \cup [host: Hosts, allowed: Lists, proxy: {"http"}, byName: BOOLEAN, port: {443},
              noProxy: Exemptions]
        \cup [host: {<< >>}, allowed: Lists, proxy: {"https"}, byName: {FALSE}, port: {0, 80},
              noProxy: Exemptions]

(* Any literal, a link-local one with its zone included. *)
MCZonedCalls ==
    [host: Hosts \cup {<<Addr("ll6")>>, <<Zoned(Addr("ll6"))>>}, allowed: Lists, proxy: {"none"},
     byName: {FALSE}, port: {80}, noProxy: {<< >>}]
MCSimpleRequests ==
    {r \in Request({"rest"}, {Root}, {"GET"}, {"absent"}, {NoBody}) : r.query}
=============================================================================
