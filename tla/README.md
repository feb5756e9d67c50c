# TLA+ models of whaleshell-proxy

whaleshell-proxy is the egress sidecar of a sandbox: the only way out for an
agent's traffic. It decides every connection and every HTTP request against a
policy document that may be replaced at any moment, terminates TLS where a rule
asks for inspection, runs requests through middleware, and puts real credentials
in the place of the markers the agent was given. This directory holds TLA+
models of that program, the TLC configurations that check them on small
instances, and TLAPS proofs of the results that matter most.

Source paths below are relative to `src/`.

## 1. The system

| Component | State | Operations | Hard because |
|---|---|---|---|
| Egress server (`proxy/proxy.go`, `proxy/terminate.go`) | `mu`, `doc`, `policyGen`, `activeTunnels`, `ca`, `secrets`, grants; one goroutine per connection, three per raw stream | `Apply`, `SetCA`, `handleCONNECT`, `trackTunnel`, raw relay, `mitmHTTPS` | `Decide` asks the live engine without `mu`; a stream is registered several steps after its verdict; `Apply` closes client sockets only; two mutexes |
| Policy watcher (`proxy/watch.go`) | `lastHash`, `failClosed` | one loop: read, parse, apply, report, or clear | file, gateway and other callers of `Apply` move between any two steps; the hash of a bad file is remembered |
| Interception CA (`proxy/mitm.go`) | `leafs`, `lru`, `inFlight` under `c.mu` | `Leaf` | the lock is released during generation; LRU at its bound; certificates age |
| Request pipeline (`proxy/proxy.go`, `terminate.go`, `secrets.go`, `token_grant.go`) | the secrets a stream captured, the request in hand | `decideHTTP`, `runMiddleware`, token grants, marker substitution, write | the engine is asked several times per request; secrets, grants and policy are read at different times |
| Token grant runtime (`proxy/token_grant_runtime.go`) | `cache` under a mutex | `ResolveTokenGrant` | exchanges run side by side and are stored in any order; lifetimes at the margin |
| Request middleware (`proxy/middleware/`) | accumulated decision of one request | `FromEnviron`, `Pipeline.Run`, `Evaluate`, the merge in `runMiddleware` | three kinds of edits collected apart and carried out later; fail-open and fail-closed stages |
| policy.local advisor (`proxy/policy_local.go`) | `proposals`, `denials` | submit, get, wait | record shared by connections, refreshed from a remote gateway, lost at restart, compared with a moving generation |
| Response middleware (`proxy/middleware/grpc.go`, `stage.go`) | the response being edited, the units answered so far | `RunResponse`, `EvaluateResponse`, `runMiddlewareResponse` | a stage edits in place and may fail or block after any answer; bodies in units; trailers |
| WebSocket relay (`proxy/terminate.go`, `wsframe.go`) | fragments, one middleware session per stage, two goroutines | sessions, upgrade, `relayWebsocket` | reassembly between control frames; the sessions are closed under a goroutine that uses them; two writers on one socket; missing timeouts |
| Paths and bodies (`proxy/path.go`, `query.go`, `mcp.go`, `jsonrpc.go`, `graphql.go`) | none | `canonicalizeL7Path`, `parseMCPMessages`, `parseJSONRPCRequest`, `parseGraphQLRequest` | the policy must see what the upstream will see: dot segments, encoded slashes, batches, fragments in cycles |
| SSRF-safe dialling (`proxy/ssrf.go`, `no_proxy.go`) | one connection, its deadline, a callback on the caller's context | `ResolveAndFilter`, `DialSSRF`, `dialViaHTTPProxy` | DNS answers as it likes; a cancellation can fire while the tunnel is handed over; a dozen error exits |
| Audit fan-out, inference adapter, caller identification, configuration | see section 7 | | |

How they interact. The watcher and the advisor's readers meet in the server:
the watcher calls `Apply`, which swaps the engine's document, bumps `policyGen`
and closes every stream; the advisor compares `policyGen` with the one it
recorded at an approval. A CONNECT handler that must inspect calls `mitmHTTPS`,
which calls `Leaf` for its certificate and then serves requests through the
request pipeline; absolute-form requests go through the same pipeline without a
stream. The pipeline calls the middleware and the token grant runtime. Before
that `decideHTTP` makes the path canonical and reads the body's messages, and
after it `DialSSRF` finds the upstream; the response comes back through the same
stages. A request that upgrades to a WebSocket turns the stream into a relay,
whose messages go through sessions of the same stages, the same engine and the
same credentials. Every denial passes through `logAudit` into the advisor's list.

What makes each part correct:

- server: no stream outlives the policy that admitted it; the registry that
  `Apply` closes streams from misses none; `Apply` returns; closed streams end;
- watcher: what it believes is what is enforced; a policy that the gateway has
  not acknowledged does not stay; it converges to the file;
- CA: one generation per host at a time, map and list agree, nothing expired is
  presented, nobody waits for ever;
- pipeline: credentials leave only where a policy binds them, every message was
  permitted, a granted token serves one request;
- token cache: nothing expired is served;
- middleware: the first deny wins, and the merged decision is what the stages did;
  on the way back the first block wins, no byte is lost between units, and
  framing trailers stay;
- WebSocket relay: what goes upstream is the client's whole message, inspected,
  judged and rewritten in that order; everything ends;
- paths and bodies: the path judged is the path sent, and no call or root field
  escapes judgement;
- dialling: only approved addresses, no way around the proxy, no leaked,
  hanging or half-cancelled connection;
- advisor: decisions reported are the gateway's, `policy_reloaded` has a reason,
  every request is answered.

## 2. Modules

| Module | Models | Extended by |
|---|---|---|
| `PolicyGate` | abstract: one policy in force, streams admitted by it, a change of policy ends them all | instantiated in `EgressServer` |
| `EgressServer` | `Apply`, `SetCA`, `handleCONNECT`, `trackTunnel`, the raw relay's two copies and its lifetime timer, `mitmHTTPS`'s loop, `logAudit` and `recordDenial` | `MCEgressServer`, `EgressServerProofs` |
| `PolicyWatch` | `WatchPolicy`, `reportPolicyStatus`; environment: the file, the gateway, another caller of `Apply` | `MCPolicyWatch`, `PolicyWatchProofs` |
| `LeafCache` | `MitmCA.Leaf` and the clock | `MCLeafCache`, `LeafCacheProofs` |
| `RequestPipeline` | `handleAbsoluteHTTP` and the body of `mitmHTTPS`'s loop; `Apply`, `SetSecrets`, `SetTokenGrants`, `SetTokenGrantResolver` as concurrent steps | `MCRequestPipeline`, `MCRequestTokens`, `RequestPipelineProofs` |
| `TokenGrantCache` | `ResolveTokenGrant` and the clock | `MCTokenGrantCache`, `MCRequestTokens`, `RequestPipelineProofs` |
| `MiddlewareChain` | `FromEnviron`, `Pipeline.Run`, `Evaluate` of the remote and gRPC stages, the merge in `runMiddleware` | `ResponseChain` |
| `ResponseChain` | `runMiddlewareResponse`, `RunResponse`, `EvaluateResponse` with its units and trailers, after a request of `MiddlewareChain` | `MCResponseChain`, `ExchangeProofs` |
| `WsRelay` | WebSocket sessions, the upgrade, `relayWebsocket`'s goroutines, `wsframe.go`, `classifyGraphQLWS`; a concurrent `Apply` | `MCWsRelay`, `WsRelayProofs` |
| `PathCanon` | `canonicalizeL7Path`, `requestTargetPath`; `Walk` is the reference | `Outbound`, `OutboundProofs` |
| `MessageGuard` | the MCP, JSON-RPC and GraphQL readers; `RootFields` is the reference for fragments | `Outbound`, `OutboundProofs` |
| `UpstreamDial` | `ResolveAndFilter`, `DialSSRF`, `upstreamProxyURL`, `noProxyAddresses`, `dialViaHTTPProxy` and the context's callback | `Outbound` |
| `Outbound` | `decideHTTP` from the target to the verdict, then the dial of `handleAbsoluteHTTP`: the composition of the three above | `MCOutbound`, `OutboundProofs` |
| `PolicyAdvisor` | `policyLocalSubmit`, `policyLocalGet`, `policyLocalWait`, `persistProposal`, `refreshProposalFromGateway`, `policyReloaded`, a restart | `MCPolicyAdvisor`, `PolicyAdvisorProofs` |

`PROJECT.json` maps every definition to its lines. Definitions preceded by a
comment "Mutant: ..." are plausible bugs of the definition after them; they
take no part in any specification and exist to show that each property can
fail.

### EgressServer

A connection is a slot that serves one CONNECT after another; `pc` says where
its handler, and later the goroutine it leaves running, is. Steps are cut where
the code gives up a lock, blocks, or reads shared state: `Snapshot` (read of
`ca` and `policyGen` under `mu`), `Decide` (engine, no lock), `Dial`,
`HijackError` and `TrackTunnel`, `TrackTunnelStale` (the comparison of
generations under `mu`), `Dispatch`, the peek at the first bytes, then either
the raw copies (`UpRead`, `UpWrite`, `DownRead`, `DownWrite`, `RawExpire`,
`RawJoin`) or the terminated loop (`MitmStart` to `Reply`, `RelayEnd`), and the
common end (`CloseSockets`, `ReleaseTunnel`). `Apply` is four steps, because
readers of the engine can run between them: `ApplyInstall` takes `mu` and swaps
the document, `ApplyClose` closes one stream at a time, `ApplyClosed` finishes,
`ApplyWarnLock` and `ApplyWarnUnlock` log TLS warnings under `auditMu` with `mu`
still held. `held` is a history of who owns a registration.

A verdict is one of six kinds of rule (`deny`, `credentialed`, `l7`, `l7skip`,
`l4`, `raw`): all that the handler's branches tell apart. The engine's matching
is a constant function of document and host.

Not in the model: the 503 for a server without an engine, `/healthz` and
`/ca.pem`, `Serve` and its shutdown.

### PolicyWatch

`pc` follows one tick: `wait`, `load`, `failed` (the policy is cleared, the
report of the failure is still to come), `applied` (the report of success is on
its way). A content of the file stands for its SHA-256; `Parse` and `Rejected`
say which contents parse and which documents the engine refuses. `owner` records
whose `Apply` came last. `Apply` is one step: its inside is in `EgressServer`.

### LeafCache

A certificate is its `NotAfter`. `Hit` and `Miss` are the two outcomes of the
first critical section (`Miss` joins a call in flight or starts one), `Store` is
the second one, with eviction, the map and list updates and the wake-up of
waiters. `Slow` bounds how long a call and the handshake after it take compared
to the life of a certificate; `CacheAssumption` says that this is shorter than
the renewal margin (one hour in the code).

### RequestPipeline

Of a request the model keeps the sequence of messages that the policy judges
(one for REST, several for a JSON-RPC, MCP or GraphQL batch) and, by place, the
keys of the credential markers in it: in head and query values, in the names of
query parameters, percent-encoded, in the body. The places differ because the
code's scanner (`PlaceholderKeysInRequest`) and its rewriter do not look at the
same ones. `store` is what the stream captured when it was accepted, `work` what
it is for this request with granted tokens added and unbound keys filtered out,
`sent` what was substituted. `since` (documents in force since the request was
read) and `granted` are histories. Middleware may replace the request's markers
by those of any other request.

### TokenGrantCache

A token is the time it was issued and the lifetime its endpoint states, 0 if it
states none. `asked` is the local variable `now`, read before the cache is
looked up. The SPIFFE, gateway and OAuth calls are one exchange that yields a
lifetime or fails. `GrantAssumption` asks that a stated lifetime is at least the
one second that every token is cached, which positive whole seconds are. The
pipeline does not see the cache, only a token or none; `MCRequestTokens` puts
both in one run, in which either the one or the other takes steps.

### MiddlewareChain

One request per behaviour. A value written is known by the stage that wrote it.
A stage denies, fails, or allows with a map of headers to set, an ordered list of
mutations and a set of removals (`Allow`): any such answer of the remote stage,
the three forms a gRPC stage derives from one list; `view` is the map shown to the next
stage, `acc`, `muts` and `removed` the accumulated decision, `Merged` what
`runMiddleware` makes of them. The loops over mutations are recursive functions:
`SeenAfter` for the map in `Pipeline.Run`, `Edited` for an `http.Header`, of the
request as of the response. Go's random map order is the choice of `pick`.
`intended` and `touched` are histories.

### ResponseChain

The request side is `MiddlewareChain`, whose stages the response then meets
again; only gRPC stages look at it. `rpc` is where `runMiddlewareResponse` is:
`buffer`, `stage`, `body`, `trailers`, `delivered` or `denied`. A byte is known
by its writer, so a lost, repeated or moved one shows. Every answer of a stage is
one step (`Preflight`, `BodyUnit`, `Trailers`), and before each of them it may
fail (`ResponseFailure`: connection, timeout, nonsense) or block. `Limit` and
`ChunkSize` are the two unit sizes. `base`, `answers` and `settled` are
histories. A request that is denied has no response; a forwarded one starts it
with `Respond`, which also forgets the request's working state, of which the
response side reads nothing but the stages.

### WsRelay

Three goroutines: `main` (sessions, upgrade, waiting, deferred closing), `up`
(client to upstream) and `down`. Of the frame format the model keeps opcode, FIN
and payload, a sequence of symbols, one of which is a credential marker. `Accept`
is `wsFragmentBuffer.accept`. A message in hand goes through `Inspect` and the
stage's answer per session, `Decide` with the engine in force at that moment,
`Rewrite`, and `UpWrite`. Frames are written to the client in two parts, as
`writeWSFrame` does, so that interleaved writers can be seen in `wire`. `Apply`
replaces the document and closes the client's socket; frames already buffered
can still be read. `since`, `frames`, `wire` and the message's `trail` are
histories.

### PathCanon, MessageGuard, UpstreamDial, Outbound

`PathCanon` and `MessageGuard` are operators. A path is a sequence of segments,
a segment its parts between encoded slashes plus what makes the code refuse it;
octets are left out. `Canonicalize` is the code's stack (`Folded`, a turn of the
loop at a time by `Push`). `Walk` says what a path means as a walk through
directories: how deep it is after each segment, and for each level at the end the
segment that entered it for good (`Entered`); it has no stack. A body is a
sequence of items with the attributes the readers branch on. `Visited` is the
recursive closure of `expandRootFields`, depth first with one set of names seen,
and `Follow` its loop over the spreads; `RootFields` takes the least set of names
closed under spreading instead.

`UpstreamDial` is a dialling goroutine (`dial.pc`), the caller's context, and
the callback of `context.AfterFunc` (`hook`), which runs in a goroutine of its
own and closes the socket. An address is a base with a range, and the two ways
in which Go's `netip` tells spellings of it apart: mapped into IPv6, and with a
zone. `Unmap` undoes the first, and the second with it; `AddrFromSlice`, through
which every answer of DNS goes, keeps no zone; `PrefixContains` is false of any
address that still has one. Entries of NO_PROXY for one address compare it zone
and all, those for a prefix ask `PrefixContains`. The loops that keep approved and exempt addresses are given by what they
keep and in which order: `SortedBy` puts at place n the member with n - 1 members
before it. `Outbound` puts the three together: `Decide`, then `Forward`, then the
steps of the dial. At `Forward` the request is let go, because nothing of it
bears on the dial; this keeps the product of requests and dials out of the state
space and loses no behaviour of either.

### PolicyAdvisor

Every read and write of `Server.proposals` under `mu` is a step, and so are the
gateway's answer and its arrival: an answer can be overtaken by a later decision
or by another connection. `Restart` loses the records and keeps the gateway's.
`approved`, `applied` and `since` are histories. Parsing of proposed rules is
left out.

## 3. Runs

| Run | Question | Bounds |
|---|---|---|
| `egress_safety` | Do streams stay bound to the policy in force, is the registry exact, are in-flight requests of live streams allowed, does the server implement `PolicyGate`? | 2 connections, 2 documents that judge each of 2 hosts differently, 2 applications, symmetry on connections (no liveness here) |
| `egress_liveness` | Does `Apply` return; do streams end whose client socket was closed, and raw ones in any case? | 1 connection, 3 documents, a local host, 3 applications |
| `watch_policy` | Belief, acknowledgement, convergence | 5 contents (two with a revision, one without, one that does not parse, one refused), 3 writes, 2 outages, 1 foreign `Apply` |
| `leaf` | Map and list, single flight, expiry, return | 2 callers, 3 hosts, 2 slots, clock past two renewals |
| `pipeline_safety` | Binding, permission, freshness of tokens; are cached tokens alive when asked for? | an absolute-form and a terminated flow, 2 documents, 2 hosts, 2 keys, 6 requests, 2 changes; 2 requests to the cache, lifetimes none, below and above the margin, clock past the longest |
| `pipeline_markers` | expected violation, see section 6 | 1 flow, 1 change |
| `grant_expiry` | expected violation, see section 6 | a grant with a cache time of its own |
| `exchange` | Request: first deny, order of edits, inspected is sent. Response: first block, body as answered, trailers, length | every pipeline of up to 2 gRPC stages, with and without the remote stage and refusals; one header in two spellings, up to 2 client values, 1 mutation per answer; responses of 0 to 4 bytes, units of 2, a buffer of 3, 2 trailers, 6 mutation lists |
| `ws` | Reassembly, inspection, permission, credentials, sessions, whole frames, end of relay and goroutines | GraphQL with two stages, text with one, text with none, and different bindings; messages of up to 2 symbols, 3 frames of the client, 1 of the upstream, 1 application |
| `outbound` | Paths, calls and fields judged as an upstream reads them; addresses, proxy, cancellation, leaks, return of the dial | every path of up to 4 of 12 segments, batches of up to 2 of 22 items, every way 3 fragments spread each other along 7 orders, 5 hosts (zones on public and mapped literals only), 8 answers of DNS, mapped and zoned ones among them, 5 lists, 5 sets of exemptions |
| `outbound_zones` | expected violation, see section 6 | as `outbound`, one request, no proxy, and a link-local literal with and without its zone |
| `advisor` | Genuine decisions, reasons, waiting, return | 2 connections, 1 proposal, 2 documents, 2 applications, 1 restart |

Why the bounds are enough to be interesting. The races of the server are
between one stream and one `Apply`; a second application in flight makes a
snapshot stale by more than one generation, and a second connection makes
`Apply` close several streams and contend for `auditMu`. Connections share
nothing else. The server results do not rest on the bounds at all: they are
proved for every instance (section 5). In the leaf cache three hosts and two
slots force eviction, and two callers are a generator and a waiter, on the same
or on different hosts. In the watcher three writes are enough for good, bad,
good again. Two changes in the pipeline allow a policy and a secret, or two
policies, to change under one request. In the advisor the generation test needs
an application before the approval is seen (generation 0 does not count) and
one after. In the relay three frames are a fragmented message with a control
frame in it, or a message and the next; two stages are an order. Four segments
are enough for two names, a step up and a tail, and a cycle of three fragments
is entered from outside and from within. A body of four bytes is beyond the
buffer, of three it has a short last unit, of two it is exactly one. In the
chain three stages realise every order of two edits of one header, in
any style.

Bounds are named: `MaxGen`, `MaxWrites`, `MaxOutages`, `MaxForeign`, `MaxNow`,
`MaxChanges`, `MaxRestarts`, `MaxClient`, `MaxGrpc`, `MaxList`, `MaxFrames`,
`MaxDown`, `MaxApply`. `DenialsMax`, `MaxCached`, `LeafTTL`, `RenewBefore`,
`Margin`, `MinTTL`, `MaxMessage`, `MaxBuffer`, `Limit` and `ChunkSize` are the code's own
constants, scaled down in proportion.

Deadlock is checked except where the system may stop: `WatchPolicy` returns
when its context ends, and a behaviour of `ResponseChain` or `Outbound` ends
with its request.

Every property of a passing run has a mutant in `PROJECT.json`: a changed
definition under which TLC finds that property violated.

## 4. Fairness

- `EgressServer`: runnable goroutines run (weak fairness). Steps that take `mu`
  or `auditMu` are strongly fair, because Go's mutexes are starvation-free.
  Reads and writes on a socket the proxy itself has closed end; `ReadRequest`
  and the response have deadlines in the code; the raw lifetime timer fires.
  Nothing is assumed of backends: a write to one may block as long as its socket
  is open, and both properties about the end of streams carry the proviso
  `[]<>~BlockedOnBackend(c)`. It is needed: `Apply` closes the client socket
  only.
- `PolicyWatch`: `WF(Tick)`, the ticker fires and the goroutine runs.
- `LeafCache`: a caller whose step is possible takes it; generation is local
  computation.
- `WsRelay`: runnable goroutines run, and reads end: the deadlines set for the
  last request and its response are absolute and never cleared. A write is sure
  to end only when its socket is closed. Nothing is assumed of peers and stages;
  `RelayReturns` and `GoroutinesEnd`, the liveness parts of `RelayEnds`, carry
  the proviso that no stage keeps a
  message for ever and, for the first, that not both peers stop reading. It is
  needed: messages go to stages without a timeout, frames without a write
  deadline.
- `UpstreamDial`: lookups and connects have timeouts of their own, I/O with a
  deadline or on a closed socket returns, and a started callback runs. Nothing is
  assumed of the proxy.
- `PolicyAdvisor`: steps of a request (calls to the gateway have timeouts) and
  the passing of its deadline.

## 5. Proofs

TLAPS proves the following for every value of the constants that satisfies the
named assumption of the module (types of the parameters, distinctness of the
"not set" values, and what sections 2 and 3 say of margins).

**EgressServer** (`EgressServerProofs`): `TypeCorrect`,
`StreamsAlwaysAuthorised`, `RegistryAlwaysExact`, `InFlightAlwaysCurrent`,
`ServerImplementsGate`. `StreamsAuthorised` is not inductive: it says nothing
of a handler between its verdict and its registration. `IInv` adds

- `DecisionCurrent`: if no policy was applied since the handler's snapshot, the
  document in the engine is the one that decided. This is why comparing
  generations in `trackTunnel` is enough although the decision reads the engine
  without `mu`: the snapshot comes first, and `policyGen` moves with the engine;
- `RegisteredAuthorised`: the same of registered streams, outside `Apply`;
- `TunnelLocal`, `SocketsOwned`: who owns a registration and a socket at each
  step, and that a raw relay runs only under a rule that allows it;
- `WarnAfterClose`: `Apply` logs after the last stream is closed, so releasing
  `mu` there re-establishes the rest.

The refinement maps `policy` to the engine's document and `admitted` to the
streams with an open client socket, none while `Apply` holds `mu`: `ApplyInstall`
is `Install`, `TrackTunnel` is `Admit`, closing a client socket is `Drop`, all
else stutters (`GateStep`, one step per action).

**PolicyWatch** (`PolicyWatchProofs`): `TypeCorrect`, `BeliefAlwaysCoherent` and
`AlwaysAckedOrClosed`, with `TickCoherent` for what holds within a tick.

**LeafCache** (`LeafCacheProofs`): `AlwaysSingleFlight`, from the ownership of
`inFlight` entries (`FInv`), `MapAlwaysMatchesList` and `LeafNeverExpired`.
`CInv` adds `Listed` (the list has no host twice and holds the hosts of the map),
`Timely` (no caller asked longer than `Slow` ago) and `Lasting` (what a caller
stores or returns outlives its call).
That a host stands in the list only once is what makes removing one element of it
enough, and that a host in flight is not cached is why adding it does not list it
twice. `NeverExpired` rests on `CacheAssumption`: a call that waits for another
and presents its result spends at most twice `Slow`, which is below a
certificate's life, and one that hits spends at most `RenewBefore`.

**RequestPipeline** (`RequestPipelineProofs`): `TypeCorrect`,
`CredentialsAlwaysBound`, `MessagesAlwaysPermitted`, `GrantsAlwaysFresh`. `PInv` says what has been decided
so far (`Progress`: L4, the bound keys, the messages before `at`), that the
history covers the present (`InHand`), and where every value in the working
store comes from (`Origins`). A flow's progress survives changes of policy
because the history only grows (`ProgressKept`).

**TokenGrantCache** (also `RequestPipelineProofs`, after the pipeline that calls
it): `GrantTypeCorrect`, `TokensServedAlive`. The clock is read before the exchange, so an entry never outlives its token (`EntriesHonest`,
by the lemma `TTLBounded`); a hit compares that entry with the clock the request
read.

**Outbound** (`OutboundProofs`): `AlwaysApprovedOnly`, `ProxyAlwaysKept`,
`ConnectionAlwaysOwned`, `CallsAlwaysJudged`, `FieldsAlwaysJudged`,
`PathAlwaysSettled`, for every request, call, answer of DNS and list of
exemptions, and the two theorems about algorithms that the last two rest on:
`ExpandedExactly` (`expandRootFields` equals `RootFields`) and `CanonicalWalk`
(`Canonicalize` equals `Walk`). `AlwaysApprovedOnly` has a hypothesis,
`ZonesPublic`: no call has a literal of a private or blocked range with a zone,
mapped ones aside. Run `outbound` is over such calls; `outbound_zones` shows that
without it the statement is false.

- `ConnInv` ties the step the dial is at to the socket, the deadline and the
  callback: after `StopCancel` succeeded the callback can no longer start, so a
  connection that gets that far is open although the context may be done, and
  before it every exit closes (`FailKeepsConn`, cited by each failing step).
- `DestInv` says of the addresses still to be tried what it says of those tried
  (`TriedPermitted`, `ProxyKept`): the filter approved them, they are of the one
  lookup and, on a direct route past a proxy, exempt. That what the filter
  approves is what the ranges mean is another matter (`ApprovedMeant`): it needs
  `OriginInv`, by which an address with a zone is the literal of the call,
  because answers of DNS lose theirs, and then `ZonesPublic`. `DestInv` rests on
  two lemmas about the filters, `ApprovedElements` and `ExemptElements`. Both need that a list put together by
  `SortedBy` has a member at every place: `Ranks` proves it of every finite
  ordered set, because the map from a member to the number of members before it
  is injective into a set of the same size, hence onto.
- `AdmittedInv` remembers of an admitted request which verdict admitted it;
  `MCPJudged` and `JSONRPCJudged` derive from the readers that each item with a
  method became a call the endpoint was asked about.
- `RequestInv` ties the path to the request's target from `Decide` to `Forward`;
  `TypesInv` has the types of the dial, where the index into the addresses needs
  `DestInv`.

`ExpandedExactly` is about a recursion that ends because fewer names are left
unseen at every call. `Good(f, k, N, F)` says that a visit does the right thing
(`Reaches`) wherever fewer than k names are left: what is new is followed, and
nothing is added that a closed set could do without. Names already seen are not
followed again, so a visit on its own does not return a closed set; only the
outermost one does, which begins with none. Induction on k gives that the
function defined by the recursion exists (`SolutionExists`), from approximations
that agree wherever both are `Good` (`FollowSame`, `VisitSame`), and that it
reaches exactly the least closed set (`VisitedExact`).

`CanonicalWalk` follows the stack through the loop: after i segments it is as
high as the walk is deep, and each level of it was entered by a segment since
which the walk has not been less deep (`Stacked`; `PushWalked` for one turn).
At the end there is only one such segment for a level (`EnteredOnce`), the one
`Walk` names. That the result is a fixed point is shown of every path with
written segments, no dots and no empty segment but the last (`Settled`,
`CanonicalSettled`, `SettledFixed`), and decoding the slashes of such a path
leaves no segment `..` (`SettledFlat`).

Inductions over numbers, sequences and sets of names all go through `UpTo`,
described under the exchange below.

`RequestAssumption` asks that targets have segments with their attributes and
that the items of a GraphQL body are envelopes: the values that splitting a
target and reading a body can yield. It asks nothing of names, repeated
definitions or cycles. Inline fragments are one level deep in it: the model
leaves out inline fragments within inline fragments, which `selectionSet` merges
into the one around them in the same way.
`DialAssumption` asks that calls and answers have their types and that no base of
an address is called `"name"`, the mark of a CONNECT by name.

**PolicyAdvisor** (`PolicyAdvisorProofs`): `DecisionsAlwaysGenuine`,
`ReloadAlwaysJustified`, `AlwaysWaitsForPolicy`. What a reply says was read steps
earlier, so `AInv` follows a decision through every place that keeps one: the
records, the gateway's answer on its way (`AnswersGenuine`), the copy a request
decides by (`CopiesGenuine`), the reply. Each is the gateway's own, because a
decision is final there. `Dated` gives a generation its meaning: this process saw
the approval under that policy, so a later generation is a policy applied after
it. `RequestsNamed` keeps a submission that is still to be posted apart from
everybody else's.

**WsRelay** (`WsRelayProofs`): `MessageAlwaysWhole`, `AlwaysInspectedByAll`,
`TextAlwaysPermitted`, `SecretsAlwaysBound`, `AlwaysTornOnlyByRefusal` and
`SessionsAlwaysEnded` (the safety part of `RelayEnds`), for every pipeline,
configuration, size limit and number of frames. `RInv` has a part per question,
each with a lemma for the start and one for the steps:

- `Shape`: types, and that a payload has no credential before the last step;
- `Sessions`: which sessions are open at each step of the main goroutine, needed
  by all the others because the client's goroutine goes on while they are closed;
- `Buffered`: the frames read since the last message are those of the message in
  hand, or those whose payloads the fragment buffer holds. `Reassembled` alone
  says nothing of a message still being put together. `Begun` and `Joins` grow by
  a frame in `BegunFirst`, `BegunNext`, `JoinFirst` and `JoinNext`;
- `Followed`: each stage was shown what the one before it left, and the verdict
  was passed on what the last one left, by a policy in force since then (`since`
  only grows while the message is in hand);
- `Covered`: a stage behind the message allowed it, or fails open;
- `Whole`, `Headed`: as long as only the upstream's goroutine has written, header
  and payload alternate and the goroutine's step says which comes next; and the
  first part of all is a header.

`RelayAssumption` asks that what clients and stages send does not contain the
credential itself (`Secret \notin Plain`): without it `SecretsBound` could not
tell one that the proxy put in from one that was sent.

**MiddlewareChain and ResponseChain** (`ExchangeProofs`): `FirstDenyAlwaysWins`,
`EditsAlwaysInOrder`, `AlwaysSentAsInspected`, `BodyAlwaysAsAnswered`,
`TrailersAlwaysSafe`, for every pipeline `FromEnviron`
builds, any headers and mutations, and every body and size of unit. `XInv` has

- `QInv`: the types of the request side, and that every stage asked so far let
  the request pass (`Asked`);
- `Settled`: the same of the stages the response went through, how many these
  are at each step, and that a stage is shown a body only if it is a gRPC stage;
- `TrailersKept`: `TrailersSafe` before delivery, too. That one answer's edits
  preserve it is `TrailersEdited`, from the check of all mutations in advance;
- `Bodies`: while a stage is shown units, the body is still the one it was asked
  about, what was let through is the join of its answers, and the offset is the
  number of answers times the size of a unit. `BodyAsAnswered` alone says nothing
  of a stage half-way through. `NextUnit` shows that the code's offsets cut the
  body into the pieces of the property, `JoinNext` that a part is joined behind
  the others.

Both loops over mutations are handled by one induction: `UpTo` (a set of numbers
with 0 that goes on up to m has all of them, from the well-foundedness of `<`)
gives that the recursive functions exist (`EditsExist`, `ViewsExist`) and that
any set of headers that each single edit stays in is never left (`EditedWithin`,
`SeenWithin`). Types and `TrailersKept` are such sets.

`InOrder` and `SentAsInspected` compare two ways of carrying out the same edits:
one pass per stage, and one over all of them at the end. `OInv` says, until the
response is back, that the two agree so far (`Merging`):

- `Accumulated`: on a clean header the passes made so far have done what one pass
  over `muts`, begun with what the map set or the client sent (`First`), would
  do, and a header in `removed` is gone. The step rests on what `Edited` makes of
  a concatenation (`EditedConcat`), on its looking at one header only
  (`EditedLocal`), and on removals being all that can follow a removal
  (`EditedRemoves`), which is where `Clean` is needed;
- `Fresh`, `Mapped`: only the first stage sets headers by map, because the remote
  stage is the first one or stands behind a refusal (`RemoteFirst`), so the map
  comes before every mutation, as in `runMiddleware`;
- `Styled`: every edit in the decision has left its mark in `touched`;
- `Shown`: the view follows the request on canonically spelt headers
  (`SeenAsEdited`).

At the end `MergedRight` compares `Merged` with `Accumulated`, whichever spelling
the map's order sets last. A spelling that the map set and that is also among the
mutations is not set by `runMiddleware`: on a clean header these are removals,
so it is gone either way.

Only model-checked:

- all liveness (`ApplyReturns`, `StreamsEnd`, `Converges`, `CallsReturn`,
  `RequestsReturn`, `DialReturns`, and `RelayReturns` and `GoroutinesEnd` within
  `RelayEnds`): out of the prover's reach. Every safety property of the passing
  runs is stated by a theorem.

## 6. Where code and documents disagree

| Run | Property | What the code does |
|---|---|---|
| `pipeline_markers` | `MarkersResolved` | `proxy/secrets.go:165`: "Fail-closed: unresolved markers return an error (do not send upstream)". A marker in the name of a query parameter is accepted by the scanner when its key is bound and never rewritten. |
| `grant_expiry` | `CachedUntilExpiry` | `proxy/token_grant.go:61`: results are cached "only until the returned token's expiry". A configured `CacheTTLSeconds` is not capped by it. |
| `outbound_zones` | `NeverBlocked` | `proxy/ssrf.go:20-22`: "Always-blocked ranges (SSRF): never allowed, not even via allowed_ips." [...] "everything else below stays blocked unconditionally." `netip.Prefix.Contains` is false of an address with a zone, so a link-local literal written with one is in none of the ranges and is connected to. |

Observations without a run:

- `CHANGELOG.md:61`: the watcher "updates the hash only after a successful
  apply". It also does after contents that do not parse or apply, and relies on
  `failClosed` to try again; `watch_policy` shows that this converges.
- `proxy/middleware/stage.go:117`: "Pipeline runs stages in order". Removals are
  carried out last and map edits give way to list edits of the same name;
  `InOrder` states the cases in which the merge is exact.
- `policyReloaded` answers true for any policy applied after the approval,
  whether or not it has the proposed rule, which its comment states as intended.
  A pending answer that arrives late overwrites an approval that another
  connection stored; the next wait repairs it.
- `proxy/ssrf.go:128`: combining a corporate proxy with `allowed_ips` "is
  fail-closed (refused)". The code refuses it only when CONNECT names the host;
  otherwise it asks the proxy for an address that the filter approved, which is
  what `ApprovedOnly` states.
- The callback of `dialViaHTTPProxy` reads the variable `conn` that the dialling
  goroutine assigns after the TLS handshake: a data race by Go's rules, but
  either value closes the same socket.
- `grpcWebSocketSession.Message` and `Start` compute a context with the stage's
  timeout and do not use it. `session.closed` is written by the relay's deferred
  function and read by the client's goroutine without a lock; after it is set,
  messages already read pass uninspected until the sockets are closed, which
  `InspectedByAll` leaves open. Sessions opened before a refusal, a failed start
  or a failed write of the upgrade are not closed by the proxy
  (`SessionsEnded` names the ways out that do).
- A refusal's close frame may land between the header and the payload of a frame
  from the upstream (`TornOnlyByRefusal` says that nothing else does).
- Upstream frames are relayed as final frames whatever their FIN bit, and frames
  to the upstream are not masked.
- A body of MCP responses only, and the MCP receive stream, are admitted without
  asking the engine about the path.

## 7. Not modelled

- `MultiAudit`'s pushes to sinks, which may lose events and on which nothing
  depends, and OCSF formatting, which is layout;
- `Serve` and shutdown: hijacked streams outlive them, and nothing in the code
  says what should become of these;
- text below the level of segments, items and frames: JSON, the GraphQL lexer,
  octets of paths and queries, the shapes of params each MCP method asks for,
  parsing of addresses, of `NO_PROXY` and of proposed rules;
- the X.509 and PEM work of the CA (a certificate is its `NotAfter`);
- growth of the token cache and of the advisor's records, which have no bound in
  the code: the models have fixed sets of keys;
- the inference adapter (stateless forwarding), caller identification (reads of
  `/proc`), configuration and service wiring (no state).

## 8. Running

    tlc -workers 2 -config EgressSafety.cfg MCEgressServer
    tlapm EgressServerProofs.tla

and likewise for the other rows of `runs` and `theorems` in `PROJECT.json`. The
longest run takes about two minutes.
