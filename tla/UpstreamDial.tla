----------------------------- MODULE UpstreamDial -----------------------------
(***************************************************************************)
(* DialSSRF (proxy/ssrf.go, no_proxy.go): one lookup, the filter on what   *)
(* it returned, then either the filtered addresses in their order or a     *)
(* CONNECT through a corporate proxy.  The caller's context may be done at *)
(* any moment; while the proxy is spoken to, a callback of                 *)
(* context.AfterFunc then closes the connection from its own goroutine.    *)
(*                                                                         *)
(* An address is [base, mapped, zoned]: mapped when it is an IPv4 address  *)
(* written as IPv6, zoned when it names an interface.  Kind[base] is the   *)
(* range it is in.  A net is [bases, mapped].                              *)
(***************************************************************************)
EXTENDS Naturals, Sequences, FiniteSets, SequencesExt

CONSTANTS
    Kind,     \* base -> "public", "private" or "blocked" (loopback included)
    Answers,  \* what a lookup may return: sequences of addresses
    Calls     \* arguments and environment of a dial, see CallType

(* host: the literal address, or << >> for a name; allowed: whether        *)
(* allowed_ips lists anything, whether all of it parses, and its nets;     *)
(* proxy: "none", "http" or "https"; byName: CONNECT_BY_HOSTNAME; port: 0  *)
(* stands for one that is no number; noProxy: the entries of NO_PROXY, of  *)
(* which a domain covers the host when that ends in it, a literal's text   *)
(* too, and an ip is compared with its zone.                               *)
Bases == DOMAIN Kind
Address == [base: Bases, mapped: BOOLEAN, zoned: BOOLEAN]
Net == [bases: SUBSET Bases, mapped: BOOLEAN]
Entry ==
    [kind: {"all", "domain", "ip", "cidr"}, covers: BOOLEAN, ip: Address, net: Net, port: Nat]
CallType ==
    [host: {<< >>} \cup {<<a>> : a \in Address},
     allowed: [listed: BOOLEAN, valid: BOOLEAN, nets: SUBSET Net],
     proxy: {"none", "http", "https"}, byName: BOOLEAN, port: Nat, noProxy: Seq(Entry)]

ASSUME DialAssumption ==
    /\ Kind \in [Bases -> {"public", "private", "blocked"}]
    /\ "name" \notin Bases
    /\ \A s \in Answers : s \in Seq(Address)
    /\ \A c \in Calls :
        /\ c \in CallType
        /\ c.allowed.nets # {} => c.allowed.listed

VARIABLES
    call,      \* the arguments and environment of the dial
    answer,    \* history: the addresses looked up, or the literal
    addrs,     \* those the filter let through, in order
    dial,      \* the dialling goroutine: [pc, k (next address)]
    sock,      \* the TCP connection: "none", "open" or "closed"
    deadline,  \* a deadline is set on it
    ctx,       \* the caller's context: "live" or "done"
    hook,      \* the callback: "off", "armed", "started", "ran" or "stopped"
    result,    \* "none", "conn" or "error"
    tried      \* history: [via, to] of every address or name connected to

dialVars == <<call, answer, addrs, dial, sock, deadline, ctx, hook, result, tried>>

ByName == [base |-> "name", mapped |-> FALSE, zoned |-> FALSE]

NoCall == [host |-> << >>, allowed |-> [listed |-> FALSE, valid |-> TRUE, nets |-> {}],
           proxy |-> "none", byName |-> FALSE, port |-> 0, noProxy |-> << >>]

DialInit ==
    /\ call = NoCall
    /\ answer = << >>
    /\ addrs = << >>
    /\ dial = [pc |-> "idle", k |-> 1]
    /\ sock = "none"
    /\ deadline = FALSE
    /\ ctx = "live"
    /\ hook = "off"
    /\ result = "none"
    /\ tried = {}

At(pc) == dial.pc = pc
Goto(pc) == dial' = [dial EXCEPT !.pc = pc]

(* A handler calls DialSSRF. *)
Start(c) ==
    /\ At("idle")
    /\ call' = c
    /\ Goto("resolve")
    /\ UNCHANGED <<answer, addrs, sock, deadline, ctx, hook, result, tried>>

-----------------------------------------------------------------------------
(* The filter *)

(* netip.Addr.Unmap: IPv4 has no zones, so a mapped address loses its own. *)
Unmap(a) == IF a.mapped THEN [a EXCEPT !.mapped = FALSE, !.zoned = FALSE] ELSE a
(* A looked up net.IPAddr keeps its zone beside the octets taken here. *)
AddrFromSlice(a) == [a EXCEPT !.zoned = FALSE]
(* netip.Prefix.Contains: never an address with a zone, and an IPv4 prefix *)
(* does not contain the mapped form.                                       *)
PrefixContains(net, a) == ~a.zoned /\ a.mapped = net.mapped /\ a.base \in net.bases
(* isLoopback, alwaysBlocked and isPrivate look at the unmapped address. *)
Within(a, kind) == ~Unmap(a).zoned /\ Kind[a.base] = kind
ipInAny(a, nets) == \E net \in nets : PrefixContains(net, a)

(* Mutant: allowed_ips is looked at before the ranges that stay blocked. *)
ApprovedListedFirst(a) ==
    IF call.allowed.nets # {} THEN ipInAny(a, call.allowed.nets)
    ELSE ~Within(a, "private") /\ ~Within(a, "blocked")

Approved(a) ==
    /\ ~Within(a, "blocked")
    /\ IF call.allowed.nets # {} THEN ipInAny(a, call.allowed.nets) ELSE ~Within(a, "private")

(* The members of a finite set as a sequence: each has as many before it   *)
(* as Before says.                                                         *)
SortedBy(S, Before(_, _)) ==
    [n \in 1..Cardinality(S) |->
        CHOOSE x \in S : Cardinality({y \in S : Before(y, x)}) = n - 1]

Earlier(i, j) == i < j
(* The addresses that the loop of ResolveAndFilter appends. *)
ApprovedOf(found) ==
    LET kept == SortedBy({i \in DOMAIN found : Approved(found[i])}, Earlier)
    IN [n \in DOMAIN kept |-> found[kept[n]]]

(* The part of ResolveAndFilter after the addresses are known. *)
Filter(found) ==
    LET out == ApprovedOf(found)
    IN /\ answer' = found
       /\ IF call.allowed.valid /\ out # << >>
          THEN addrs' = out /\ Goto("route") /\ UNCHANGED result
          ELSE addrs' = << >> /\ Goto("done") /\ result' = "error"
       /\ UNCHANGED <<call, sock, deadline, ctx, hook, tried>>

ResolveLiteral == At("resolve") /\ call.host # << >> /\ Filter(call.host)
Lookup(found) ==
    /\ At("resolve") /\ call.host = << >>
    /\ Filter([i \in DOMAIN found |-> Unmap(AddrFromSlice(found[i]))])

-----------------------------------------------------------------------------
(* The route *)

Applies(e) == e.port \in {0, call.port}
CoversAddress(e, a) ==
    \/ e.kind = "ip" /\ Unmap(a) = e.ip
    \/ e.kind = "cidr" /\ PrefixContains(e.net, Unmap(a))
CoversHost(e) ==
    \/ e.kind = "all"
    \/ e.kind = "domain" /\ e.covers
    \/ call.host # << >> /\ CoversAddress(e, call.host[1])

(* Mutant: an entry for one address exempts the whole host. *)
noProxyAddressesWhole(entries) ==
    IF \E i \in DOMAIN entries : Applies(entries[i]) /\
          (CoversHost(entries[i]) \/ \E a \in ToSet(addrs) : CoversAddress(entries[i], a))
    THEN addrs ELSE << >>

(* The two loops, as pairs of an entry and an address: entry by entry. *)
Sooner(x, y) == x[1] < y[1] \/ (x[1] = y[1] /\ x[2] < y[2])

(* An entry for the host exempts all its addresses at once, an entry for   *)
(* addresses only those, each appended when it is first met.               *)
noProxyAddresses(entries) ==
    LET met == {x \in (DOMAIN entries) \X (DOMAIN addrs) :
                   Applies(entries[x[1]]) /\ CoversAddress(entries[x[1]], addrs[x[2]])}
        first == {x \in met : \A y \in met : Sooner(y, x) => addrs[y[2]] # addrs[x[2]]}
        order == SortedBy(first, Sooner)
    IN IF \E e \in ToSet(entries) : Applies(e) /\ CoversHost(e) THEN addrs
       ELSE [n \in DOMAIN order |-> addrs[order[n][2]]]

(* upstreamProxyURL: a port that is no number is never exempt. *)
Bypass == IF call.port = 0 THEN << >> ELSE noProxyAddresses(call.noProxy)
ThroughProxy == call.proxy # "none" /\ Bypass = << >>

RouteDirect ==
    /\ At("route") /\ ~ThroughProxy
    /\ addrs' = IF call.proxy # "none" THEN Bypass ELSE addrs
    /\ Goto("direct")
    /\ UNCHANGED <<call, answer, sock, deadline, ctx, hook, result, tried>>

(* A name is only handed to the proxy if no allowed_ips depends on it. *)
RouteProxy ==
    /\ At("route") /\ ThroughProxy
    /\ IF call.byName /\ call.allowed.listed
       THEN Goto("done") /\ result' = "error"
       ELSE Goto("connect") /\ UNCHANGED result
    /\ UNCHANGED <<call, answer, addrs, sock, deadline, ctx, hook, tried>>

(* One address after the other, until one connects. *)
DialDirect(ok) ==
    /\ At("direct")
    /\ ok => ctx = "live"
    /\ tried' = tried \cup {[via |-> "direct", to |-> addrs[dial.k]]}
    /\ \/ ok /\ sock' = "open" /\ result' = "conn" /\ Goto("done")
       \/ /\ ~ok /\ dial.k < Len(addrs)
          /\ dial' = [dial EXCEPT !.k = @ + 1]
          /\ UNCHANGED <<sock, result>>
       \/ ~ok /\ dial.k >= Len(addrs) /\ result' = "error" /\ Goto("done") /\ UNCHANGED sock
    /\ UNCHANGED <<call, answer, addrs, deadline, ctx, hook>>

-----------------------------------------------------------------------------
(* dialViaHTTPProxy *)

(* Every way out: the connection is closed, and the deferred stopCancel    *)
(* takes back a callback that has not started.                             *)
Fail ==
    /\ sock' = IF sock = "open" THEN "closed" ELSE sock
    /\ hook' = IF hook = "armed" THEN "stopped" ELSE hook
    /\ result' = "error"
    /\ Goto("done")
    /\ UNCHANGED <<call, answer, addrs, deadline, ctx, tried>>

Connect(ok) ==
    /\ At("connect")
    /\ ok => ctx = "live"
    /\ IF ok THEN /\ sock' = "open" /\ Goto("deadline")
                  /\ UNCHANGED <<call, answer, addrs, deadline, ctx, hook, result, tried>>
             ELSE Fail

(* Mutant: the connection to the proxy gets no deadline. *)
SetDeadlineNone(ok) ==
    /\ At("deadline")
    /\ IF ok THEN /\ Goto("arm")
                  /\ UNCHANGED <<call, answer, addrs, sock, deadline, ctx, hook, result, tried>>
             ELSE Fail

SetDeadline(ok) ==
    /\ At("deadline")
    /\ IF ok THEN /\ deadline' = TRUE /\ Goto("arm")
                  /\ UNCHANGED <<call, answer, addrs, sock, ctx, hook, result, tried>>
             ELSE Fail

(* context.AfterFunc: on a context that is done the callback starts at once. *)
Arm ==
    /\ At("arm")
    /\ hook' = IF ctx = "done" THEN "started" ELSE "armed"
    /\ Goto("check")
    /\ UNCHANGED <<call, answer, addrs, sock, deadline, ctx, result, tried>>

CheckContext ==
    /\ At("check")
    /\ IF ctx = "done" THEN Fail
       ELSE /\ Goto(IF call.proxy = "https" THEN "tls" ELSE "send")
            /\ UNCHANGED <<call, answer, addrs, sock, deadline, ctx, hook, result, tried>>

(* Reading and writing succeed when the proxy plays along, which it need   *)
(* not ever do, and only on an open connection.                            *)
Handshake ==
    /\ At("tls") /\ sock = "open"
    /\ Goto("send")
    /\ UNCHANGED <<call, answer, addrs, sock, deadline, ctx, hook, result, tried>>

Destination == IF call.byName THEN ByName ELSE addrs[1]

Send ==
    /\ At("send") /\ sock = "open"
    /\ tried' = tried \cup {[via |-> "proxy", to |-> Destination]}
    /\ Goto("receive")
    /\ UNCHANGED <<call, answer, addrs, sock, deadline, ctx, hook, result>>

Receive(status) ==
    /\ At("receive") /\ sock = "open"
    /\ IF status = "ok"
       THEN /\ Goto("stop")
            /\ UNCHANGED <<call, answer, addrs, sock, deadline, ctx, hook, result, tried>>
       ELSE Fail

(* What a peer or the configuration spoils: a broken connection, a CA      *)
(* bundle or a file of credentials that cannot be used.                    *)
Spoiled == dial.pc \in {"tls", "send", "receive"} /\ Fail

(* The deadline passes, or the callback closed the connection. *)
Interrupted ==
    /\ dial.pc \in {"tls", "send", "receive"}
    /\ deadline \/ sock = "closed"
    /\ Fail

(* Mutant: whether the callback could be taken back is not asked. *)
StopCancelUnasked ==
    /\ At("stop")
    /\ hook' = IF hook = "armed" THEN "stopped" ELSE hook
    /\ Goto("clear")
    /\ UNCHANGED <<call, answer, addrs, sock, deadline, ctx, result, tried>>

(* stopCancel: a callback that has started, finished or not, is a failure. *)
StopCancel ==
    /\ At("stop")
    /\ IF hook = "armed"
       THEN /\ hook' = "stopped" /\ Goto("clear")
            /\ UNCHANGED <<call, answer, addrs, sock, deadline, ctx, result, tried>>
       ELSE Fail

ClearDeadline(ok) ==
    /\ At("clear")
    /\ IF ok THEN /\ deadline' = FALSE /\ result' = "conn" /\ Goto("done")
                  /\ UNCHANGED <<call, answer, addrs, sock, ctx, hook, tried>>
             ELSE Fail

(* The caller goes away or gives up, during the dial or after it. *)
Cancel ==
    /\ ~At("idle") /\ ctx = "live"
    /\ ctx' = "done"
    /\ hook' = IF hook = "armed" THEN "started" ELSE hook
    /\ UNCHANGED <<call, answer, addrs, dial, sock, deadline, result, tried>>

(* The callback, whichever of the plain and the TLS connection it finds in *)
(* the variable the dialling goroutine may be assigning: both close it.    *)
HookClose ==
    /\ hook = "started"
    /\ hook' = "ran"
    /\ sock' = "closed"
    /\ UNCHANGED <<call, answer, addrs, dial, deadline, ctx, result, tried>>

(* Steps the runtime takes by itself: lookups and connects have timeouts   *)
(* of their own, and interrupted I/O returns.                              *)
DialStep ==
    \/ ResolveLiteral
    \/ \E found \in Answers \cup {<< >>} : Lookup(found)
    \/ RouteDirect
    \/ RouteProxy
    \/ \E ok \in BOOLEAN : DialDirect(ok)
    \/ \E ok \in BOOLEAN : Connect(ok)
    \/ \E ok \in BOOLEAN : SetDeadline(ok)
    \/ Arm
    \/ CheckContext
    \/ Interrupted
    \/ StopCancel
    \/ \E ok \in BOOLEAN : ClearDeadline(ok)

(* Steps that depend on the proxy or on the caller. *)
PeerStep ==
    \/ Handshake
    \/ Send
    \/ \E status \in {"ok", "refused"} : Receive(status)
    \/ Spoiled
    \/ Cancel

DialNext == DialStep \/ PeerStep \/ HookClose
DialFairness == WF_dialVars(DialStep) /\ WF_dialVars(HookClose)

-----------------------------------------------------------------------------
(* Properties *)

DialTypeOK ==
    /\ call \in Calls \cup {NoCall}
    /\ answer \in Seq(Address) /\ addrs \in Seq(Address)
    /\ dial.pc \in {"idle", "resolve", "route", "direct", "connect", "deadline", "arm",
                    "check", "tls", "send", "receive", "stop", "clear", "done"}
    /\ dial.k \in 1..(Len(addrs) + 1)
    /\ sock \in {"none", "open", "closed"}
    /\ deadline \in BOOLEAN
    /\ ctx \in {"live", "done"}
    /\ hook \in {"off", "armed", "started", "ran", "stopped"}
    /\ result \in {"none", "conn", "error"}
    /\ (result = "none") = ~At("done")

(* What ssrf.go says of the ranges it always blocks: no address in them is *)
(* connected to or asked of the proxy, however it is written and whatever  *)
(* allowed_ips lists.                                                      *)
NeverBlocked == \A t \in tried : t.to # ByName => Kind[t.to.base] # "blocked"

(* Whatever DNS answers, each address that is connected to, directly or by *)
(* CONNECT, came from the one lookup and passes the endpoint's rules: not  *)
(* in a blocked range even if allowed_ips lists it, not private unless     *)
(* listed, and listed if anything is.  A name goes to the proxy only where *)
(* there is no list.                                                       *)
ApprovedOnly ==
    /\ NeverBlocked
    /\ \A t \in tried :
        IF t.to = ByName THEN ~call.allowed.listed
        ELSE /\ t.to \in ToSet(answer)
             /\ Kind[t.to.base] = "private" => call.allowed.nets # {}
             /\ call.allowed.nets # {} => ipInAny(t.to, call.allowed.nets)

(* Literals with a zone, mapped ones aside, are public ones.  The filter   *)
(* finds others in no range, and then ApprovedOnly does not hold.          *)
ZonesPublic ==
    \A c \in Calls :
        c.host # << >> /\ Unmap(c.host[1]).zoned => Kind[c.host[1].base] = "public"

(* With a corporate proxy an address is connected to directly only if an   *)
(* entry of NO_PROXY, for this port, exempts the host or that address.     *)
ProxyKept ==
    \A t \in tried :
        t.via = "direct" /\ call.proxy # "none" =>
            \E e \in ToSet(call.noProxy) : Applies(e) /\ (CoversHost(e) \/ CoversAddress(e, t.to))

(* A connection that is returned is open and stays open, whenever the      *)
(* context ends: no callback is left that could close it, and no deadline  *)
(* is left that would cut the tunnel off.                                  *)
ReturnedUsable ==
    result = "conn" => sock = "open" /\ ~deadline /\ hook \notin {"armed", "started"}

(* A dial that fails, at whatever step, leaves no connection open. *)
FailedClosed == result = "error" => sock # "open"

(* The connection has one owner when dialViaHTTPProxy returns, whenever    *)
(* the caller's context ends and wherever the dial fails: the caller has   *)
(* an open one that nothing else will close, or there is none.             *)
ConnectionOwned == ReturnedUsable /\ FailedClosed

(* The dial returns although the proxy may fall silent at any point. *)
DialReturns == At("resolve") ~> At("done")
=============================================================================
