------------------------- MODULE EgressServerProofs -------------------------
(***************************************************************************)
(* TLAPS proofs about EgressServer, for any sets of connections, documents *)
(* and destinations and any engine.                                        *)
(***************************************************************************)
EXTENDS EgressServer, TLAPS

(* A tunnel goroutine owns its registration; "release" is reached with    *)
(* both sockets closed; the relay is the one the rule calls for.          *)
TunnelLocal ==
    \A c \in Conns :
        /\ pc[c] \in Tunnel => c \in held
        /\ c \in held => pc[c] \in Tunnel \cup Refusing
        /\ pc[c] = "release" => c \notin clientOpen /\ c \notin backendOpen
        /\ pc[c] \in {"dial", "hijack"} \/ c \in held => rule[c] \in Tunnelled
        /\ pc[c] = "peek" => rule[c] \in Uninspected
        /\ pc[c] = "raw" => rule[c] \in Uninspected
        /\ pc[c] \in PreTunnel => dest[c] \in Hosts

(* A decision is as old as the handler's snapshot at most: if no policy    *)
(* was applied since the snapshot, the document in the engine is the one   *)
(* that decided.                                                           *)
DecisionCurrent ==
    \A c \in Conns :
        /\ gen[c] <= policyGen
        /\ pc[c] \in {"dial", "hijack"} /\ gen[c] = policyGen
              => rule[c] = Match[eng][dest[c]]

(* Outside Apply, a registered stream was authorised by the document in    *)
(* force.                                                                  *)
RegisteredAuthorised ==
    mu = "free" => \A c \in activeTunnels : rule[c] = Match[eng][dest[c]]

(* Apply logs its warnings after the last stream is closed. *)
WarnAfterClose == mu = "warn" => activeTunnels = {}

SocketsOwned ==
    /\ clientOpen \subseteq activeTunnels
    /\ activeTunnels \subseteq held
    /\ \A c \in backendOpen : c \in held \/ pc[c] = "hijack"

IInv ==
    /\ TypeOK
    /\ TunnelLocal
    /\ SocketsOwned
    /\ DecisionCurrent
    /\ RegisteredAuthorised
    /\ WarnAfterClose
    /\ InFlightCurrent

(* NewServer's state satisfies the inductive invariant. *)
LEMMA InitInv == Init => IInv
BY ServerAssumption DEF Init, IInv, TypeOK, TunnelLocal, SocketsOwned,
   DecisionCurrent, RegisteredAuthorised, WarnAfterClose, InFlightCurrent,
   PCs, CopyStates, Tunnel, PreTunnel, Refusing, Terminated

(* A handler that returns leaves its slot well typed. *)
LEMMA ReturnTypes ==
  ASSUME TypeOK, NEW c \in Conns, Return(c)
  PROVE  /\ pc' \in [Conns -> PCs]
         /\ dest' \in [Conns -> Hosts \cup {NoHost}]
         /\ gen' \in [Conns -> 0..MaxGen]
         /\ sawCA' \subseteq Conns
         /\ rule' \in [Conns -> Rules \cup {NoRule}]
         /\ req' \in [Conns -> Reqs \cup {NoReq}]
BY ServerAssumption DEF TypeOK, Return, Goto, PCs

(* Every step of Apply, of a handler and of a relay preserves it. *)
LEMMA NextInv == IInv /\ [Next]_vars => IInv'
<1> USE ServerAssumption
    DEF IInv, TypeOK, TunnelLocal, SocketsOwned, DecisionCurrent,
        RegisteredAuthorised, WarnAfterClose, InFlightCurrent,
        PCs, CopyStates, Tunnel, PreTunnel, Refusing, Terminated,
        Rules, Tunnelled, Uninspected, Goto,
        serverVars, localVars, socketVars, copyVars
<1> SUFFICES ASSUME IInv, [Next]_vars PROVE IInv'
  OBVIOUS
<1>1. ASSUME NEW d \in Docs, ApplyInstall(d) PROVE IInv'
  BY <1>1 DEF ApplyInstall
<1>2. CASE ApplyClosed
  BY <1>2 DEF ApplyClosed
<1>3. CASE ApplyWarnLock
  BY <1>3 DEF ApplyWarnLock
<1>4. CASE ApplyWarnUnlock
  BY <1>4 DEF ApplyWarnUnlock
<1>5. ASSUME NEW b \in BOOLEAN, SetCA(b) PROVE IInv'
  BY <1>5 DEF SetCA
<1>6. ASSUME NEW c \in Conns, NEW h \in Hosts, Accept(c, h) PROVE IInv'
  BY <1>6 DEF Accept
<1>7. ASSUME NEW c \in Conns, NEW r \in Reqs, ReadRequest(c, r) PROVE IInv'
  BY <1>7 DEF ReadRequest
<1>8. ASSUME NEW c \in Conns, Snapshot(c) PROVE IInv'
  BY <1>8 DEF Snapshot
<1>9. ASSUME NEW c \in Conns, ServeLocal(c) PROVE IInv'
  <2>1. TypeOK'
    BY <1>9, ReturnTypes DEF ServeLocal
  <2>2. TunnelLocal'
    BY <1>9 DEF ServeLocal, Return
  <2>3. SocketsOwned'
    BY <1>9 DEF ServeLocal, Return
  <2>4. DecisionCurrent'
    BY <1>9 DEF ServeLocal, Return
  <2>5. RegisteredAuthorised'
    BY <1>9 DEF ServeLocal, Return
  <2>6. WarnAfterClose'
    BY <1>9 DEF ServeLocal, Return
  <2>7. InFlightCurrent'
    BY <1>9 DEF ServeLocal, Return
  <2> QED
    BY <2>1, <2>2, <2>3, <2>4, <2>5, <2>6, <2>7 DEF IInv
<1>10. ASSUME NEW c \in Conns, Decide(c) PROVE IInv'
  BY <1>10 DEF Decide
<1>11. ASSUME NEW c \in Conns, DecideError(c) PROVE IInv'
  <2>1. TypeOK'
    BY <1>11, ReturnTypes DEF DecideError
  <2>2. TunnelLocal'
    BY <1>11 DEF DecideError, Return
  <2>3. SocketsOwned'
    BY <1>11 DEF DecideError, Return
  <2>4. DecisionCurrent'
    BY <1>11 DEF DecideError, Return
  <2>5. RegisteredAuthorised'
    BY <1>11 DEF DecideError, Return
  <2>6. WarnAfterClose'
    BY <1>11 DEF DecideError, Return
  <2>7. InFlightCurrent'
    BY <1>11 DEF DecideError, Return
  <2> QED
    BY <2>1, <2>2, <2>3, <2>4, <2>5, <2>6, <2>7 DEF IInv
<1>12. ASSUME NEW c \in Conns, Dial(c) PROVE IInv'
  BY <1>12 DEF Dial
<1>13. ASSUME NEW c \in Conns, DialError(c) PROVE IInv'
  <2>1. TypeOK'
    BY <1>13, ReturnTypes DEF DialError
  <2>2. TunnelLocal'
    BY <1>13 DEF DialError, Return
  <2>3. SocketsOwned'
    BY <1>13 DEF DialError, Return
  <2>4. DecisionCurrent'
    BY <1>13 DEF DialError, Return
  <2>5. RegisteredAuthorised'
    BY <1>13 DEF DialError, Return
  <2>6. WarnAfterClose'
    BY <1>13 DEF DialError, Return
  <2>7. InFlightCurrent'
    BY <1>13 DEF DialError, Return
  <2> QED
    BY <2>1, <2>2, <2>3, <2>4, <2>5, <2>6, <2>7 DEF IInv
<1>14. ASSUME NEW c \in Conns, HijackError(c) PROVE IInv'
  <2>1. TypeOK'
    BY <1>14, ReturnTypes DEF HijackError
  <2>2. TunnelLocal'
    BY <1>14 DEF HijackError, Return
  <2>3. SocketsOwned'
    BY <1>14 DEF HijackError, Return
  <2>4. DecisionCurrent'
    BY <1>14 DEF HijackError, Return
  <2>5. RegisteredAuthorised'
    BY <1>14 DEF HijackError, Return
  <2>6. WarnAfterClose'
    BY <1>14 DEF HijackError, Return
  <2>7. InFlightCurrent'
    BY <1>14 DEF HijackError, Return
  <2> QED
    BY <2>1, <2>2, <2>3, <2>4, <2>5, <2>6, <2>7 DEF IInv
<1>15. ASSUME NEW c \in Conns, TrackTunnel(c) PROVE IInv'
  <2>1. TypeOK'
    BY <1>15 DEF TrackTunnel
  <2>2. TunnelLocal'
    BY <1>15 DEF TrackTunnel
  <2>3. SocketsOwned'
    BY <1>15 DEF TrackTunnel
  <2>4. DecisionCurrent'
    BY <1>15 DEF TrackTunnel
  <2>5. RegisteredAuthorised'
    BY <1>15 DEF TrackTunnel
  <2>6. WarnAfterClose'
    BY <1>15 DEF TrackTunnel
  <2>7. InFlightCurrent'
    BY <1>15 DEF TrackTunnel
  <2> QED
    BY <2>1, <2>2, <2>3, <2>4, <2>5, <2>6, <2>7 DEF IInv
<1>16. ASSUME NEW c \in Conns, TrackTunnelStale(c) PROVE IInv'
  <2>1. TypeOK'
    BY <1>16, ReturnTypes DEF TrackTunnelStale
  <2>2. TunnelLocal'
    BY <1>16 DEF TrackTunnelStale, Return
  <2>3. SocketsOwned'
    BY <1>16 DEF TrackTunnelStale, Return
  <2>4. DecisionCurrent'
    BY <1>16 DEF TrackTunnelStale, Return
  <2>5. RegisteredAuthorised'
    BY <1>16 DEF TrackTunnelStale, Return
  <2>6. WarnAfterClose'
    BY <1>16 DEF TrackTunnelStale, Return
  <2>7. InFlightCurrent'
    BY <1>16 DEF TrackTunnelStale, Return
  <2> QED
    BY <2>1, <2>2, <2>3, <2>4, <2>5, <2>6, <2>7 DEF IInv
<1>17. ASSUME NEW c \in Conns, Dispatch(c) PROVE IInv'
  <2>1. TypeOK'
    BY <1>17 DEF Dispatch, StartMitm, StartRaw
  <2>2. TunnelLocal'
    BY <1>17 DEF Dispatch, StartMitm, StartRaw
  <2>3. SocketsOwned'
    BY <1>17 DEF Dispatch, StartMitm, StartRaw
  <2>4. DecisionCurrent'
    BY <1>17 DEF Dispatch, StartMitm, StartRaw
  <2>5. RegisteredAuthorised'
    BY <1>17 DEF Dispatch, StartMitm, StartRaw
  <2>6. WarnAfterClose'
    BY <1>17 DEF Dispatch, StartMitm, StartRaw
  <2>7. InFlightCurrent'
    BY <1>17 DEF Dispatch, StartMitm, StartRaw
  <2> QED
    BY <2>1, <2>2, <2>3, <2>4, <2>5, <2>6, <2>7 DEF IInv
<1>18. ASSUME NEW c \in Conns, PeekTLS(c) PROVE IInv'
  BY <1>18 DEF PeekTLS, StartMitm
<1>19. ASSUME NEW c \in Conns, PeekPlain(c) PROVE IInv'
  BY <1>19 DEF PeekPlain, StartRaw
<1>20. ASSUME NEW c \in Conns, PeekError(c) PROVE IInv'
  BY <1>20 DEF PeekError
<1>21. ASSUME NEW c \in Conns, AuditLock(c) PROVE IInv'
  BY <1>21 DEF AuditLock
<1>22. ASSUME NEW c \in Conns, AuditUnlock(c) PROVE IInv'
  BY <1>22 DEF AuditUnlock
<1>23. ASSUME NEW c \in Conns, RecordDenial(c) PROVE IInv'
  <2>1. TypeOK'
    <3>1. denials' \in 0..DenialsMax
      BY <1>23 DEF RecordDenial
    <3>2. CASE c \in held
      BY <1>23, <3>1, <3>2 DEF RecordDenial
    <3>3. CASE c \notin held
      BY <1>23, <3>1, <3>3, ReturnTypes DEF RecordDenial
    <3> QED
      BY <3>2, <3>3
  <2>2. TunnelLocal'
    BY <1>23 DEF RecordDenial, Return
  <2>3. SocketsOwned'
    BY <1>23 DEF RecordDenial, Return
  <2>4. DecisionCurrent'
    BY <1>23 DEF RecordDenial, Return
  <2>5. RegisteredAuthorised'
    BY <1>23 DEF RecordDenial, Return
  <2>6. WarnAfterClose'
    BY <1>23 DEF RecordDenial, Return
  <2>7. InFlightCurrent'
    BY <1>23 DEF RecordDenial, Return
  <2> QED
    BY <2>1, <2>2, <2>3, <2>4, <2>5, <2>6, <2>7 DEF IInv
<1>24. ASSUME NEW c \in Conns, CloseSockets(c) PROVE IInv'
  BY <1>24 DEF CloseSockets
<1>25. ASSUME NEW c \in Conns, ReleaseTunnel(c) PROVE IInv'
  <2>1. TypeOK'
    BY <1>25, ReturnTypes DEF ReleaseTunnel
  <2>2. TunnelLocal'
    BY <1>25 DEF ReleaseTunnel, Return
  <2>3. SocketsOwned'
    BY <1>25 DEF ReleaseTunnel, Return
  <2>4. DecisionCurrent'
    BY <1>25 DEF ReleaseTunnel, Return
  <2>5. RegisteredAuthorised'
    BY <1>25 DEF ReleaseTunnel, Return
  <2>6. WarnAfterClose'
    BY <1>25 DEF ReleaseTunnel, Return
  <2>7. InFlightCurrent'
    BY <1>25 DEF ReleaseTunnel, Return
  <2> QED
    BY <2>1, <2>2, <2>3, <2>4, <2>5, <2>6, <2>7 DEF IInv
<1>26. ASSUME NEW c \in Conns, RawJoin(c) PROVE IInv'
  BY <1>26 DEF RawJoin
<1>27. ASSUME NEW c \in Conns, MitmStart(c) PROVE IInv'
  <2>1. TypeOK'
    BY <1>27 DEF MitmStart
  <2>2. TunnelLocal'
    BY <1>27 DEF MitmStart
  <2>3. SocketsOwned'
    BY <1>27 DEF MitmStart
  <2>4. DecisionCurrent'
    BY <1>27 DEF MitmStart
  <2>5. RegisteredAuthorised'
    BY <1>27 DEF MitmStart
  <2>6. WarnAfterClose'
    BY <1>27 DEF MitmStart
  <2>7. InFlightCurrent'
    BY <1>27 DEF MitmStart
  <2> QED
    BY <2>1, <2>2, <2>3, <2>4, <2>5, <2>6, <2>7 DEF IInv
<1>28. ASSUME NEW c \in Conns, MitmLoop(c) PROVE IInv'
  BY <1>28 DEF MitmLoop
<1>29. ASSUME NEW c \in Conns, ReadRequestError(c) PROVE IInv'
  BY <1>29 DEF ReadRequestError
<1>30. ASSUME NEW c \in Conns, DecideL4(c) PROVE IInv'
  BY <1>30 DEF DecideL4
<1>31. ASSUME NEW c \in Conns, DecideL7(c) PROVE IInv'
  BY <1>31 DEF DecideL7
<1>32. ASSUME NEW c \in Conns, Stages(c) PROVE IInv'
  <2>1. TypeOK'
    BY <1>32 DEF Stages
  <2>2. TunnelLocal'
    BY <1>32 DEF Stages
  <2>3. SocketsOwned'
    BY <1>32 DEF Stages
  <2>4. DecisionCurrent'
    BY <1>32 DEF Stages
  <2>5. RegisteredAuthorised'
    BY <1>32 DEF Stages
  <2>6. WarnAfterClose'
    BY <1>32 DEF Stages
  <2>7. InFlightCurrent'
    BY <1>32 DEF Stages
  <2> QED
    BY <2>1, <2>2, <2>3, <2>4, <2>5, <2>6, <2>7 DEF IInv
<1>33. ASSUME NEW c \in Conns, Reply(c) PROVE IInv'
  <2>1. TypeOK'
    BY <1>33 DEF Reply
  <2>2. TunnelLocal'
    BY <1>33 DEF Reply
  <2>3. SocketsOwned'
    BY <1>33 DEF Reply
  <2>4. DecisionCurrent'
    BY <1>33 DEF Reply
  <2>5. RegisteredAuthorised'
    BY <1>33 DEF Reply
  <2>6. WarnAfterClose'
    BY <1>33 DEF Reply
  <2>7. InFlightCurrent'
    BY <1>33 DEF Reply
  <2> QED
    BY <2>1, <2>2, <2>3, <2>4, <2>5, <2>6, <2>7 DEF IInv
<1>34. ASSUME NEW c \in Conns, Forward(c) PROVE IInv'
  <2>1. TypeOK'
    BY <1>34 DEF Forward
  <2>2. TunnelLocal'
    BY <1>34 DEF Forward
  <2>3. SocketsOwned'
    BY <1>34 DEF Forward
  <2>4. DecisionCurrent'
    BY <1>34 DEF Forward
  <2>5. RegisteredAuthorised'
    BY <1>34 DEF Forward
  <2>6. WarnAfterClose'
    BY <1>34 DEF Forward
  <2>7. InFlightCurrent'
    BY <1>34 DEF Forward
  <2> QED
    BY <2>1, <2>2, <2>3, <2>4, <2>5, <2>6, <2>7 DEF IInv
<1>35. ASSUME NEW c \in Conns, RelayEnd(c) PROVE IInv'
  BY <1>35 DEF RelayEnd
<1>36. ASSUME NEW c \in Conns, UpRead(c) PROVE IInv'
  BY <1>36 DEF UpRead
<1>37. ASSUME NEW c \in Conns, UpWrite(c) PROVE IInv'
  BY <1>37 DEF UpWrite
<1>38. ASSUME NEW c \in Conns, DownRead(c) PROVE IInv'
  BY <1>38 DEF DownRead
<1>39. ASSUME NEW c \in Conns, DownWrite(c) PROVE IInv'
  BY <1>39 DEF DownWrite
<1>40. ASSUME NEW c \in Conns, RawExpire(c) PROVE IInv'
  BY <1>40 DEF RawExpire
<1>41. ASSUME NEW c \in Conns, AcceptBadPort(c) PROVE IInv'
  BY <1>41 DEF AcceptBadPort
<1>42. ASSUME NEW c \in Conns, ApplyClose(c) PROVE IInv'
  BY <1>42 DEF ApplyClose
<1>43. CASE UNCHANGED vars
  BY <1>43 DEF vars
<1> QED
  BY <1>1, <1>2, <1>3, <1>4, <1>5, <1>6, <1>7, <1>8, <1>9, <1>10, <1>11, <1>12, <1>13, <1>14, <1>15, <1>16, <1>17, <1>18, <1>19, <1>20, <1>21, <1>22, <1>23, <1>24, <1>25, <1>26, <1>27, <1>28, <1>29, <1>30, <1>31, <1>32, <1>33, <1>34, <1>35, <1>36, <1>37, <1>38, <1>39, <1>40, <1>41, <1>42, <1>43
  DEF Next, ApplyStep, HandlerStep, MitmStep, CopyStep

-----------------------------------------------------------------------------
(* The inductive invariant holds in every reachable state. *)
THEOREM InvariantHolds == Spec => []IInv
<1>1. Init => IInv
  BY InitInv
<1>2. IInv /\ [Next]_vars => IInv'
  BY NextInv
<1> QED
  BY <1>1, <1>2, PTL DEF Spec

(* Type correctness of Server's and the handlers' state. *)
THEOREM TypeCorrect == Spec => []TypeOK
<1>1. IInv => TypeOK
  BY DEF IInv
<1> QED
  BY <1>1, InvariantHolds, PTL

(* Outside Apply every open stream is relayed under the rule that the      *)
(* document in force gives its destination, raw only if that rule lets it  *)
(* go uninspected (trackTunnel, Apply), for any number of connections.     *)
THEOREM StreamsAlwaysAuthorised == Spec => []StreamsAuthorised
<1>1. IInv => StreamsAuthorised
  BY DEF IInv, TypeOK, StreamsAuthorised, TunnelLocal, SocketsOwned,
         RegisteredAuthorised
<1> QED
  BY <1>1, InvariantHolds, PTL

(* activeTunnels misses no open stream and keeps none whose goroutine has  *)
(* returned, and no path of handleCONNECT leaves its upstream socket open. *)
THEOREM RegistryAlwaysExact == Spec => []RegistryExact
<1>1. IInv => RegistryExact
  BY DEF IInv, TypeOK, RegistryExact, TunnelLocal, SocketsOwned
<1> QED
  BY <1>1, InvariantHolds, PTL

(* A request on its way upstream over a registered stream was allowed by   *)
(* the document in force (decideHTTP against a concurrent Apply).          *)
THEOREM InFlightAlwaysCurrent == Spec => []InFlightCurrent
<1>1. IInv => InFlightCurrent
  BY DEF IInv
<1> QED
  BY <1>1, InvariantHolds, PTL

-----------------------------------------------------------------------------
(* A step that leaves the engine, mu, the client sockets and the locals of *)
(* the connections with an open socket alone does not change the gate.     *)
LEMMA GateStutter ==
  ASSUME eng' = eng, mu' = mu, clientOpen' = clientOpen,
         \A c \in clientOpen : dest'[c] = dest[c] /\ rule'[c] = rule[c]
  PROVE  UNCHANGED Gate!gateVars
<1>1. OpenStreams' = OpenStreams
  BY DEF OpenStreams
<1> QED
  BY <1>1 DEF Gate!gateVars

(* A handler that has no stream may change its locals. *)
LEMMA LocalsStutter ==
  ASSUME IInv, NEW c \in Conns, c \notin held,
         eng' = eng, mu' = mu, clientOpen' = clientOpen,
         NEW h, NEW r,
         dest' = dest \/ dest' = [dest EXCEPT ![c] = h],
         rule' = rule \/ rule' = [rule EXCEPT ![c] = r]
  PROVE  UNCHANGED Gate!gateVars
<1>1. c \notin clientOpen /\ clientOpen \subseteq Conns
  BY DEF IInv, SocketsOwned, TypeOK
<1>2. \A e \in clientOpen : dest'[e] = dest[e] /\ rule'[e] = rule[e]
  BY <1>1 DEF IInv, TypeOK
<1> QED
  BY <1>2, GateStutter

(* Closing the client socket of c drops its stream, if it still has one.   *)
LEMMA CloseDrops ==
  ASSUME IInv, NEW c \in Conns, eng' = eng, mu' = mu, dest' = dest,
         rule' = rule, clientOpen' = clientOpen \ {c}
  PROVE  [Gate!Next]_(Gate!gateVars)
<1>1. CASE mu = "free" /\ c \in clientOpen
  <2> DEFINE s == <<c, dest[c], rule[c]>>
  <2>1. s \in OpenStreams
    BY <1>1 DEF OpenStreams
  <2>2. OpenStreams' = OpenStreams \ {s}
    BY <1>1 DEF OpenStreams
  <2> QED
    BY <2>1, <2>2 DEF Gate!Next, Gate!Drop
<1>2. CASE mu # "free"
  BY <1>2 DEF OpenStreams, Gate!gateVars
<1>3. CASE c \notin clientOpen
  <2>1. clientOpen' = clientOpen
    BY <1>3
  <2> QED
    BY <2>1, GateStutter
<1> QED
  BY <1>1, <1>2, <1>3

(* Every step of Server is a step of PolicyGate or leaves it unchanged. *)
LEMMA GateStep == IInv /\ IInv' /\ [Next]_vars => [Gate!Next]_(Gate!gateVars)
<1> SUFFICES ASSUME IInv, IInv', [Next]_vars PROVE [Gate!Next]_(Gate!gateVars)
  OBVIOUS
<1> USE DEF serverVars, localVars, socketVars, copyVars
<1>1. ASSUME NEW d \in Docs, ApplyInstall(d) PROVE Gate!Next
  <2>1. OpenStreams' = {}
    BY <1>1 DEF ApplyInstall, OpenStreams
  <2> QED
    BY <1>1, <2>1 DEF ApplyInstall, Gate!Next, Gate!Install
<1>2. ASSUME NEW c \in Conns, ApplyClose(c) PROVE UNCHANGED Gate!gateVars
  BY <1>2 DEF ApplyClose, OpenStreams, Gate!gateVars
<1>3. CASE ApplyClosed \/ ApplyWarnUnlock
  <2>1. clientOpen' = {} /\ mu # "free" /\ eng' = eng
    BY <1>3 DEF ApplyClosed, ApplyWarnUnlock, IInv, SocketsOwned, WarnAfterClose
  <2> QED
    BY <2>1 DEF OpenStreams, Gate!gateVars
<1>4. CASE ApplyWarnLock \/ (\E b \in BOOLEAN : SetCA(b))
  BY <1>4, GateStutter DEF ApplyWarnLock, SetCA
<1>5. ASSUME NEW c \in Conns, NEW h \in Hosts, Accept(c, h)
      PROVE  UNCHANGED Gate!gateVars
  <2>1. c \notin held
    BY <1>5 DEF Accept, IInv, TunnelLocal, Tunnel, Terminated, Refusing
  <2> QED
    BY <1>5, <2>1, LocalsStutter DEF Accept
<1>6. ASSUME NEW c \in Conns, Decide(c) PROVE UNCHANGED Gate!gateVars
  <2>1. c \notin held
    BY <1>6 DEF Decide, IInv, TunnelLocal, Tunnel, Terminated, Refusing
  <2> QED
    BY <1>6, <2>1, LocalsStutter DEF Decide
<1>7. ASSUME NEW c \in Conns,
             \/ ServeLocal(c) \/ DecideError(c) \/ DialError(c)
             \/ HijackError(c) \/ TrackTunnelStale(c)
      PROVE  UNCHANGED Gate!gateVars
  <2>1. c \notin held
    BY <1>7 DEF ServeLocal, DecideError, DialError, HijackError,
                TrackTunnelStale, IInv, TunnelLocal, Tunnel, Terminated, Refusing
  <2>2. /\ eng' = eng /\ mu' = mu /\ clientOpen' = clientOpen
        /\ Return(c)
    BY <1>7 DEF ServeLocal, DecideError, DialError, HijackError, TrackTunnelStale
  <2> QED
    BY <2>1, <2>2, LocalsStutter DEF Return
<1>8. ASSUME NEW c \in Conns, RecordDenial(c) PROVE UNCHANGED Gate!gateVars
  <2>1. CASE c \in held
    BY <1>8, <2>1, GateStutter DEF RecordDenial
  <2>2. CASE c \notin held
    BY <1>8, <2>2, LocalsStutter DEF RecordDenial, Return
  <2> QED
    BY <2>1, <2>2
<1>9. ASSUME NEW c \in Conns, ReleaseTunnel(c) PROVE UNCHANGED Gate!gateVars
  <2>1. c \notin clientOpen /\ clientOpen \subseteq Conns
    BY <1>9 DEF ReleaseTunnel, IInv, TunnelLocal, TypeOK
  <2>2. \A e \in clientOpen : dest'[e] = dest[e] /\ rule'[e] = rule[e]
    BY <1>9, <2>1 DEF ReleaseTunnel, Return, IInv, TypeOK
  <2> QED
    BY <1>9, <2>2, GateStutter DEF ReleaseTunnel
<1>10. ASSUME NEW c \in Conns, CloseSockets(c) \/ RawExpire(c)
       PROVE  [Gate!Next]_(Gate!gateVars)
  BY <1>10, CloseDrops DEF CloseSockets, RawExpire
<1>11. ASSUME NEW c \in Conns, TrackTunnel(c) PROVE Gate!Next
  <2>1. /\ dest[c] \in Hosts /\ rule[c] \in Tunnelled
        /\ rule[c] = Match[eng][dest[c]]
    BY <1>11 DEF TrackTunnel, IInv, TunnelLocal, DecisionCurrent, PreTunnel
  <2>2. OpenStreams' = OpenStreams \cup {<<c, dest[c], rule[c]>>}
    BY <1>11 DEF TrackTunnel, OpenStreams
  <2>3. Gate!Admit(c, dest[c])
    BY <1>11, <2>1, <2>2 DEF TrackTunnel, Gate!Admit
  <2> QED
    BY <2>1, <2>3 DEF Gate!Next
<1>12. ASSUME NEW c \in Conns, NEW r \in Reqs, ReadRequest(c, r)
       PROVE  UNCHANGED Gate!gateVars
  BY <1>12, GateStutter DEF ReadRequest
<1>13. ASSUME NEW c \in Conns,
              \/ Snapshot(c) \/ Dial(c) \/ Dispatch(c) \/ PeekTLS(c)
              \/ PeekPlain(c) \/ PeekError(c) \/ AuditLock(c) \/ AuditUnlock(c)
              \/ RawJoin(c) \/ MitmStart(c) \/ MitmLoop(c) \/ ReadRequestError(c)
              \/ DecideL4(c) \/ DecideL7(c) \/ Stages(c) \/ Reply(c)
              \/ Forward(c) \/ RelayEnd(c) \/ UpRead(c) \/ UpWrite(c)
              \/ DownRead(c) \/ DownWrite(c) \/ AcceptBadPort(c)
       PROVE  UNCHANGED Gate!gateVars
  BY <1>13, GateStutter DEF
     Snapshot, Dial, Dispatch, PeekTLS, PeekPlain, PeekError, AuditLock,
     AuditUnlock, RawJoin, MitmStart, MitmLoop, ReadRequestError, DecideL4,
     DecideL7, Stages, Reply, Forward, RelayEnd, UpRead, UpWrite, DownRead,
     DownWrite, AcceptBadPort, StartMitm, StartRaw
<1>14. CASE UNCHANGED vars
  BY <1>14, GateStutter DEF vars
<1> QED
  BY <1>1, <1>2, <1>3, <1>4, <1>5, <1>6, <1>7, <1>8, <1>9, <1>10, <1>11,
     <1>12, <1>13, <1>14
  DEF Next, ApplyStep, HandlerStep, MitmStep, CopyStep

(* Server implements PolicyGate: every open stream was admitted by the     *)
(* policy in force, and a policy update ends every stream.                 *)
THEOREM ServerImplementsGate == Spec => GateSpec
<1>1. Init => Gate!Init
  BY DEF Init, Gate!Init, OpenStreams
<1>2. IInv /\ IInv' /\ [Next]_vars => [Gate!Next]_(Gate!gateVars)
  BY GateStep
<1> QED
  BY <1>1, <1>2, InvariantHolds, PTL DEF Spec, GateSpec, Gate!Spec
=============================================================================
