----------------------------- MODULE PolicyGate -----------------------------
(***************************************************************************)
(* What hot reload promises of the CONNECT path, with no lock, handler or  *)
(* socket in sight: there is one policy in force, every open stream was    *)
(* admitted by it under the very rule it still gives the stream's          *)
(* destination, and installing a policy ends every stream.  EgressServer   *)
(* is shown to implement this module.                                      *)
(***************************************************************************)
CONSTANTS
    Conns,      \* client connections
    Docs,       \* policy documents
    Hosts,      \* CONNECT destinations
    Tunnelled,  \* the kinds that let a stream through
    Match       \* Match[d][h]: the kind of the engine's verdict

VARIABLES
    policy,     \* the document in force
    admitted    \* open streams: <<connection, destination, rule>>

gateVars == <<policy, admitted>>

Init ==
    /\ policy \in Docs
    /\ admitted = {}

(* A new document takes force; no stream outlives the change. *)
Install(d) ==
    /\ policy' = d
    /\ admitted' = {}

(* A stream is opened only by the policy in force at that moment. *)
Admit(c, h) ==
    /\ Match[policy][h] \in Tunnelled
    /\ admitted' = admitted \cup {<<c, h, Match[policy][h]>>}
    /\ UNCHANGED policy

(* A stream ends for a reason of its own. *)
Drop(s) ==
    /\ admitted' = admitted \ {s}
    /\ UNCHANGED policy

Next ==
    \/ \E d \in Docs : Install(d)
    \/ \E c \in Conns, h \in Hosts : Admit(c, h)
    \/ \E s \in admitted : Drop(s)

Spec == Init /\ [][Next]_gateVars
=============================================================================
