-------------------------- MODULE PolicyWatchProofs --------------------------
(***************************************************************************)
(* TLAPS proofs about PolicyWatch, for any contents, documents, revisions  *)
(* and any timing of the file, the gateway and other callers of Apply.     *)
(***************************************************************************)
EXTENDS PolicyWatch, TLAPS

(* Within a tick: the bytes read are at hand, and what the watcher has     *)
(* applied stands until it reports, unless another Apply came after.       *)
TickCoherent ==
    /\ pc \in {"load", "failed", "applied"} => raw \in Contents
    /\ pc = "failed" /\ owner = "watch" => doc = DenyAll
    /\ pc = "applied" => Loadable(raw)
    /\ pc = "applied" /\ owner = "watch" => doc = Parse[raw]

WInv == TypeOK /\ TickCoherent /\ BeliefCoherent /\ AckedOrClosed

(* The watcher starts coherent: nothing is its own yet. *)
LEMMA WatchInit == Init => WInv
<1> SUFFICES ASSUME Init PROVE WInv
  OBVIOUS
<1>1. TypeOK
  <2>1. failClosed \in BOOLEAN
    BY DEF Init
  <2>2. 0 \in 0..MaxWrites /\ 0 \in 0..MaxOutages /\ 0 \in 0..MaxForeign
    BY WatchAssumption
  <2> QED
    BY <2>1, <2>2 DEF Init, TypeOK
<1>2. TickCoherent /\ BeliefCoherent /\ AckedOrClosed
  BY DEF Init, TickCoherent, BeliefCoherent, AckedOrClosed
<1> QED
  BY <1>1, <1>2 DEF WInv

(* Every step of the watcher and of its surroundings keeps it coherent. *)
LEMMA WatchStep == WInv /\ [Next]_vars => WInv'
<1> SUFFICES ASSUME WInv, [Next]_vars PROVE WInv'
  OBVIOUS
<1> USE WatchAssumption
    DEF WInv, TypeOK, TickCoherent, BeliefCoherent, AckedOrClosed,
        envVars, watchVars, WatchApplies, Loadable, Reports
<1>1. CASE ReadError
  BY <1>1 DEF ReadError
<1>2. CASE Read
  BY <1>2 DEF Read
<1>3. CASE LoadError
  BY <1>3 DEF LoadError
<1>4. CASE ReportFailure
  BY <1>4 DEF ReportFailure
<1>5. CASE Load
  BY <1>5 DEF Load
<1>6. CASE ReportLoaded
  BY <1>6 DEF ReportLoaded
<1>7. CASE ReportLoadedError
  BY <1>7 DEF ReportLoadedError
<1>8. CASE Stop
  BY <1>8 DEF Stop
<1>9. ASSUME NEW c \in Contents \cup {Missing}, WriteFile(c) PROVE WInv'
  BY <1>9 DEF WriteFile
<1>10. CASE GatewayFlips
  BY <1>10 DEF GatewayFlips
<1>11. ASSUME NEW d \in Docs, ForeignApply(d) PROVE WInv'
  BY <1>11 DEF ForeignApply
<1>12. CASE Unchanged \/ UNCHANGED vars
  BY <1>12 DEF Unchanged, vars
<1> QED
  BY <1>1, <1>2, <1>3, <1>4, <1>5, <1>6, <1>7, <1>8, <1>9, <1>10, <1>11, <1>12
  DEF Next, Tick

(* The inductive invariant of the watcher. *)
THEOREM WatchInvariant == Spec => []WInv
<1>1. Init => WInv
  BY WatchInit
<1>2. WInv /\ [Next]_vars => WInv'
  BY WatchStep
<1> QED
  BY <1>1, <1>2, PTL DEF Spec

(* Between ticks the watcher's lastHash and failClosed describe what the   *)
(* server enforces, so a tick that skips the file skips nothing.           *)
THEOREM BeliefAlwaysCoherent == Spec => []BeliefCoherent
<1>1. WInv => BeliefCoherent
  BY DEF WInv
<1> QED
  BY <1>1, WatchInvariant, PTL

(* An allowlist that the gateway has not acknowledged is in force only     *)
(* while its report is on the way.                                         *)
THEOREM AlwaysAckedOrClosed == Spec => []AckedOrClosed
<1>1. WInv => AckedOrClosed
  BY DEF WInv
<1> QED
  BY <1>1, WatchInvariant, PTL

(* The watcher's state is always well-typed. *)
THEOREM TypeCorrect == Spec => []TypeOK
<1>1. WInv => TypeOK
  BY DEF WInv
<1> QED
  BY <1>1, WatchInvariant, PTL
=============================================================================
