----------------------------- MODULE PolicyWatch -----------------------------
(***************************************************************************)
(* Server.WatchPolicy (proxy/watch.go): one goroutine polls the policy     *)
(* file, applies what it finds, reports the revision to the gateway, and   *)
(* clears the policy (default deny) whenever it cannot read, parse, apply  *)
(* or have acknowledged what the file says.  The file, the gateway and     *)
(* other callers of Apply change between any two of its steps.             *)
(*                                                                         *)
(* Server.Apply is one step here; EgressServer has its inside.  A content  *)
(* stands for its SHA-256.                                                 *)
(***************************************************************************)
EXTENDS Naturals

CONSTANTS
    Contents,     \* contents the file can have, torn writes included
    Docs,         \* documents that policy.Parse can return
    DenyAll,      \* policy.Document{Version: 1}
    Parse,        \* Parse[c]: the document of c, or Invalid
    Rejected,     \* documents that the engine refuses to apply
    Revision,     \* policyRevision of each content; 0 if it names none
    HasReporter,  \* Server.ReportPolicyStatus is set
    MaxWrites,    \* bound: changes of the file
    MaxOutages,   \* bound: changes of the gateway's health
    MaxForeign    \* bound: calls of Apply by others

CONSTANTS Invalid, Missing, NoHash

ASSUME WatchAssumption ==
    /\ DenyAll \in Docs \ Rejected
    /\ Parse \in [Contents -> Docs \cup {Invalid}]
    /\ Invalid \notin Docs
    /\ Revision \in [Contents -> Nat]
    /\ HasReporter \in BOOLEAN
    /\ Missing \notin Contents
    /\ NoHash \notin Contents
    /\ MaxWrites \in Nat /\ MaxOutages \in Nat /\ MaxForeign \in Nat

VARIABLES
    file,        \* the content of the policy file, or Missing
    gwUp,        \* the gateway acknowledges
    acked,       \* contents whose revision the gateway acknowledged as loaded
    doc,         \* Server.doc
    owner,       \* who applied doc: "start", "watch" or "foreign"
    pc,          \* the watcher: "wait", "load", "failed", "applied", "stopped"
    raw,         \* the bytes read in this tick
    lastHash,
    failClosed,
    writes, outages, foreign    \* counters behind the bounds

envVars   == <<file, gwUp, writes, outages, foreign>>
watchVars == <<pc, raw, lastHash, failClosed>>
vars == <<envVars, acked, doc, owner, watchVars>>

Init ==
    /\ file \in Contents \cup {Missing}
    /\ gwUp \in BOOLEAN
    /\ acked = {}
    /\ doc \in Docs \ Rejected
    /\ owner = "start"
    /\ pc = "wait"
    /\ raw = NoHash
    /\ lastHash = NoHash
    /\ failClosed = FALSE
    /\ writes = 0 /\ outages = 0 /\ foreign = 0

Loadable(c) == Parse[c] \in Docs \ Rejected

(* reportPolicyStatus has something to report and someone to report it to. *)
Reports(c) == HasReporter /\ Revision[c] # 0

-----------------------------------------------------------------------------
(* The world around the watcher. *)
WriteFile(c) ==
    /\ writes < MaxWrites
    /\ file' = c
    /\ writes' = writes + 1
    /\ UNCHANGED <<gwUp, outages, foreign, acked, doc, owner, watchVars>>

GatewayFlips ==
    /\ outages < MaxOutages
    /\ gwUp' = ~gwUp
    /\ outages' = outages + 1
    /\ UNCHANGED <<file, writes, foreign, acked, doc, owner, watchVars>>

(* Another holder of the EgressProxy interface calls Apply. *)
ForeignApply(d) ==
    /\ foreign < MaxForeign
    /\ d \notin Rejected
    /\ doc' = d
    /\ owner' = "foreign"
    /\ foreign' = foreign + 1
    /\ UNCHANGED <<file, gwUp, writes, outages, acked, watchVars>>

-----------------------------------------------------------------------------
WatchApplies(d) == doc' = d /\ owner' = "watch"

(* A tick finds no readable file: the policy is cleared, once. *)
ReadError ==
    /\ pc = "wait"
    /\ file = Missing
    /\ IF failClosed THEN UNCHANGED <<doc, owner>> ELSE WatchApplies(DenyAll)
    /\ failClosed' = TRUE
    /\ UNCHANGED <<envVars, acked, pc, raw, lastHash>>

(* A tick finds the content it knows and has no failure to make good. *)
Unchanged ==
    /\ pc = "wait"
    /\ file # Missing
    /\ file = lastHash
    /\ ~failClosed
    /\ UNCHANGED vars

(* Mutant: a failure is not retried while the content stays the same. *)
ReadNoRetry ==
    /\ pc = "wait"
    /\ file # Missing
    /\ file # lastHash
    /\ raw' = file
    /\ pc' = "load"
    /\ UNCHANGED <<envVars, acked, doc, owner, lastHash, failClosed>>

Read ==
    /\ pc = "wait"
    /\ file # Missing
    /\ file # lastHash \/ failClosed
    /\ raw' = file
    /\ pc' = "load"
    /\ UNCHANGED <<envVars, acked, doc, owner, lastHash, failClosed>>

(* policy.Parse or Apply fails: failClosedPolicy, then the report. *)
LoadError ==
    /\ pc = "load"
    /\ ~Loadable(raw)
    /\ WatchApplies(DenyAll)
    /\ pc' = "failed"
    /\ UNCHANGED <<envVars, acked, raw, lastHash, failClosed>>

(* The result of reporting a failure is ignored. *)
ReportFailure ==
    /\ pc = "failed"
    /\ lastHash' = raw
    /\ failClosed' = TRUE
    /\ pc' = "wait"
    /\ raw' = NoHash
    /\ UNCHANGED <<envVars, acked, doc, owner>>

Load ==
    /\ pc = "load"
    /\ Loadable(raw)
    /\ WatchApplies(Parse[raw])
    /\ pc' = "applied"
    /\ UNCHANGED <<envVars, acked, raw, lastHash, failClosed>>

(* Mutant: the gateway's answer is not looked at. *)
ReportLoadedUnchecked ==
    /\ pc = "applied"
    /\ acked' = IF Reports(raw) /\ gwUp THEN acked \cup {raw} ELSE acked
    /\ lastHash' = raw
    /\ failClosed' = FALSE
    /\ pc' = "wait"
    /\ raw' = NoHash
    /\ UNCHANGED <<envVars, doc, owner>>

(* Acknowledged, or nothing to acknowledge. *)
ReportLoaded ==
    /\ pc = "applied"
    /\ Reports(raw) => gwUp
    /\ acked' = IF Reports(raw) THEN acked \cup {raw} ELSE acked
    /\ lastHash' = raw
    /\ failClosed' = FALSE
    /\ pc' = "wait"
    /\ raw' = NoHash
    /\ UNCHANGED <<envVars, doc, owner>>

(* Mutant: the policy is cleared but failClosed is not set. *)
ReportLoadedErrorForgotten ==
    /\ pc = "applied"
    /\ Reports(raw)
    /\ ~gwUp
    /\ WatchApplies(DenyAll)
    /\ lastHash' = raw
    /\ failClosed' = FALSE
    /\ pc' = "wait"
    /\ raw' = NoHash
    /\ UNCHANGED <<envVars, acked>>

(* The gateway does not acknowledge: reportPolicyStatus clears the policy. *)
ReportLoadedError ==
    /\ pc = "applied"
    /\ Reports(raw)
    /\ ~gwUp
    /\ WatchApplies(DenyAll)
    /\ lastHash' = raw
    /\ failClosed' = TRUE
    /\ pc' = "wait"
    /\ raw' = NoHash
    /\ UNCHANGED <<envVars, acked>>

(* The context is done. *)
Stop ==
    /\ pc = "wait"
    /\ pc' = "stopped"
    /\ UNCHANGED <<envVars, acked, doc, owner, raw, lastHash, failClosed>>

Tick ==
    \/ ReadError \/ Unchanged \/ Read \/ LoadError \/ ReportFailure
    \/ Load \/ ReportLoaded \/ ReportLoadedError

Next ==
    \/ Tick
    \/ Stop
    \/ \E c \in Contents \cup {Missing} : WriteFile(c)
    \/ GatewayFlips
    \/ \E d \in Docs : ForeignApply(d)

Spec == Init /\ [][Next]_vars

(* The ticker fires and the goroutine runs. *)
FairSpec == Spec /\ WF_vars(Tick)

-----------------------------------------------------------------------------
(* Types of the watcher's state. *)
TypeOK ==
    /\ file \in Contents \cup {Missing}
    /\ gwUp \in BOOLEAN
    /\ acked \subseteq Contents
    /\ doc \in Docs
    /\ owner \in {"start", "watch", "foreign"}
    /\ pc \in {"wait", "load", "failed", "applied", "stopped"}
    /\ raw \in Contents \cup {NoHash}
    /\ lastHash \in Contents \cup {NoHash}
    /\ failClosed \in BOOLEAN
    /\ writes \in 0..MaxWrites
    /\ outages \in 0..MaxOutages
    /\ foreign \in 0..MaxForeign

(* Between ticks what the watcher believes is what the server enforces,    *)
(* unless another caller of Apply had the last word: failClosed means that *)
(* the policy is cleared; otherwise lastHash is the content in force.      *)
(* Skipping an unchanged file (watch.go:43) is right only because of this. *)
BeliefCoherent ==
    pc \in {"wait", "stopped"} /\ owner = "watch" =>
        IF failClosed THEN doc = DenyAll
                      ELSE lastHash \in Contents /\ doc = Parse[lastHash]

(* But for the time its report is on the way, an allowlist that the        *)
(* watcher applied is the document of some content that names no revision  *)
(* or has been acknowledged by the gateway (the comment in                 *)
(* reportPolicyStatus).                                                    *)
AckedOrClosed ==
    owner = "watch" /\ doc # DenyAll /\ pc # "applied" /\ HasReporter =>
        \E c \in Contents :
            /\ doc = Parse[c]
            /\ Revision[c] # 0 => c \in acked

(* What file and gateway ask the proxy to enforce.  While the gateway is   *)
(* down a content acknowledged before stays in force, a new one does not.  *)
Wanted ==
    IF file = Missing \/ ~Loadable(file)
    THEN {DenyAll}
    ELSE {Parse[file]} \cup {d \in {DenyAll} : Reports(file) /\ ~gwUp}

(* Once file and gateway stop changing, the server enforces what they ask  *)
(* for between ticks, for good, unless someone else's Apply came last or   *)
(* the watcher was stopped: whatever document the engine started with, and *)
(* however failures were timed, nothing is left behind.                    *)
Converges ==
    <>[](pc = "wait" /\ owner # "foreign" => doc \in Wanted)
=============================================================================
