---------------------------- MODULE TunnelState ----------------------------
(***************************************************************************)
(* The tunnel's lifecycle graph (tuntop/core/state.py): its states, their  *)
(* classes, the legal-transition table, and the two ways of moving through *)
(* it - try_transition, which ignores an illegal target, and reset, which  *)
(* forces STOPPED.                                                         *)
(***************************************************************************)
EXTENDS Naturals

StartSeq == <<"STARTING", "RESOLVING", "STARTING_TUN", "STARTING_TUN2SOCKS",
              "INSTALLING_ROUTES", "VERIFYING">>

StartPhases == {StartSeq[i] : i \in 1..6}
Operational == {"RUNNING", "DEGRADED"}
Terminal    == {"STOPPED", "FAILED"}
Health      == Operational \cup {"RECOVERING"}

TunnelStates == StartPhases \cup Health \cup Terminal \cup {"STOPPING"}

\* A start phase may skip ahead, never back; its only exits are FAILED and
\* STOPPING, and VERIFYING alone opens the operational states.
StartEdges(i) ==
    {StartSeq[j] : j \in (i + 1)..6} \cup {"FAILED", "STOPPING"}
        \cup (IF StartSeq[i] = "VERIFYING" THEN Operational ELSE {})

RestEdges ==
    [ STOPPED    |-> {"STARTING"},
      RUNNING    |-> {"DEGRADED", "RECOVERING", "STOPPING", "FAILED"},
      DEGRADED   |-> {"RUNNING", "RECOVERING", "STOPPING", "FAILED"},
      RECOVERING |-> {"RUNNING", "DEGRADED", "STOPPING", "FAILED"},
      STOPPING   |-> {"STOPPED", "FAILED"},
      FAILED     |-> {"STARTING", "STOPPING", "STOPPED"} ]

Transitions ==
    [ s \in TunnelStates |->
        IF s \in StartPhases
        THEN StartEdges(CHOOSE i \in 1..6 : StartSeq[i] = s)
        ELSE RestEdges[s] ]

\* can_transition: a state is never its own successor, so asking for the
\* current state is refused like any illegal target.
CanMove(source, target) == target \in Transitions[source]

\* try_transition: the machine's state after a request that may be refused.
TryMove(source, target) == IF CanMove(source, target) THEN target ELSE source
=============================================================================
