------------------------------ MODULE DnsGuard ------------------------------
(***************************************************************************)
(* The catch-all name-resolution rule that pins Windows' DNS to the tunnel *)
(* (tuntop/network/dns_guard.py).  A rule that outlives the tunnel leaves  *)
(* the machine without name resolution, so it has several removers: the    *)
(* helper that wrote it, the dashboard's sweeps, the recovery of a later   *)
(* process, and a task that runs once at the next boot, the only one that  *)
(* a power loss does not take away.                                        *)
(*                                                                         *)
(* Installing and removing are several PowerShell calls each; one step is  *)
(* one call, which can fail, and a process can be killed between any two.  *)
(***************************************************************************)
EXTENDS Naturals, FiniteSets

CONSTANTS
    Helpers,    \* tunnel helpers: they install the rule, and remove it
    Sweepers,   \* dashboards, watchdogs, --remove-dns-guard: they remove it
    None,
    MaxFaults,  \* bound: calls that fail
    MaxWipes,   \* bound: times another program removes the rule
    Overlap     \* may one process's operation run during another's?

Procs == Helpers \cup Sweepers

ASSUME GuardAssumption ==
    /\ Helpers \cap Sweepers = {} /\ None \notin Procs
    /\ MaxFaults \in Nat /\ MaxWipes \in Nat /\ Overlap \in BOOLEAN

VARIABLES
    rule,     \* the rule in the registry: the helper that wrote it last
    record,   \* the install record: its owner, or None
    task,     \* the boot task is registered
    proc,     \* each process: "off", "up" or "dead"
    op,       \* the call each process makes next
    armed,    \* each installer: arm_boot_cleanup() has succeeded
    warned,   \* an install has said that the rule is not crash-safe
    faults, wipes

vars == <<rule, record, task, proc, op, armed, warned, faults, wipes>>

Init ==
    /\ rule = None /\ record = None /\ task = FALSE
    /\ proc = [p \in Procs |-> "off"] /\ op = [p \in Procs |-> "idle"]
    /\ armed = [p \in Procs |-> FALSE] /\ warned = FALSE
    /\ faults = 0 /\ wipes = 0

May(p) == Overlap \/ \A q \in Procs \ {p} : op[q] = "idle"
At(p, call)   == proc[p] = "up" /\ op[p] = call
Goto(p, call) == op' = [op EXCEPT ![p] = call]
Fault         == faults < MaxFaults /\ faults' = faults + 1
OwnerAlive(p) == record \notin {None, p} /\ proc[record] = "up"

-----------------------------------------------------------------------------
(* install(): arm, write, record.                                           *)

\* A helper comes up, and installs.
Start(h) ==
    /\ proc[h] = "off" /\ May(h)
    /\ proc' = [proc EXCEPT ![h] = "up"]
    /\ Goto(h, "arm")
    /\ UNCHANGED <<rule, record, task, armed, warned, faults, wipes>>

\* A change of resolvers and a self-heal install again, and so does the
\* monitor when it finds the rule missing.
Refresh(h) ==
    /\ h \in Helpers /\ At(h, "idle") /\ May(h)
    /\ Goto(h, "arm")
    /\ UNCHANGED <<rule, record, task, proc, armed, warned, faults, wipes>>

\* Faulty: the record is looked at, not the registry.
ReassertByRecord(h) ==
    /\ h \in Helpers /\ At(h, "idle") /\ May(h) /\ record = None
    /\ Goto(h, "arm")
    /\ UNCHANGED <<rule, record, task, proc, armed, warned, faults, wipes>>

Reassert(h) ==
    /\ h \in Helpers /\ At(h, "idle") /\ May(h) /\ rule = None
    /\ Goto(h, "arm")
    /\ UNCHANGED <<rule, record, task, proc, armed, warned, faults, wipes>>

\* Faulty: the scheduler's word is taken, the task not looked for.
ArmTrusts(h) ==
    /\ At(h, "arm") /\ Goto(h, "write")
    /\ armed' = [armed EXCEPT ![h] = TRUE]
    /\ \/ task' = TRUE /\ UNCHANGED faults
       \/ Fault /\ UNCHANGED task
    /\ UNCHANGED <<rule, record, proc, warned, wipes>>

Arm(h) ==
    /\ At(h, "arm") /\ Goto(h, "write")
    /\ \/ task' = TRUE /\ armed' = [armed EXCEPT ![h] = TRUE] /\ UNCHANGED faults
       \/ Fault /\ armed' = [armed EXCEPT ![h] = FALSE] /\ UNCHANGED task
    /\ UNCHANGED <<rule, record, proc, warned, wipes>>

\* Faulty: the old rule is dropped before the new one is written.
SwapRule(h) ==
    /\ At(h, "write")
    /\ \/ rule # None /\ rule' = None /\ UNCHANGED <<op, faults>>
       \/ rule = None /\ rule' = h /\ Goto(h, "record") /\ UNCHANGED faults
    /\ warned' = IF rule' = h THEN ~armed[h] ELSE warned
    /\ UNCHANGED <<record, task, proc, armed, wipes>>

\* Written in place: a write that fails leaves the rule there was, and ends
\* the install; the task stays.
WriteRule(h) ==
    /\ At(h, "write")
    /\ \/ rule' = h /\ Goto(h, "record") /\ UNCHANGED faults
       \/ Fault /\ Goto(h, "idle") /\ UNCHANGED rule
    /\ warned' = IF rule' = h THEN ~armed[h] ELSE warned
    /\ UNCHANGED <<record, task, proc, armed, wipes>>

Record(h) ==
    /\ At(h, "record") /\ Goto(h, "idle")
    /\ \/ record' = h /\ UNCHANGED faults
       \/ Fault /\ UNCHANGED record
    /\ UNCHANGED <<rule, task, proc, armed, warned, wipes>>

-----------------------------------------------------------------------------
(* ensure_removed(): look, sweep, forget, disarm.                           *)

\* A sweeper is a process of its own; a helper removes at the end of its run.
Remove(p) ==
    /\ May(p)
    /\ \/ p \in Sweepers /\ proc[p] # "up" /\ proc' = [proc EXCEPT ![p] = "up"]
       \/ p \in Helpers /\ At(p, "idle") /\ UNCHANGED proc
    /\ Goto(p, "look")
    /\ UNCHANGED <<rule, record, task, armed, warned, faults, wipes>>

\* A rule recorded by another process that still runs is left, unless a
\* recovery forces the removal; without a record the registry is asked.
Look(p) ==
    /\ At(p, "look")
    /\ \E force \in {FALSE, (p \in Sweepers)} :
         Goto(p, IF \/ ~force /\ OwnerAlive(p)
                    \/ record = None /\ rule = None
                 THEN "leave" ELSE "sweep")
    /\ UNCHANGED <<rule, record, task, proc, armed, warned, faults, wipes>>

\* The store is read again after the removals: what survives is a failure.
Sweep(p) ==
    /\ At(p, "sweep")
    /\ \/ rule' = None /\ Goto(p, "forget") /\ UNCHANGED faults
       \/ Fault /\ Goto(p, "leave") /\ UNCHANGED rule
    /\ UNCHANGED <<record, task, proc, armed, warned, wipes>>

Forget(p) ==
    /\ At(p, "forget") /\ Goto(p, "disarm")
    /\ record' = None
    /\ UNCHANGED <<rule, task, proc, armed, warned, faults, wipes>>

Disarm(p) ==
    /\ At(p, "disarm") /\ Goto(p, "leave")
    /\ \/ task' = FALSE /\ UNCHANGED faults
       \/ Fault /\ UNCHANGED task
    /\ UNCHANGED <<rule, record, proc, armed, warned, wipes>>

\* A remover has no more to do: the helper ends with its clean-up.
Leave(p) ==
    /\ At(p, "leave") /\ Goto(p, "idle")
    /\ proc' = [proc EXCEPT ![p] = "dead"]
    /\ UNCHANGED <<rule, record, task, armed, warned, faults, wipes>>

-----------------------------------------------------------------------------
(* The machine around them.                                                 *)

Kill(p) ==
    /\ proc[p] = "up"
    /\ proc' = [proc EXCEPT ![p] = "dead"] /\ Goto(p, "idle")
    /\ UNCHANGED <<rule, record, task, armed, warned, faults, wipes>>

\* Another program's policy refresh takes the rule away.
Wipe ==
    /\ rule # None /\ wipes < MaxWipes
    /\ rule' = None /\ wipes' = wipes + 1
    /\ UNCHANGED <<record, task, proc, op, armed, warned, faults>>

\* The boot task removes the rule and the record, and itself.
PowerLoss ==
    /\ \E p \in Procs : proc[p] = "up"
    /\ proc' = [p \in Procs |-> IF proc[p] = "off" THEN "off" ELSE "dead"]
    /\ op' = [p \in Procs |-> "idle"]
    /\ rule' = IF task THEN None ELSE rule
    /\ record' = IF task THEN None ELSE record
    /\ task' = FALSE
    /\ UNCHANGED <<armed, warned, faults, wipes>>

Runs(p) ==
    \/ p \in Helpers /\ (Arm(p) \/ WriteRule(p) \/ Record(p))
    \/ Look(p) \/ Sweep(p) \/ Forget(p) \/ Disarm(p) \/ Leave(p)

Next ==
    \/ \E h \in Helpers : Start(h) \/ Refresh(h) \/ Reassert(h)
    \/ \E p \in Procs : Remove(p) \/ Runs(p) \/ Kill(p)
    \/ Wipe \/ PowerLoss

\* A process that is not killed runs on, and its monitor comes round.
Spec == /\ Init /\ [][Next]_vars
        /\ \A p \in Procs : WF_vars(Runs(p))
        /\ \A h \in Helpers : SF_vars(Reassert(h))

-----------------------------------------------------------------------------
(* Properties.                                                              *)

\* Every variable stays in its set.
TypeOK ==
    /\ rule \in Helpers \cup {None} /\ record \in Helpers \cup {None}
    /\ task \in BOOLEAN /\ warned \in BOOLEAN
    /\ proc \in [Procs -> {"off", "up", "dead"}]
    /\ op \in [Procs -> {"idle", "arm", "write", "record", "look", "sweep",
                         "forget", "disarm", "leave"}]
    /\ armed \in [Procs -> BOOLEAN]
    /\ faults \in 0..MaxFaults /\ wipes \in 0..MaxWipes

\* Whatever call the machine loses power in, the rule it leaves is one the
\* boot task removes, or one the user was told is not crash-safe.
PowerLossSafe == rule # None /\ ~warned => task

\* The two together, with the processes taking turns.
GuardInvariant == TypeOK /\ PowerLossSafe

\* Installing over a rule never opens a gap in which there is none.
NoGapOnRefresh ==
    [][\A h \in Helpers : op[h] = "write" /\ rule # None /\ wipes' = wipes
          => rule' # None \/ proc'[h] # "up"]_vars

\* A helper that stays up has its names pinned again and again, whoever
\* removes the rule.
GuardKept == \A h \in Helpers :
    <>[](proc[h] = "up" /\ op[h] \in {"idle", "arm", "write", "record"})
        => []<>(rule # None)
=============================================================================
