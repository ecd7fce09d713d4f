--------------------------- MODULE DnsGuardProofs ---------------------------
(***************************************************************************)
(* Theorems about the DNS guard, for any helpers and sweepers and any      *)
(* number of failing calls and wipes, when one process's operation does    *)
(* not run during another's (~Overlap; DnsGuardOverlap.cfg shows that the  *)
(* first theorem needs it).                                                *)
(*                                                                         *)
(* A rule that survives a power loss is one the boot task removes, or one  *)
(* the user was warned of.  That is not inductive: it rests on what a call *)
(* knows of the calls before it.  An installer about to write knows that a *)
(* task it armed is still there, a remover about to disarm knows that the  *)
(* rule is gone, and both know it because nobody else is between two calls.*)
(***************************************************************************)
EXTENDS DnsGuard, TLAPS

Turns == \A p, q \in Procs : p # q => op[p] = "idle" \/ op[q] = "idle"

ArmedKeepsTask == \A h \in Helpers : op[h] = "write" /\ armed[h] => task

DisarmsNothing == \A p \in Procs : op[p] \in {"forget", "disarm"} => rule = None

GuardInv == GuardInvariant /\ Turns /\ ArmedKeepsTask /\ DisarmsNothing

USE GuardAssumption DEF Procs, Goto, At, May, Fault

-----------------------------------------------------------------------------

\* Nothing is installed at the start.
LEMMA InitEstablishes == Init => GuardInv
<1> SUFFICES ASSUME Init PROVE GuardInv
    OBVIOUS
<1>1. TypeOK
  <2>1. faults \in 0..MaxFaults /\ wipes \in 0..MaxWipes
    BY DEF Init
  <2> QED
    BY <2>1 DEF Init, TypeOK
<1>2. PowerLossSafe /\ Turns /\ ArmedKeepsTask /\ DisarmsNothing
    BY DEF Init, PowerLossSafe, Turns, ArmedKeepsTask, DisarmsNothing
<1> QED
    BY <1>1, <1>2 DEF GuardInv, GuardInvariant

\* While one process is between two calls, every other is idle; so its next
\* call leaves at most itself busy.
LEMMA OthersIdle ==
    ASSUME Turns, NEW p \in Procs, op[p] # "idle"
    PROVE  \A q \in Procs \ {p} : op[q] = "idle"
BY DEF Turns

\* An operation that may start leaves at most its own process busy.
LEMMA MayAlone ==
    ASSUME ~Overlap, NEW p \in Procs, May(p)
    PROVE  \A q \in Procs \ {p} : op[q] = "idle"
OBVIOUS

\* Whoever moves while all others idle keeps the turns.
LEMMA TurnsKept ==
    ASSUME TypeOK, NEW p \in Procs, NEW call, Goto(p, call),
           \A q \in Procs \ {p} : op[q] = "idle"
    PROVE  /\ Turns'
           /\ op'[p] = call
           /\ \A q \in Procs \ {p} : op'[q] = "idle"
BY DEF TypeOK, Turns

\* A call that fails is counted within its bound.
LEMMA FaultsBounded ==
    ASSUME TypeOK, Fault \/ UNCHANGED faults
    PROVE  faults' \in 0..MaxFaults
BY DEF TypeOK

\* The first call of an operation, of an installer or a remover.
LEMMA BeginsPreserve ==
    ASSUME ~Overlap, GuardInv,
           \/ \E h \in Helpers : Start(h) \/ Refresh(h) \/ Reassert(h)
           \/ \E p \in Procs : Remove(p)
    PROVE  GuardInv'
<1>1. PICK p \in Procs, call \in {"arm", "look"} :
          /\ May(p) /\ Goto(p, call)
          /\ UNCHANGED <<rule, record, task, armed, warned, faults, wipes>>
          /\ proc' \in {proc, [proc EXCEPT ![p] = "up"]}
    BY DEF Start, Refresh, Reassert, Remove
<1>2. TypeOK /\ PowerLossSafe /\ Turns
    BY DEF GuardInv, GuardInvariant
<1>3. /\ Turns' /\ op'[p] = call
      /\ \A q \in Procs \ {p} : op'[q] = "idle"
    BY <1>1, <1>2, MayAlone, TurnsKept
<1>4. TypeOK'
    BY <1>1, <1>2 DEF TypeOK
<1>5. PowerLossSafe' /\ ArmedKeepsTask' /\ DisarmsNothing'
    BY <1>1, <1>2, <1>3 DEF PowerLossSafe, ArmedKeepsTask, DisarmsNothing
<1> QED
    BY <1>2, <1>3, <1>4, <1>5 DEF GuardInv, GuardInvariant

\* install(): the rule is written with the task armed, or with a warning.
LEMMA InstallPreserves ==
    ASSUME GuardInv, NEW h \in Helpers, Arm(h) \/ WriteRule(h) \/ Record(h)
    PROVE  GuardInv'
<1>1. TypeOK /\ PowerLossSafe /\ Turns /\ ArmedKeepsTask /\ DisarmsNothing
    BY DEF GuardInv, GuardInvariant
<1>2. h \in Procs /\ op[h] # "idle"
    BY DEF Arm, WriteRule, Record
<1>3. \A q \in Procs \ {h} : op[q] = "idle"
    BY <1>1, <1>2, OthersIdle
<1>4. PICK call \in {"idle", "write", "record"} : Goto(h, call)
    BY DEF Arm, WriteRule, Record
<1>5. /\ Turns' /\ op'[h] = call
      /\ \A q \in Procs \ {h} : op'[q] = "idle"
    BY <1>1, <1>2, <1>3, <1>4, TurnsKept
<1>6. TypeOK'
  <2>1. op' \in [Procs -> {"idle", "arm", "write", "record", "look", "sweep",
                           "forget", "disarm", "leave"}]
    BY <1>1, <1>4 DEF TypeOK
  <2>2. Fault \/ UNCHANGED faults
    BY DEF Arm, WriteRule, Record
  <2>3. faults' \in 0..MaxFaults
    BY <1>1, <2>2, FaultsBounded
  <2> HIDE DEF Fault
  <2>4. CASE Arm(h)
    BY <1>1, <2>1, <2>3, <2>4 DEF TypeOK, Arm
  <2>5. CASE WriteRule(h)
    BY <1>1, <2>1, <2>3, <2>5 DEF TypeOK, WriteRule
  <2>6. CASE Record(h)
    BY <1>1, <2>1, <2>3, <2>6 DEF TypeOK, Record
  <2> QED
    BY <2>4, <2>5, <2>6
<1>7. PowerLossSafe'
  <2>1. CASE Arm(h)
    BY <1>1, <2>1 DEF PowerLossSafe, Arm, TypeOK
  <2>2. CASE WriteRule(h)
    BY <1>1, <2>2 DEF PowerLossSafe, ArmedKeepsTask, WriteRule, TypeOK
  <2>3. CASE Record(h)
    BY <1>1, <2>3 DEF PowerLossSafe, Record
  <2> QED
    BY <2>1, <2>2, <2>3
<1>8. ArmedKeepsTask'
  <2>1. CASE Arm(h)
    BY <1>1, <1>5, <2>1 DEF ArmedKeepsTask, Arm, TypeOK
  <2>2. CASE WriteRule(h) \/ Record(h)
    BY <1>1, <1>5, <2>2 DEF ArmedKeepsTask, WriteRule, Record, TypeOK
  <2> QED
    BY <2>1, <2>2
<1>9. DisarmsNothing'
    BY <1>4, <1>5 DEF DisarmsNothing
<1> QED
    BY <1>5, <1>6, <1>7, <1>8, <1>9 DEF GuardInv, GuardInvariant

\* ensure_removed(): the task goes only after the rule.
LEMMA RemovalPreserves ==
    ASSUME GuardInv, NEW p \in Procs,
           Look(p) \/ Sweep(p) \/ Forget(p) \/ Disarm(p) \/ Leave(p)
    PROVE  GuardInv'
<1>1. TypeOK /\ PowerLossSafe /\ Turns /\ DisarmsNothing
    BY DEF GuardInv, GuardInvariant
<1>2. op[p] # "idle"
    BY DEF Look, Sweep, Forget, Disarm, Leave
<1>3. \A q \in Procs \ {p} : op[q] = "idle"
    BY <1>1, <1>2, OthersIdle
<1>4. PICK call \in {"idle", "leave", "sweep", "forget", "disarm"} : Goto(p, call)
    BY DEF Look, Sweep, Forget, Disarm, Leave
<1>5. /\ Turns' /\ op'[p] = call
      /\ \A q \in Procs \ {p} : op'[q] = "idle"
    BY <1>1, <1>3, <1>4, TurnsKept
<1>6. TypeOK'
  <2>1. op' \in [Procs -> {"idle", "arm", "write", "record", "look", "sweep",
                           "forget", "disarm", "leave"}]
    BY <1>1, <1>4 DEF TypeOK
  <2>2. Fault \/ UNCHANGED faults
    BY DEF Look, Sweep, Forget, Disarm, Leave
  <2>3. faults' \in 0..MaxFaults
    BY <1>1, <2>2, FaultsBounded
  <2> HIDE DEF Fault
  <2>4. CASE Look(p) \/ Forget(p) \/ Leave(p)
    BY <1>1, <2>1, <2>3, <2>4 DEF TypeOK, Look, Forget, Leave
  <2>5. CASE Sweep(p) \/ Disarm(p)
    BY <1>1, <2>1, <2>3, <2>5 DEF TypeOK, Sweep, Disarm
  <2> QED
    BY <2>4, <2>5
<1>7. PowerLossSafe'
    BY <1>1 DEF PowerLossSafe, DisarmsNothing, Look, Sweep, Forget, Disarm, Leave
<1>8. ArmedKeepsTask'
    BY <1>4, <1>5 DEF ArmedKeepsTask
<1>9. DisarmsNothing'
  <2>1. CASE Sweep(p)
    BY <1>1, <1>5, <2>1 DEF DisarmsNothing, Sweep, TypeOK
  <2>2. CASE Forget(p)
    BY <1>1, <1>5, <2>2 DEF DisarmsNothing, Forget
  <2>3. CASE Look(p) \/ Disarm(p) \/ Leave(p)
    BY <1>1, <1>5, <2>3 DEF DisarmsNothing, Look, Disarm, Leave, TypeOK
  <2> QED
    BY <2>1, <2>2, <2>3
<1> QED
    BY <1>5, <1>6, <1>7, <1>8, <1>9 DEF GuardInv, GuardInvariant

\* A kill, a power loss and another program's wipe, at any call.
LEMMA MachinePreserves ==
    ASSUME GuardInv, (\E p \in Procs : Kill(p)) \/ Wipe \/ PowerLoss
    PROVE  GuardInv'
<1>1. TypeOK /\ PowerLossSafe /\ Turns /\ ArmedKeepsTask /\ DisarmsNothing
    BY DEF GuardInv, GuardInvariant
<1>2. ASSUME NEW p \in Procs, Kill(p) PROVE GuardInv'
  <2>1. \A q \in Procs : op'[q] \in {op[q], "idle"}
    BY <1>1, <1>2 DEF TypeOK, Kill
  <2>2. TypeOK'
    BY <1>1, <1>2 DEF TypeOK, Kill
  <2>3. Turns'
    BY <1>1, <2>1 DEF Turns
  <2>4. PowerLossSafe' /\ ArmedKeepsTask' /\ DisarmsNothing'
    BY <1>1, <1>2, <2>1 DEF PowerLossSafe, ArmedKeepsTask, DisarmsNothing, Kill
  <2> QED
    BY <2>2, <2>3, <2>4 DEF GuardInv, GuardInvariant
<1>3. CASE Wipe
  <2>1. TypeOK'
    BY <1>1, <1>3 DEF TypeOK, Wipe
  <2>2. PowerLossSafe' /\ Turns' /\ ArmedKeepsTask' /\ DisarmsNothing'
    BY <1>1, <1>3 DEF PowerLossSafe, Turns, ArmedKeepsTask, DisarmsNothing, Wipe
  <2> QED
    BY <2>1, <2>2 DEF GuardInv, GuardInvariant
<1>4. CASE PowerLoss
  <2>1. TypeOK'
    BY <1>1, <1>4 DEF TypeOK, PowerLoss
  <2>2. PowerLossSafe'
    BY <1>1, <1>4 DEF PowerLossSafe, PowerLoss
  <2>3. Turns' /\ ArmedKeepsTask' /\ DisarmsNothing'
    BY <1>4 DEF Turns, ArmedKeepsTask, DisarmsNothing, PowerLoss
  <2> QED
    BY <2>1, <2>2, <2>3 DEF GuardInv, GuardInvariant
<1> QED
    BY <1>2, <1>3, <1>4

-----------------------------------------------------------------------------

\* The strengthening is inductive, the processes taking turns.
THEOREM GuardInductive == ASSUME ~Overlap PROVE Spec => []GuardInv
<1>1. Init => GuardInv
    BY InitEstablishes
<1>2. GuardInv /\ [Next]_vars => GuardInv'
  <2> SUFFICES ASSUME GuardInv, [Next]_vars PROVE GuardInv'
    OBVIOUS
  <2>1. CASE Next
    BY <2>1, BeginsPreserve, InstallPreserves, RemovalPreserves, MachinePreserves
       DEF Next, Runs
  <2>2. CASE UNCHANGED vars
    BY <2>2 DEF vars, GuardInv, GuardInvariant, TypeOK, PowerLossSafe, Turns,
                ArmedKeepsTask, DisarmsNothing
  <2> QED
    BY <2>1, <2>2
<1> QED
    BY <1>1, <1>2, PTL DEF Spec

\* Whatever call the machine loses power in, the boot task removes the rule
\* it leaves, or the user was warned of it (install, ensure_removed).
THEOREM PowerLossIsSafe == ASSUME ~Overlap PROVE Spec => []GuardInvariant
<1>1. GuardInv => GuardInvariant
    BY DEF GuardInv
<1> QED
    BY <1>1, GuardInductive, PTL

\* A second install over a rule never leaves a moment without one (_write_rule
\* writes in place).
THEOREM RefreshHasNoGap == ASSUME ~Overlap PROVE Spec => NoGapOnRefresh
<1>1. GuardInv /\ [Next]_vars =>
        [ \A h \in Helpers : op[h] = "write" /\ rule # None /\ wipes' = wipes
            => rule' # None \/ proc'[h] # "up" ]_vars
  <2> SUFFICES ASSUME GuardInv, Next, NEW h \in Helpers,
                      op[h] = "write", rule # None, wipes' = wipes
               PROVE  rule' # None \/ proc'[h] # "up"
    BY DEF vars
  <2>1. TypeOK /\ Turns
    BY DEF GuardInv, GuardInvariant
  <2>2. \A p \in Procs \ {h} : op[p] = "idle"
    BY <2>1, OthersIdle
  <2>3. ASSUME NEW g \in Helpers, Start(g) \/ Refresh(g) \/ Reassert(g)
        PROVE  rule' = rule
    BY <2>3 DEF Start, Refresh, Reassert
  <2>4. ASSUME NEW p \in Procs, Remove(p) \/ Kill(p) PROVE rule' = rule
    BY <2>4 DEF Remove, Kill
  <2>5. ASSUME NEW p \in Procs, Runs(p) PROVE rule' # None
    <3>1. p = h
      BY <2>2, <2>5 DEF Runs, Arm, WriteRule, Record, Look, Sweep, Forget, Disarm, Leave
    <3> QED
      BY <2>5, <3>1 DEF Runs, Arm, WriteRule, Record, Look, Sweep, Forget, Disarm, Leave
  <2>6. CASE Wipe
    BY <2>1, <2>6 DEF Wipe, TypeOK
  <2>7. CASE PowerLoss
    BY <2>1, <2>7 DEF PowerLoss, TypeOK
  <2> QED
    BY <2>3, <2>4, <2>5, <2>6, <2>7 DEF Next
<1> QED
    BY <1>1, GuardInductive, PTL DEF Spec, NoGapOnRefresh
=============================================================================
