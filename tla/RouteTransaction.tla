-------------------------- MODULE RouteTransaction --------------------------
(***************************************************************************)
(* RouteTransaction.commit (tuntop/core/routes_txn.py) over the Windows    *)
(* primitives it calls (tuntop/network/routing.py): apply the planned      *)
(* operations in order, verify each, and undo them in reverse on the first *)
(* failure.                                                                *)
(*                                                                         *)
(* A route's identity is its prefix, interface and next hop; the table     *)
(* holds the metric of each live route and 0 for one that is absent.  All  *)
(* prefixes are host prefixes, the ones whose shadowing is checked.        *)
(***************************************************************************)
EXTENDS Naturals, Sequences, SequencesExt

CONSTANTS Routes,          \* route identities
          Dest, Iface,     \* their prefix and their interface
          Metrics,         \* route metrics
          Plans,           \* the plans to commit
          Plannable(_, _), \* Plannable(plan, table): may plan meet this table
          DeletesMayFail,  \* netsh may refuse a delete
          ProbesMayFail    \* reading the table may fail, which looks empty

ASSUME MetricsAssumption == Metrics \subseteq Nat \ {0}

Tables == [Routes -> Metrics \cup {0}]
Ops    == [action : {"add", "remove"}, route : Routes, metric : Metrics]

VARIABLES before,  \* history: the table commit() found
          table,   \* the system routing table
          plan,    \* the planned operations
          applied, \* those that verified, in order
          phase,   \* "apply", "undo" or "done"
          failed,  \* some operation failed
          errors   \* some undo failed: result.errors is not empty

vars == <<before, table, plan, applied, phase, failed, errors>>

Init ==
    /\ plan \in Plans /\ table \in Tables /\ Plannable(plan, table)
    /\ before = table
    /\ applied = <<>>
    /\ phase = "apply" /\ failed = FALSE /\ errors = FALSE

-----------------------------------------------------------------------------
(* The primitives, as the sets of what they may do and answer. *)

With(T, r, m)   == [T EXCEPT ![r] = m]
Without(T, R)   == [r \in Routes |-> IF r \in R THEN 0 ELSE T[r]]
SamePrefix(r)   == {q \in Routes : Dest[q] = Dest[r]}
Live(T, R)      == {r \in R : T[r] # 0}

\* Is the exact route, metric included, in the table?
Matches(T, op) == T[op.route] = op.metric

Verify(T, op) == {Matches(T, op)} \cup (IF ProbesMayFail THEN {FALSE} ELSE {})

\* A better-metric route with the same prefix owns the traffic.
Shadow(T, op) ==
    LET better == \E q \in Live(T, SamePrefix(op.route)) : T[q] < T[op.route]
    IN {better /\ T[op.route] # 0} \cup (IF ProbesMayFail THEN {FALSE} ELSE {})

\* netsh adds, refuses, or says Ok and installs nothing; over a live route it
\* says "already exists", and the route is then deleted and added again.
AddRoute(T, op) ==
    LET r == op.route
        added == [table |-> With(T, r, op.metric), answer |-> TRUE]
    IN IF T[r] = 0
       THEN {added, [table |-> T, answer |-> FALSE], [table |-> T, answer |-> TRUE]}
       ELSE {added, [table |-> With(T, r, 0), answer |-> FALSE]}
               \cup (IF DeletesMayFail
                     THEN {[table |-> T, answer |-> v] : v \in Verify(T, op)}
                     ELSE {})

\* The exact delete, or the fallback that clears the prefix off the route's
\* interface and answers whether the prefix is gone altogether.
DeleteRoute(T, op) ==
    LET r == op.route
        scope   == {q \in SamePrefix(r) : Iface[q] = Iface[r]}
        cleared == Without(T, scope)
        exact   == [table |-> With(T, r, 0), answer |-> TRUE]
        scoped  == [table |-> cleared, answer |-> Live(cleared, SamePrefix(r)) = {}]
        denied  == [table |-> T, answer |-> FALSE]
    IN (IF T[r] # 0 \/ Live(T, SamePrefix(r)) = {} THEN {exact} ELSE {scoped})
          \cup (IF DeletesMayFail THEN {scoped, denied} ELSE {})

\* _apply_one: what an operation may leave behind, and whether it failed.
ApplyOne(T, op) ==
    IF op.action = "add"
    THEN UNION { { [table |-> o.table, error |-> ~(o.answer /\ v /\ ~s)] :
                     v \in Verify(o.table, op), s \in Shadow(o.table, op) } :
                 o \in AddRoute(T, op) }
    ELSE UNION { { [table |-> o.table, error |-> (~o.answer /\ v) \/ w] :
                     v \in Verify(o.table, op), w \in Verify(o.table, op) } :
                 o \in DeleteRoute(T, op) }

\* Faulty: a failed add is taken to have installed nothing.
CleanNothing(T, op) == {T}

\* A failed add that is live after all is deleted; the answer is not looked at.
CleanFailed(T, op) ==
    IF op.action = "add"
    THEN UNION { IF v THEN {o.table : o \in DeleteRoute(T, op)} ELSE {T} :
                 v \in Verify(T, op) }
    ELSE {T}

\* Faulty: a removed route is put back at a metric of 1.
UndoAtMetricOne(op) ==
    [op EXCEPT !.action = IF @ = "add" THEN "remove" ELSE "add", !.metric = 1]

Undo(op) == [op EXCEPT !.action = IF @ = "add" THEN "remove" ELSE "add"]

-----------------------------------------------------------------------------
NextOp == plan[Len(applied) + 1]

OpSucceeds ==
    /\ phase = "apply" /\ Len(applied) < Len(plan)
    /\ \E o \in ApplyOne(table, NextOp) :
          /\ ~o.error
          /\ table' = o.table
    /\ applied' = Append(applied, NextOp)
    /\ UNCHANGED <<before, plan, phase, failed, errors>>

OpFails ==
    /\ phase = "apply" /\ Len(applied) < Len(plan)
    /\ \E o \in ApplyOne(table, NextOp) :
          /\ o.error
          /\ table' \in CleanFailed(o.table, NextOp)
    /\ failed' = TRUE
    /\ phase' = "undo"
    /\ UNCHANGED <<before, plan, applied, errors>>

Commit ==
    /\ phase = "apply" /\ Len(applied) = Len(plan)
    /\ phase' = "done"
    /\ UNCHANGED <<before, table, plan, applied, failed, errors>>

\* _rollback: the applied operations are undone in reverse, each best effort.
RollbackStep ==
    /\ phase = "undo" /\ applied # <<>>
    /\ \E o \in ApplyOne(table, Undo(Last(applied))) :
          /\ table' = o.table
          /\ errors' = (errors \/ o.error)
    /\ applied' = Front(applied)
    /\ UNCHANGED <<before, plan, phase, failed>>

RollbackEnds ==
    /\ phase = "undo" /\ applied = <<>>
    /\ phase' = "done"
    /\ UNCHANGED <<before, table, plan, applied, failed, errors>>

Finished == phase = "done" /\ UNCHANGED vars

Next == OpSucceeds \/ OpFails \/ Commit \/ RollbackStep \/ RollbackEnds \/ Finished

Spec == Init /\ [][Next]_vars

-----------------------------------------------------------------------------
Result(op) == IF op.action = "add" THEN op.metric ELSE 0

\* The table a sequence of operations describes, from table T: each route is as
\* the last operation on it left it.
Described(T, ops) ==
    [ r \in Routes |->
        LET on == {i \in DOMAIN ops : ops[i].route = r}
        IN IF on = {} THEN T[r] ELSE Result(ops[Max(on)]) ]

\* Every variable keeps to its values.
TypeOK ==
    /\ before \in Tables /\ table \in Tables
    /\ plan \in Seq(Ops) /\ applied \in Seq(Ops)
    /\ phase \in {"apply", "undo", "done"}
    /\ failed \in BOOLEAN /\ errors \in BOOLEAN

\* At every point, on the way up and on the way down, the table is exactly what
\* the operations still standing describe - unless an undo is known to have
\* failed.
TableFollowsApplied == ~errors => table = Described(before, applied)

\* The two together, as the run checks them.
TransactionInvariant == TypeOK /\ TableFollowsApplied

\* RouteTransaction's docstring: a commit that did not succeed leaves the
\* routing table unchanged (an undo that failed is at least reported).
FailedMeansUnchanged == phase = "done" /\ failed /\ ~errors => table = before

\* commit()'s comment: a failed operation never leaks live state.  Whatever is
\* left of it after its clean-up is what was there before.
FailedOpLeaksNothing == [][ OpFails => table' = table ]_vars

\* commit()'s docstring: ok means that every operation was applied and verified.
OkMeansApplied == phase = "done" /\ ~failed => table = Described(before, plan)

\* To its caller commit() is one step: all of the plan, or nothing of it.
Atomic == INSTANCE AtomicChange WITH
            table  <- IF phase = "done" THEN table ELSE before,
            goal   <- Described(before, plan),
            result <- IF phase # "done" THEN "none"
                      ELSE IF errors THEN "damaged"
                      ELSE IF failed THEN "failed" ELSE "ok"

AllOrNothing == Atomic!Spec
=============================================================================
