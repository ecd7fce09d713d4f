---------------------------- MODULE RouteProofs -----------------------------
(***************************************************************************)
(* Theorems about route transactions, for any routes, interfaces, metrics  *)
(* and any plans of any length, when netsh's deletes and reads are         *)
(* dependable and a plan describes the table it meets (the runs with the   *)
(* peril on show that each of the three is needed).                        *)
(*                                                                         *)
(* That the table is what the standing operations describe is inductive    *)
(* only with what the operations are: a prefix of the plan, whose routes   *)
(* all differ.  So an operation about to run finds its route as the        *)
(* transaction found it, and one about to be undone as it left it itself.  *)
(***************************************************************************)
EXTENDS RouteTransaction, LiveReconfig, TLAPS

\* No two operations are on one route.
Distinct(list) ==
    \A i, j \in DOMAIN list : list[i].route = list[j].route => i = j

\* The plan adds what is absent and removes what is there, as it is there.
Fits(list, T) ==
    \A i \in DOMAIN list :
        T[list[i].route] = (IF list[i].action = "add" THEN 0 ELSE list[i].metric)

\* Every plan is a sequence of operations on different routes, made from the
\* very table it meets.
PlansFit ==
    /\ Plans \subseteq Seq(Ops)
    /\ \A p \in Plans : Distinct(p)
    /\ \A p \in Plans, T \in Tables : Plannable(p, T) => Fits(p, T)

Dependable == ~DeletesMayFail /\ ~ProbesMayFail

\* The operations that stand are the first of the plan, in its order.
Prefix ==
    /\ Len(applied) <= Len(plan)
    /\ \A i \in DOMAIN applied : applied[i] = plan[i]

Verdict ==
    /\ phase = "apply" => ~failed /\ ~errors
    /\ phase = "undo" => failed
    /\ phase = "done" => applied = (IF failed THEN <<>> ELSE plan)
    /\ errors => failed

TxnInv ==
    /\ TransactionInvariant
    /\ Distinct(plan) /\ Fits(plan, before)
    /\ Prefix
    /\ Verdict

USE MetricsAssumption

-----------------------------------------------------------------------------
(* What a sequence of operations on different routes describes. *)

\* The greatest of one number is that number.
LEMMA MaxOfOne == \A i \in Nat : Max({i}) = i
BY DEF Max

\* Each operation decides its own route, and a route without one is as it was.
LEMMA DescribedAt ==
    ASSUME NEW T \in Tables, NEW list \in Seq(Ops), Distinct(list)
    PROVE  /\ Described(T, list) \in Tables
           /\ \A i \in DOMAIN list :
                 Described(T, list)[list[i].route] = Result(list[i])
           /\ \A r \in Routes :
                 (\A i \in DOMAIN list : list[i].route # r) =>
                     Described(T, list)[r] = T[r]
<1> DEFINE On(r) == {i \in DOMAIN list : list[i].route = r}
<1>1. \A i \in DOMAIN list : i \in Nat /\ list[i] \in Ops
    OBVIOUS
<1>2. \A i \in DOMAIN list : Result(list[i]) \in Metrics \cup {0}
    BY <1>1 DEF Result, Ops
<1>3. \A i \in DOMAIN list : On(list[i].route) = {i}
    BY DEF Distinct
<1>4. \A i \in DOMAIN list : Max(On(list[i].route)) = i
    BY <1>1, <1>3, MaxOfOne
<1>5. \A r \in Routes :
          Described(T, list)[r] = IF On(r) = {} THEN T[r] ELSE Result(list[Max(On(r))])
    BY DEF Described
<1>6. ASSUME NEW r \in Routes
      PROVE  \/ On(r) = {} /\ Described(T, list)[r] = T[r]
             \/ \E i \in DOMAIN list :
                   list[i].route = r /\ Described(T, list)[r] = Result(list[i])
  <2>1. CASE On(r) = {}
      BY <1>5, <2>1
  <2>2. CASE On(r) # {}
    <3>1. PICK i \in DOMAIN list : list[i].route = r
        BY <2>2
    <3>2. Max(On(r)) = i
        BY <1>4, <3>1
    <3> QED
        BY <1>5, <2>2, <3>1, <3>2
  <2> QED
      BY <2>1, <2>2
<1>7. \A r \in Routes : Described(T, list)[r] \in Metrics \cup {0}
    BY <1>2, <1>6 DEF Tables
<1>8. Described(T, list) \in Tables
  <2>1. Described(T, list) = [r \in Routes |-> Described(T, list)[r]]
      BY DEF Described
  <2> QED
      BY <1>7, <2>1 DEF Tables
<1>9. ASSUME NEW i \in DOMAIN list
      PROVE  Described(T, list)[list[i].route] = Result(list[i])
  <2>1. list[i].route \in Routes
      BY <1>1 DEF Ops
  <2>2. On(list[i].route) # {} /\ Max(On(list[i].route)) = i
      BY <1>3, <1>4
  <2> QED
      BY <1>5, <2>1, <2>2
<1>10. ASSUME NEW r \in Routes, \A i \in DOMAIN list : list[i].route # r
       PROVE  Described(T, list)[r] = T[r]
    BY <1>6, <1>10
<1> QED
    BY <1>8, <1>9, <1>10

\* One more operation, on a route of its own, changes that route alone.
LEMMA DescribedAppend ==
    ASSUME NEW T \in Tables, NEW list \in Seq(Ops), NEW op \in Ops,
           Distinct(Append(list, op))
    PROVE  Described(T, Append(list, op)) = With(Described(T, list), op.route, Result(op))
<1> DEFINE more == Append(list, op)
           n    == Len(list) + 1
<1>1. /\ more \in Seq(Ops) /\ DOMAIN more = 1..n
      /\ DOMAIN list = 1..Len(list) /\ Len(list) \in Nat
      /\ n \in DOMAIN more /\ more[n] = op
      /\ \A i \in DOMAIN list : more[i] = list[i]
      /\ Distinct(more)
    OBVIOUS
<1>2. /\ Distinct(list)
      /\ \A i \in DOMAIN list : list[i].route # op.route
    BY <1>1 DEF Distinct
<1> HIDE DEF more, n
<1>3. /\ Described(T, more) \in Tables /\ Described(T, list) \in Tables
      /\ Described(T, more)[op.route] = Result(op)
    BY <1>1, <1>2, DescribedAt
<1>4. ASSUME NEW r \in Routes, r # op.route
      PROVE  Described(T, more)[r] = Described(T, list)[r]
  <2>1. CASE \E i \in DOMAIN list : list[i].route = r
    <3>1. PICK i \in DOMAIN list : list[i].route = r
        BY <2>1
    <3>2. Described(T, list)[r] = Result(list[i])
        BY <1>2, <3>1, DescribedAt
    <3>3. i \in DOMAIN more /\ more[i] = list[i]
        BY <1>1 DEF n
    <3>4. Described(T, more)[r] = Result(list[i])
        BY <1>1, <3>1, <3>3, DescribedAt
    <3> QED
        BY <3>2, <3>4
  <2>2. CASE \A i \in DOMAIN list : list[i].route # r
    <3>1. \A i \in DOMAIN more : more[i].route # r
        BY <1>1, <1>4, <2>2 DEF n
    <3>2. Described(T, more)[r] = T[r]
        BY <1>1, <3>1, DescribedAt
    <3>3. Described(T, list)[r] = T[r]
        BY <1>2, <2>2, DescribedAt
    <3> QED
        BY <3>2, <3>3
  <2> QED
      BY <2>1, <2>2
<1> QED
    BY <1>3, <1>4 DEF With, Tables, more

\* No operation describes the table as it was.
LEMMA DescribedNothing ==
    ASSUME NEW T \in Tables
    PROVE  Described(T, <<>>) = T
BY DEF Described, Tables

-----------------------------------------------------------------------------
(* What the primitives leave behind. *)

\* An outcome of an operation, as its primitive and what was read after it.
LEMMA OutcomeOf ==
    ASSUME NEW T, NEW op, NEW o \in ApplyOne(T, op)
    PROVE  /\ op.action = "add" =>
                 \E a \in AddRoute(T, op) :
                     \E v \in Verify(a.table, op), s \in Shadow(a.table, op) :
                         o = [table |-> a.table, error |-> ~(a.answer /\ v /\ ~s)]
           /\ op.action # "add" =>
                 \E a \in DeleteRoute(T, op) :
                     \E v, w \in Verify(a.table, op) :
                         o = [table |-> a.table, error |-> (~a.answer /\ v) \/ w]
<1> DEFINE Adds(a) == { [table |-> a.table, error |-> ~(a.answer /\ v /\ ~s)] :
                          v \in Verify(a.table, op), s \in Shadow(a.table, op) }
           Removes(a) == { [table |-> a.table, error |-> (~a.answer /\ v) \/ w] :
                          v \in Verify(a.table, op), w \in Verify(a.table, op) }
<1>1. ASSUME op.action = "add"
      PROVE  \E a \in AddRoute(T, op) : o \in Adds(a)
  <2>1. o \in UNION {Adds(a) : a \in AddRoute(T, op)}
      BY <1>1 DEF ApplyOne
  <2> QED
      BY <2>1
<1>2. ASSUME op.action # "add"
      PROVE  \E a \in DeleteRoute(T, op) : o \in Removes(a)
  <2>1. o \in UNION {Removes(a) : a \in DeleteRoute(T, op)}
      BY <1>2 DEF ApplyOne
  <2> QED
      BY <2>1
<1> QED
    BY <1>1, <1>2

\* Whatever an operation does, it leaves a table.
LEMMA OutcomeTyped ==
    ASSUME NEW T \in Tables, NEW op \in Ops
    PROVE  /\ \A o \in ApplyOne(T, op) : o.table \in Tables /\ o.error \in BOOLEAN
           /\ CleanFailed(T, op) \subseteq Tables
<1>1. op.route \in Routes /\ op.metric \in Metrics
    BY DEF Ops
<1>2. /\ With(T, op.route, op.metric) \in Tables /\ With(T, op.route, 0) \in Tables
      /\ \A R : Without(T, R) \in Tables
    BY <1>1 DEF With, Without, Tables
<1>3. \A o \in AddRoute(T, op) : o.table \in Tables
    BY <1>2 DEF AddRoute
<1>4. \A o \in DeleteRoute(T, op) : o.table \in Tables
    BY <1>2 DEF DeleteRoute
<1>5. \A o \in ApplyOne(T, op) : o.table \in Tables /\ o.error \in BOOLEAN
  <2> TAKE o \in ApplyOne(T, op)
  <2>1. CASE op.action = "add"
    <3>1. PICK a \in AddRoute(T, op) :
              \E v \in Verify(a.table, op), s \in Shadow(a.table, op) :
                  o = [table |-> a.table, error |-> ~(a.answer /\ v /\ ~s)]
        BY <2>1, OutcomeOf
    <3>2. o.table = a.table /\ o.error \in BOOLEAN
        BY <3>1
    <3> QED
        BY <1>3, <3>2
  <2>2. CASE op.action # "add"
    <3>1. PICK a \in DeleteRoute(T, op) :
              \E v, w \in Verify(a.table, op) :
                  o = [table |-> a.table, error |-> (~a.answer /\ v) \/ w]
        BY <2>2, OutcomeOf
    <3>2. o.table = a.table /\ o.error \in BOOLEAN
        BY <3>1
    <3> QED
        BY <1>4, <3>2
  <2> QED
      BY <2>1, <2>2
<1>6. CleanFailed(T, op) \subseteq Tables
    BY <1>4 DEF CleanFailed
<1> QED
    BY <1>5, <1>6

\* A dependable delete of a live route deletes that route and nothing else.
LEMMA DeleteOutcome ==
    ASSUME Dependable, NEW T \in Tables, NEW op \in Ops, T[op.route] # 0
    PROVE  DeleteRoute(T, op) = {[table |-> With(T, op.route, 0), answer |-> TRUE]}
BY DEF DeleteRoute, Dependable

\* An add of an absent route that is not in error has installed it; one that is
\* in error is cleaned away again.
LEMMA AddOutcome ==
    ASSUME Dependable, NEW T \in Tables, NEW op \in Ops,
           op.action = "add", T[op.route] = 0,
           NEW o \in ApplyOne(T, op)
    PROVE  /\ ~o.error => o.table = With(T, op.route, op.metric)
           /\ CleanFailed(o.table, op) = {T}
<1> DEFINE r     == op.route
           added == With(T, r, op.metric)
<1>1. r \in Routes /\ op.metric \in Nat \ {0} /\ op.metric \in Metrics
    BY DEF Ops
<1>2. added \in Tables /\ added[r] = op.metric
    BY <1>1 DEF With, Tables
<1>3. PICK a \in AddRoute(T, op) :
          \E v \in Verify(a.table, op), s \in Shadow(a.table, op) :
              o = [table |-> a.table, error |-> ~(a.answer /\ v /\ ~s)]
    BY OutcomeOf
<1>4. a.table = added \/ a.table = T
    BY <1>3 DEF AddRoute
<1>5. o.table = a.table /\ (~o.error => Matches(a.table, op))
  <2>1. Verify(a.table, op) = {Matches(a.table, op)}
      BY DEF Verify, Dependable
  <2>2. PICK v \in Verify(a.table, op), s \in Shadow(a.table, op) :
            o = [table |-> a.table, error |-> ~(a.answer /\ v /\ ~s)]
      BY <1>3
  <2>3. o.table = a.table /\ (~o.error => v)
      BY <2>2
  <2> QED
      BY <2>1, <2>2, <2>3
<1>6. CASE a.table = added
  <2>1. Verify(added, op) = {TRUE}
      BY <1>2 DEF Verify, Dependable, Matches
  <2>2. DeleteRoute(added, op) = {[table |-> With(added, r, 0), answer |-> TRUE]}
      BY <1>1, <1>2, DeleteOutcome
  <2>3. CleanFailed(added, op) = {With(added, r, 0)}
      BY <2>1, <2>2 DEF CleanFailed
  <2>4. With(added, r, 0) = T
      BY <1>1 DEF With, Tables
  <2> QED
      BY <1>5, <1>6, <2>3, <2>4
<1>7. CASE a.table = T
  <2>1. Verify(T, op) = {FALSE} /\ ~Matches(T, op)
      BY <1>1 DEF Verify, Dependable, Matches
  <2>2. CleanFailed(T, op) = {T}
      BY <2>1 DEF CleanFailed
  <2> QED
      BY <1>5, <1>7, <2>1, <2>2
<1> QED
    BY <1>4, <1>6, <1>7

\* A remove of a live route is never in error.
LEMMA RemoveOutcome ==
    ASSUME Dependable, NEW T \in Tables, NEW op \in Ops,
           op.action = "remove", T[op.route] # 0,
           NEW o \in ApplyOne(T, op)
    PROVE  ~o.error /\ o.table = With(T, op.route, 0)
<1>1. op.route \in Routes /\ op.metric \in Nat \ {0}
    BY DEF Ops
<1>2. PICK a \in DeleteRoute(T, op) :
          \E v, w \in Verify(a.table, op) :
             o = [table |-> a.table, error |-> (~a.answer /\ v) \/ w]
    BY OutcomeOf
<1>3. a = [table |-> With(T, op.route, 0), answer |-> TRUE]
    BY DeleteOutcome
<1>4. With(T, op.route, 0)[op.route] = 0
    BY <1>1 DEF With, Tables
<1>5. Verify(a.table, op) = {FALSE} /\ a.answer = TRUE
    BY <1>1, <1>3, <1>4 DEF Verify, Dependable, Matches
<1>6. o = [table |-> a.table, error |-> FALSE]
    BY <1>2, <1>5
<1> QED
    BY <1>3, <1>6

-----------------------------------------------------------------------------
(* The invariant. *)

\* A transaction starts with nothing applied, on the table it was made from.
LEMMA InitEstablishes ==
    ASSUME PlansFit, Init
    PROVE  TxnInv
<1>1. plan \in Seq(Ops) /\ Distinct(plan) /\ Fits(plan, before)
    BY DEF Init, PlansFit
<1>2. TypeOK
  <2>1. <<>> \in Seq(Ops)
      OBVIOUS
  <2> QED
      BY <1>1, <2>1 DEF Init, TypeOK
<1>3. TableFollowsApplied
    BY DescribedNothing DEF Init, TableFollowsApplied
<1>4. Prefix /\ Verdict
    BY <1>1 DEF Init, Prefix, Verdict
<1> QED
    BY <1>1, <1>2, <1>3, <1>4 DEF TxnInv, TransactionInvariant

\* The operations that stand are on different routes.
LEMMA AppliedDistinct ==
    ASSUME TxnInv
    PROVE  Distinct(applied)
<1>1. plan \in Seq(Ops) /\ applied \in Seq(Ops)
    BY DEF TxnInv, TransactionInvariant, TypeOK
<1>2. \A i \in DOMAIN applied : i \in DOMAIN plan /\ applied[i] = plan[i]
    BY <1>1 DEF TxnInv, Prefix
<1> QED
    BY <1>2 DEF TxnInv, Distinct

\* The operation about to run finds its route as the transaction found it.
LEMMA NextOpFindsItsRoute ==
    ASSUME TxnInv, phase = "apply", Len(applied) < Len(plan)
    PROVE  /\ NextOp \in Ops
           /\ Distinct(Append(applied, NextOp))
           /\ table[NextOp.route] = (IF NextOp.action = "add" THEN 0 ELSE NextOp.metric)
<1> DEFINE n == Len(applied) + 1
<1>1. TypeOK /\ Distinct(plan) /\ Fits(plan, before) /\ Prefix
    BY DEF TxnInv, TransactionInvariant
<1>2. /\ plan \in Seq(Ops) /\ applied \in Seq(Ops) /\ before \in Tables
      /\ DOMAIN applied = 1..Len(applied) /\ DOMAIN plan = 1..Len(plan)
      /\ Len(applied) \in Nat /\ Len(plan) \in Nat
    BY <1>1 DEF TypeOK
<1>3. n \in DOMAIN plan /\ NextOp = plan[n] /\ NextOp \in Ops
    BY <1>2 DEF NextOp
<1>4. \A i \in DOMAIN applied : i \in DOMAIN plan /\ i # n /\ applied[i] = plan[i]
    BY <1>1, <1>2 DEF Prefix
<1>5. \A i \in DOMAIN applied : applied[i].route # NextOp.route
    BY <1>1, <1>3, <1>4 DEF Distinct
<1>6. Distinct(Append(applied, NextOp))
  <2>1. /\ DOMAIN Append(applied, NextOp) = 1..n
        /\ Append(applied, NextOp)[n] = NextOp
        /\ \A i \in DOMAIN applied : Append(applied, NextOp)[i] = applied[i]
      BY <1>2, <1>3
  <2>2. \A i \in 1..n : i = n \/ i \in DOMAIN applied
      BY <1>2
  <2> QED
      BY <1>5, <2>1, <2>2, AppliedDistinct DEF Distinct
<1>7. table[NextOp.route] = before[NextOp.route]
  <2>1. table = Described(before, applied)
      BY DEF TxnInv, TransactionInvariant, TableFollowsApplied, Verdict
  <2>2. NextOp.route \in Routes
      BY <1>3 DEF Ops
  <2> QED
      BY <1>2, <1>5, <2>1, <2>2, AppliedDistinct, DescribedAt
<1> QED
    BY <1>1, <1>3, <1>6, <1>7 DEF Fits

\* An operation that verified stands, and the table shows it.
LEMMA OpSucceedsPreserves ==
    ASSUME Dependable, TxnInv, OpSucceeds
    PROVE  TxnInv'
<1>1. TypeOK /\ Prefix /\ Verdict /\ TableFollowsApplied
    BY DEF TxnInv, TransactionInvariant
<1>2. PICK o \in ApplyOne(table, NextOp) : ~o.error /\ table' = o.table
    BY DEF OpSucceeds
<1>3. /\ NextOp \in Ops
      /\ Distinct(Append(applied, NextOp))
      /\ table[NextOp.route] = (IF NextOp.action = "add" THEN 0 ELSE NextOp.metric)
    BY NextOpFindsItsRoute DEF OpSucceeds
<1>4. /\ before \in Tables /\ table \in Tables
      /\ plan \in Seq(Ops) /\ applied \in Seq(Ops)
    BY <1>1 DEF TypeOK
<1>5. TypeOK'
  <2>1. table' \in Tables
      BY <1>2, <1>3, <1>4, OutcomeTyped
  <2>2. applied' \in Seq(Ops)
      BY <1>3, <1>4 DEF OpSucceeds
  <2> QED
      BY <1>1, <2>1, <2>2 DEF TypeOK, OpSucceeds
<1>6. table' = With(table, NextOp.route, Result(NextOp))
  <2>1. CASE NextOp.action = "add"
      BY <1>2, <1>3, <1>4, <2>1, AddOutcome DEF Result
  <2>2. CASE NextOp.action # "add"
    <3>1. NextOp.action = "remove" /\ table[NextOp.route] # 0
        BY <1>3, <2>2 DEF Ops
    <3> QED
        BY <1>2, <1>3, <1>4, <3>1, RemoveOutcome DEF Result
  <2> QED
      BY <2>1, <2>2
<1>7. TableFollowsApplied'
  <2>1. table = Described(before, applied)
      BY <1>1 DEF TableFollowsApplied, Verdict, OpSucceeds
  <2> QED
      BY <1>3, <1>4, <1>6, <2>1, DescribedAppend DEF TableFollowsApplied, OpSucceeds
<1>8. Prefix'
    BY <1>1, <1>4 DEF Prefix, OpSucceeds, NextOp
<1>9. Verdict'
    BY <1>1 DEF Verdict, OpSucceeds
<1> QED
    BY <1>5, <1>7, <1>8, <1>9 DEF TxnInv, TransactionInvariant, OpSucceeds, Distinct, Fits

\* An operation that failed leaves nothing behind.
LEMMA OpFailsLeavesTable ==
    ASSUME Dependable, TxnInv, OpFails
    PROVE  table' = table
<1>1. PICK o \in ApplyOne(table, NextOp) :
          o.error /\ table' \in CleanFailed(o.table, NextOp)
    BY DEF OpFails
<1>2. /\ NextOp \in Ops
      /\ table[NextOp.route] = (IF NextOp.action = "add" THEN 0 ELSE NextOp.metric)
    BY NextOpFindsItsRoute DEF OpFails
<1>3. table \in Tables
    BY DEF TxnInv, TransactionInvariant, TypeOK
<1>4. CASE NextOp.action = "add"
    BY <1>1, <1>2, <1>3, <1>4, AddOutcome
<1>5. CASE NextOp.action # "add"
  <2>1. NextOp.action = "remove" /\ table[NextOp.route] # 0
      BY <1>2, <1>5 DEF Ops
  <2> QED
      BY <1>1, <1>2, <1>3, <2>1, RemoveOutcome
<1> QED
    BY <1>4, <1>5

\* So the operations that stand are still what the table shows.
LEMMA OpFailsPreserves ==
    ASSUME Dependable, TxnInv, OpFails
    PROVE  TxnInv'
<1>1. table' = table
    BY OpFailsLeavesTable
<1> QED
    BY <1>1 DEF TxnInv, TransactionInvariant, TypeOK, TableFollowsApplied, Prefix,
                Verdict, OpFails, Distinct, Fits

\* When a commit is through, all of the plan stands.
LEMMA CommitStandsWhole ==
    ASSUME TxnInv, Commit
    PROVE  applied = plan
<1>1. /\ applied \in Seq(Ops) /\ plan \in Seq(Ops)
      /\ Len(applied) = Len(plan)
      /\ \A i \in 1..Len(applied) : applied[i] = plan[i]
    BY DEF TxnInv, TransactionInvariant, TypeOK, Prefix, Commit
<1> QED
    BY <1>1

\* A commit or a rollback that is through changes nothing more.
LEMMA EndsPreserve ==
    ASSUME TxnInv, Commit \/ RollbackEnds
    PROVE  TxnInv'
<1>1. TypeOK /\ Prefix /\ Verdict /\ TableFollowsApplied
    BY DEF TxnInv, TransactionInvariant
<1>2. UNCHANGED <<before, table, plan, applied, failed, errors>> /\ phase' = "done"
    BY DEF Commit, RollbackEnds
<1>3. Commit => applied = plan
    BY CommitStandsWhole
<1>4. Verdict'
    BY <1>1, <1>2, <1>3 DEF Verdict, Commit, RollbackEnds
<1> QED
    BY <1>1, <1>2, <1>4 DEF TxnInv, TransactionInvariant, TypeOK, TableFollowsApplied,
                            Prefix, Distinct, Fits

\* A sequence that is not empty is its front and its last.
LEMMA FrontAndLast ==
    ASSUME NEW S, NEW s \in Seq(S), s # <<>>
    PROVE  /\ Len(s) \in Nat \ {0}
           /\ Front(s) \in Seq(S) /\ Len(Front(s)) = Len(s) - 1
           /\ \A i \in 1..(Len(s) - 1) : Front(s)[i] = s[i]
           /\ Last(s) \in S /\ Last(s) = s[Len(s)]
<1>1. Len(s) \in Nat \ {0}
    OBVIOUS
<1>2. \A i \in 1..(Len(s) - 1) : s[i] \in S
    BY <1>1
<1>3. Front(s) = [i \in 1..(Len(s) - 1) |-> s[i]]
    BY <1>1 DEF Front
<1>4. Front(s) \in Seq(S)
    BY <1>1, <1>2, <1>3
<1> QED
    BY <1>1, <1>3, <1>4 DEF Last

\* The last standing operation found its route as the transaction found it, and
\* left it as its result; without it, the route is as it was found.
LEMMA LastOpOwnsItsRoute ==
    ASSUME TxnInv, applied # <<>>, ~errors
    PROVE  LET op    == Last(applied)
               below == Described(before, Front(applied))
           IN  /\ table = With(below, op.route, Result(op))
               /\ below \in Tables
               /\ below[op.route] = (IF op.action = "add" THEN 0 ELSE op.metric)
<1> DEFINE op    == Last(applied)
           below == Described(before, Front(applied))
<1>1. TypeOK /\ Distinct(plan) /\ Fits(plan, before) /\ Prefix
    BY DEF TxnInv, TransactionInvariant
<1>2. /\ plan \in Seq(Ops) /\ applied \in Seq(Ops) /\ before \in Tables
      /\ Len(applied) \in Nat \ {0}
    BY <1>1 DEF TypeOK
<1>3. /\ op = applied[Len(applied)] /\ op \in Ops /\ op.route \in Routes
      /\ Front(applied) \in Seq(Ops)
      /\ Len(Front(applied)) = Len(applied) - 1
      /\ \A i \in 1..(Len(applied) - 1) : Front(applied)[i] = applied[i]
  <2>1. applied \in Seq(Ops) /\ applied # <<>>
      BY <1>2
  <2>2. op \in Ops
      BY <2>1, FrontAndLast
  <2> QED
      BY <2>1, <2>2, FrontAndLast DEF Ops
<1>4. applied = Append(Front(applied), op)
    BY <1>2, <1>3
<1>5. \A i \in DOMAIN Front(applied) : Front(applied)[i].route # op.route
    BY <1>2, <1>3, AppliedDistinct DEF Distinct
<1>6. Distinct(Front(applied))
    BY <1>2, <1>3, AppliedDistinct DEF Distinct
<1>7. below \in Tables /\ below[op.route] = before[op.route]
    BY <1>2, <1>3, <1>5, <1>6, DescribedAt
<1>8. before[op.route] = (IF op.action = "add" THEN 0 ELSE op.metric)
  <2>1. Len(applied) \in DOMAIN plan /\ op = plan[Len(applied)]
      BY <1>1, <1>2, <1>3 DEF Prefix
  <2> QED
      BY <1>1, <2>1 DEF Fits
<1>9. table = With(below, op.route, Result(op))
  <2>1. table = Described(before, applied)
      BY DEF TxnInv, TransactionInvariant, TableFollowsApplied
  <2> QED
      BY <1>2, <1>3, <1>4, <2>1, AppliedDistinct, DescribedAppend
<1> QED
    BY <1>7, <1>8, <1>9

\* An undo puts its route back as it was found, or is reported to have failed.
LEMMA RollbackStepPreserves ==
    ASSUME Dependable, TxnInv, RollbackStep
    PROVE  TxnInv'
<1> DEFINE op    == Last(applied)
           undo  == Undo(op)
           below == Described(before, Front(applied))
<1>1. TypeOK /\ Prefix /\ Verdict
    BY DEF TxnInv, TransactionInvariant
<1>2. /\ table \in Tables /\ plan \in Seq(Ops)
      /\ applied \in Seq(Ops) /\ applied # <<>> /\ Len(applied) \in Nat \ {0}
    BY <1>1 DEF TypeOK, RollbackStep
<1>3. /\ Front(applied) \in Seq(Ops) /\ op \in Ops
      /\ Len(Front(applied)) = Len(applied) - 1
      /\ \A i \in 1..(Len(applied) - 1) : Front(applied)[i] = applied[i]
    BY <1>2, FrontAndLast
<1>4. /\ undo \in Ops /\ undo.route = op.route /\ undo.metric = op.metric
      /\ undo.action = (IF op.action = "add" THEN "remove" ELSE "add")
      /\ op.route \in Routes /\ op.metric \in Metrics /\ op.metric # 0
    BY <1>3 DEF Undo, Ops
<1>5. PICK o \in ApplyOne(table, undo) :
          table' = o.table /\ errors' = (errors \/ o.error)
    BY DEF RollbackStep
<1>6. o.table \in Tables /\ o.error \in BOOLEAN
    BY <1>2, <1>4, OutcomeTyped
<1>7. TypeOK'
    BY <1>1, <1>3, <1>5, <1>6 DEF TypeOK, RollbackStep
<1>8. TableFollowsApplied'
  <2>1. SUFFICES ASSUME ~errors, ~o.error PROVE table' = below
      BY <1>5, <1>6 DEF TableFollowsApplied, RollbackStep
  <2>2. /\ table = With(below, op.route, Result(op))
        /\ below \in Tables
        /\ below[op.route] = (IF op.action = "add" THEN 0 ELSE op.metric)
      BY <1>2, <2>1, LastOpOwnsItsRoute
  <2> HIDE DEF below
  <2>3. table[op.route] = Result(op)
      BY <1>4, <2>2 DEF With, Tables
  <2>4. \A m : With(table, op.route, m) = With(below, op.route, m)
      BY <1>4, <2>2 DEF With, Tables
  <2>5. With(below, op.route, below[op.route]) = below
      BY <1>4, <2>2 DEF With, Tables
  <2>6. CASE op.action = "add"
      BY <1>2, <1>4, <1>5, <2>2, <2>3, <2>4, <2>5, <2>6, RemoveOutcome DEF Result
  <2>7. CASE op.action # "add"
      BY <1>2, <1>4, <1>5, <2>1, <2>2, <2>3, <2>4, <2>5, <2>7, AddOutcome DEF Result
  <2> QED
      BY <2>6, <2>7
<1>9. Prefix'
  <2>1. applied' = Front(applied) /\ plan' = plan
      BY DEF RollbackStep
  <2>2. /\ Len(plan) \in Nat /\ Len(applied) <= Len(plan)
        /\ DOMAIN applied = 1..Len(applied) /\ DOMAIN applied' = 1..(Len(applied) - 1)
        /\ \A i \in DOMAIN applied : applied[i] = plan[i]
      BY <1>1, <1>2, <1>3, <2>1 DEF Prefix
  <2>3. Len(applied') <= Len(plan')
      BY <1>2, <1>3, <2>1, <2>2
  <2>4. \A i \in DOMAIN applied' : i \in DOMAIN applied
      BY <1>2, <2>2
  <2>5. \A i \in DOMAIN applied' : applied'[i] = plan'[i]
      BY <1>3, <2>1, <2>2, <2>4
  <2> QED
      BY <2>3, <2>5 DEF Prefix
<1>10. Verdict'
    BY <1>1, <1>5, <1>6 DEF Verdict, RollbackStep
<1> QED
    BY <1>7, <1>8, <1>9, <1>10 DEF TxnInv, TransactionInvariant, RollbackStep, Distinct, Fits

\* Every step keeps the invariant.
LEMMA NextPreserves ==
    ASSUME Dependable, TxnInv, [Next]_vars
    PROVE  TxnInv'
<1>1. CASE OpSucceeds
    BY <1>1, OpSucceedsPreserves
<1>2. CASE OpFails
    BY <1>2, OpFailsPreserves
<1>3. CASE Commit \/ RollbackEnds
    BY <1>3, EndsPreserve
<1>4. CASE RollbackStep
    BY <1>4, RollbackStepPreserves
<1>5. CASE UNCHANGED vars
    BY <1>5 DEF vars, TxnInv, TransactionInvariant, TypeOK, TableFollowsApplied,
                Prefix, Verdict, Distinct, Fits
<1> QED
    BY <1>1, <1>2, <1>3, <1>4, <1>5 DEF Next, Finished

-----------------------------------------------------------------------------
(* The theorems. *)

THEOREM TxnInvariance ==
    ASSUME Dependable, PlansFit
    PROVE  Spec => []TxnInv
<1>1. Init => TxnInv
    BY InitEstablishes
<1>2. TxnInv /\ [Next]_vars => TxnInv'
    BY NextPreserves
<1> QED
    BY <1>1, <1>2, PTL DEF Spec

\* On the way up and on the way down, the routing table is exactly what the
\* operations still standing describe - unless an undo is known to have failed.
THEOREM TableAlwaysAccounted ==
    ASSUME Dependable, PlansFit
    PROVE  Spec => []TransactionInvariant
<1>1. TxnInv => TransactionInvariant
    BY DEF TxnInv
<1> QED
    BY <1>1, TxnInvariance, PTL

\* A failed operation never leaks live state: what its clean-up leaves is what
\* was there before.
THEOREM NothingLeaks ==
    ASSUME Dependable, PlansFit
    PROVE  Spec => FailedOpLeaksNothing
<1>1. TxnInv /\ [Next]_vars => [OpFails => table' = table]_vars
    BY OpFailsLeavesTable
<1> QED
    BY <1>1, TxnInvariance, PTL DEF Spec, FailedOpLeaksNothing

\* At the end, success means that all of the plan is in the table and failure
\* that nothing of it is.
LEMMA DoneMeans ==
    ASSUME TxnInv, phase = "done", ~errors
    PROVE  table = (IF failed THEN before ELSE Described(before, plan))
<1>1. table = Described(before, applied) /\ before \in Tables
    BY DEF TxnInv, TransactionInvariant, TypeOK, TableFollowsApplied
<1>2. applied = (IF failed THEN <<>> ELSE plan)
    BY DEF TxnInv, Verdict
<1> QED
    BY <1>1, <1>2, DescribedNothing

\* A commit that did not succeed leaves the routing table as it found it.
THEOREM FailureUndone ==
    ASSUME Dependable, PlansFit
    PROVE  Spec => []FailedMeansUnchanged
<1>1. TxnInv => FailedMeansUnchanged
    BY DoneMeans DEF FailedMeansUnchanged
<1> QED
    BY <1>1, TxnInvariance, PTL

\* ok means that every operation of the plan is in the table.
THEOREM OkIsTrue ==
    ASSUME Dependable, PlansFit
    PROVE  Spec => []OkMeansApplied
<1>1. TxnInv => OkMeansApplied
    BY DoneMeans DEF OkMeansApplied, TxnInv, Verdict
<1> QED
    BY <1>1, TxnInvariance, PTL

\* To its caller a commit is one step: the table it found becomes the table the
\* plan describes, or stays, or is reported as damaged.  Only the step that
\* ends the transaction shows; every other step is a stutter.
THEOREM CommitIsAtomic ==
    ASSUME Dependable, PlansFit
    PROVE  Spec => AllOrNothing
<1>1. Init => Atomic!Init
  <2> SUFFICES ASSUME Init PROVE Atomic!Init
      OBVIOUS
  <2>1. TxnInv
      BY InitEstablishes
  <2>2. Described(before, plan) \in Tables /\ before \in Tables
      BY <2>1, DescribedAt DEF TxnInv, TransactionInvariant, TypeOK
  <2> QED
      BY <2>2 DEF Init, Atomic!Init
<1>2. TxnInv /\ [Next]_vars => [Atomic!Next]_<<
          IF phase = "done" THEN table ELSE before,
          Described(before, plan),
          IF phase # "done" THEN "none"
          ELSE IF errors THEN "damaged"
          ELSE IF failed THEN "failed" ELSE "ok">>
  <2> SUFFICES ASSUME TxnInv, [Next]_vars
               PROVE  [Atomic!Next]_<<
                          IF phase = "done" THEN table ELSE before,
                          Described(before, plan),
                          IF phase # "done" THEN "none"
                          ELSE IF errors THEN "damaged"
                          ELSE IF failed THEN "failed" ELSE "ok">>
      OBVIOUS
  <2>1. CASE OpSucceeds \/ OpFails \/ RollbackStep
      BY <2>1 DEF OpSucceeds, OpFails, RollbackStep
  <2>2. CASE Commit
    <3>1. table = Described(before, plan) /\ ~failed /\ ~errors
        BY <2>2, CommitStandsWhole
           DEF Commit, TxnInv, TransactionInvariant, TableFollowsApplied, Verdict
    <3> QED
        BY <2>2, <3>1 DEF Commit, Atomic!Next, Atomic!Succeed
  <2>3. CASE RollbackEnds
    <3>1. failed /\ (~errors => table = before) /\ table \in Tables
        BY <2>3, DescribedNothing
           DEF RollbackEnds, TxnInv, TransactionInvariant, TypeOK, TableFollowsApplied,
               Verdict
    <3> QED
        BY <2>3, <3>1 DEF RollbackEnds, Atomic!Next, Atomic!Abort, Atomic!Damage
  <2>4. CASE UNCHANGED vars
      BY <2>4 DEF vars
  <2> QED
      BY <2>1, <2>2, <2>3, <2>4 DEF Next, Finished
<1> QED
    BY <1>1, <1>2, TxnInvariance, PTL DEF Spec, AllOrNothing, Atomic!Spec

-----------------------------------------------------------------------------
(* The routes of the helper that runs, changed by keys while it runs:      *)
(* theorems about LiveReconfig, for any servers and resolvers and any      *)
(* number of keys, flips of the VPN, thefts and failures.  Its variables   *)
(* are its own.                                                            *)

\* The control file, and those who have it open.
ChannelTyped ==
    /\ writing \in [Writers -> Payloads \cup {None}]
    /\ crossed \subseteq {w \in Writers : writing[w] # None}
    /\ file \in Payloads \cup {Torn} /\ fresh \in BOOLEAN

DashboardTyped ==
    /\ want \in Settings /\ job \in Jobs \cup {None}
    /\ binding \in BOOLEAN /\ arrived \in BOOLEAN

HelperTyped ==
    /\ got \in Payloads \cup {None}
    /\ todo # <<>> => got \in Payloads
    /\ mode \in Settings /\ ride \in BOOLEAN /\ seen \in BOOLEAN \cup {None}

RowsTyped == row \in [Servers -> Pinned \cup {"none", "tun"}]

MachineTyped ==
    /\ vpnrow \in {"phys", "none", "tun"}
    /\ tracked \in BOOLEAN /\ shadow \in BOOLEAN /\ bound \in Resolvers
    /\ vpn \in {"down", "connected", "routed"}
    /\ steals \in Nat /\ faults \in Nat

\* What is inductive: whoever holds a payload, a job or a row holds one that is whole.
LiveInv == ChannelTyped /\ DashboardTyped /\ HelperTyped /\ RowsTyped /\ MachineTyped

-----------------------------------------------------------------------------

\* A payload says what its keys ask for.
LEMMA Told ==
    ASSUME NEW ks \in SUBSET {"over", "nobypass", "servers", "reapply"},
           NEW choice \in Settings
    PROVE  Payload(ks, choice) \in Payloads
BY DEF Payload, Payloads, Settings

\* Opening the control file, or failing to.
LEMMA WritesTyped ==
    ASSUME LiveInv, NEW w \in Writers, NEW p \in Payloads,
           Writes(w, p)
    PROVE  ChannelTyped' /\ faults' \in Nat
<1>1. CASE Fault /\ UNCHANGED channel
    BY <1>1 DEF LiveInv, ChannelTyped, MachineTyped, Fault, channel
<1>2. CASE ~UNCHANGED channel \/ ~Fault
    <2>1. /\ Sound /\ writing' = [writing EXCEPT ![w] = p]
          /\ crossed' \subseteq crossed \cup {v \in Writers : writing[v] # None} \cup {w}
          /\ file' = Torn /\ fresh' = TRUE
        BY <1>2 DEF Writes
    <2>2. p # None
        BY LiveAssumption DEF LiveAssumption
    <2>3. \A v \in Writers : writing'[v] = IF v = w THEN p ELSE writing[v]
        BY <2>1 DEF LiveInv, ChannelTyped
    <2>. QED  BY <2>1, <2>2, <2>3 DEF LiveInv, ChannelTyped, MachineTyped, Sound
<1>. QED  BY <1>1, <1>2

\* Adding routes, whichever of the additions fails.
LEMMA AddAllTyped ==
    ASSUME LiveInv, NEW ips \in SUBSET Servers, NEW eg \in Pinned,
           NEW ok \in BOOLEAN,
           NEW rows \in [Servers -> Pinned \cup {"none", "tun"}],
           AddAll(ips, eg, rows, ok)
    PROVE  RowsTyped' /\ faults' \in Nat
<1>1. faults' \in Nat
    BY DEF AddAll, Sound, Fault, LiveInv, MachineTyped
<1>2. ASSUME row' = [s \in Servers |-> IF s \in ips THEN eg ELSE rows[s]]
      PROVE  RowsTyped'
    BY <1>2 DEF RowsTyped
<1>3. ASSUME row' = [s \in Servers |-> IF s \in ips THEN "none" ELSE rows[s]]
      PROVE  RowsTyped'
    BY <1>3 DEF RowsTyped
<1>4. ASSUME NEW f \in ips, NEW r \in {"none", rows[f]},
             row' = [s \in Servers |-> IF s = f THEN r
                                       ELSE IF s \in ips THEN eg ELSE rows[s]]
      PROVE  RowsTyped'
    <2>1. r \in Pinned \cup {"none", "tun"}
        OBVIOUS
    <2>. QED  BY <1>4, <2>1 DEF RowsTyped
<1>. QED  BY <1>1, <1>2, <1>3, <1>4 DEF AddAll

\* What an addition that nothing failed leaves: each server has its route.
LEMMA AddAllServes ==
    ASSUME NEW ips \in SUBSET Servers, NEW eg \in Pinned, NEW ok, NEW rows,
           faults \in Nat, UNCHANGED faults, AddAll(ips, eg, rows, ok),
           ~(eg = "vpn" /\ vpn = "down"), NEW s \in Servers
    PROVE  row'[s] = IF s \in ips THEN eg ELSE rows[s]
<1>1. ~Fault
    BY DEF Fault
<1>. QED  BY <1>1 DEF AddAll

\* A switch of the transport, completed or refused.
LEMMA SwitchTyped ==
    ASSUME LiveInv, NEW over \in BOOLEAN, NEW ok \in BOOLEAN, SwitchVless(over, ok)
    PROVE  RowsTyped' /\ faults' \in Nat /\ shadow' \in BOOLEAN
<1>0. /\ mode.servers \in SUBSET Servers /\ mode.nobypass \in BOOLEAN
      /\ {"phys", "vpn"} \subseteq Pinned
    BY DEF LiveInv, HelperTyped, Settings, Pinned
<1>1. row \in [Servers -> Pinned \cup {"none", "tun"}]
    BY DEF LiveInv, RowsTyped
<1>2. shadow' \in BOOLEAN
    BY <1>0 DEF SwitchVless, LiveInv, MachineTyped
<1>3. CASE \/ AddAll(mode.servers, "vpn", row, ok)
           \/ AddAll(mode.servers, "phys", row, ok)
    BY <1>0, <1>1, <1>2, <1>3, AddAllTyped
<1>4. CASE UNCHANGED row /\ Sound
    BY <1>1, <1>2, <1>4 DEF RowsTyped, Sound, LiveInv, MachineTyped
<1>. QED  BY <1>3, <1>4, <1>2 DEF SwitchVless

\* A switch takes no route away unless an addition failed: where the VPN is not
\* routed it is refused before it has touched one.
LEMMA SwitchServes ==
    ASSUME LiveInv, NEW over \in BOOLEAN, NEW ok \in BOOLEAN, SwitchVless(over, ok),
           UNCHANGED faults, NEW s \in mode.servers, row[s] \in Pinned
    PROVE  row'[s] # "none"
<1>1. /\ mode.servers \in SUBSET Servers /\ faults \in Nat /\ s \in Servers
      /\ {"phys", "vpn"} \subseteq Pinned /\ "none" \notin Pinned
    BY DEF LiveInv, HelperTyped, MachineTyped, Settings, Pinned
<1>2. CASE vpn = "routed" /\ AddAll(mode.servers, "vpn", row, ok)
    BY <1>1, <1>2, AddAllServes
<1>3. CASE AddAll(mode.servers, "phys", row, ok)
    BY <1>1, <1>3, AddAllServes
<1>4. CASE UNCHANGED row
    BY <1>1, <1>4
<1>. QED  BY <1>2, <1>3, <1>4 DEF SwitchVless

-----------------------------------------------------------------------------

\* The invariant holds at first.
LEMMA InitLive == ASSUME LiveInit PROVE LiveInv
<1>1. want \in Settings /\ mode \in Settings /\ bound \in Resolvers
    BY LiveAssumption DEF LiveInit, LiveAssumption, Settings
<1>2. RowsTyped
    BY DEF LiveInit, RowsTyped, Pinned
<1>3. ChannelTyped
    BY DEF LiveInit, ChannelTyped
<1>. QED  BY <1>1, <1>2, <1>3
             DEF LiveInit, LiveInv, DashboardTyped, HelperTyped, MachineTyped

\* The keys.
LEMMA KeysTyped ==
    ASSUME LiveInv,
           ToggleOverVpn \/ ToggleBypass \/ ChangeDns \/ EditServers
    PROVE  LiveInv'
<1>0. "keys" \in Writers /\ UNCHANGED <<row, helper, arrived>>
      /\ UNCHANGED <<vpnrow, tracked, shadow, bound, vpn, steals>>
    BY LiveAssumption DEF LiveAssumption, ToggleOverVpn, ToggleBypass, ChangeDns,
           EditServers, routes, Press
<1>1. HelperTyped' /\ RowsTyped'
    BY <1>0 DEF LiveInv, HelperTyped, RowsTyped, helper
<1>2. ASSUME DashboardTyped', ChannelTyped', faults' \in Nat
      PROVE  LiveInv'
    BY <1>0, <1>1, <1>2 DEF LiveInv, MachineTyped
<1>3. ASSUME NEW new \in Settings, ApplyModeLive(new),
             UNCHANGED <<job, binding, arrived>>
      PROVE  LiveInv'
    <2>1. CASE new.over /\ vpn # "routed"
        <3>1. want' \in Settings
            BY <1>3, <2>1 DEF ApplyModeLive, Settings
        <3>. QED  BY <1>2, <1>3, <2>1, <3>1
                     DEF ApplyModeLive, LiveInv, DashboardTyped, ChannelTyped,
                         MachineTyped, channel, Sound
    <2>2. CASE ~(new.over /\ vpn # "routed")
        <3>1. want' = new /\ Writes("keys", Payload({"over", "nobypass"}, new))
            BY <1>3, <2>2 DEF ApplyModeLive
        <3>2. Payload({"over", "nobypass"}, new) \in Payloads
            BY Told
        <3>3. ChannelTyped' /\ faults' \in Nat
            BY <1>0, <3>1, <3>2, WritesTyped
        <3>. QED  BY <1>2, <1>3, <3>1, <3>3 DEF LiveInv, DashboardTyped
    <2>. QED  BY <2>1, <2>2
<1>4. CASE ToggleOverVpn
    <2>1. [want EXCEPT !.over = ~@, !.nobypass = @ /\ want.over] \in Settings
        BY DEF LiveInv, DashboardTyped, Settings
    <2>. QED  BY <1>3, <1>4, <2>1 DEF ToggleOverVpn
<1>5. CASE ToggleBypass
    <2>1. [want EXCEPT !.nobypass = ~@] \in Settings
        BY DEF LiveInv, DashboardTyped, Settings
    <2>. QED  BY <1>3, <1>5, <2>1 DEF ToggleBypass
<1>6. CASE ChangeDns
    <2>1. want' \in Settings /\ Writes("keys", Payload({}, want'))
        BY <1>6 DEF ChangeDns, LiveInv, DashboardTyped, Settings
    <2>2. Payload({}, want') \in Payloads
        BY <2>1, Told
    <2>3. ChannelTyped' /\ faults' \in Nat
        BY <1>0, <2>1, <2>2, WritesTyped
    <2>. QED  BY <1>2, <1>6, <2>1, <2>3 DEF ChangeDns, LiveInv, DashboardTyped
<1>7. CASE EditServers
    <2>1. PICK s \in Servers, replace \in BOOLEAN :
             /\ want' = [want EXCEPT !.servers = IF replace THEN {s} ELSE @ \cup {s}]
             /\ job' = [old |-> IF replace THEN want.servers ELSE {}, new |-> s,
                        at  |-> "remove"]
        BY <1>7 DEF EditServers
    <2>2. want' \in Settings /\ job' \in Jobs
        BY <2>1 DEF LiveInv, DashboardTyped, Settings, Jobs
    <2>. QED  BY <1>2, <1>7, <2>2
                 DEF EditServers, LiveInv, DashboardTyped, ChannelTyped,
                     MachineTyped, channel, Sound
<1>. QED  BY <1>4, <1>5, <1>6, <1>7

\* The threads behind the keys.
LEMMA ThreadsTyped ==
    ASSUME LiveInv, Threads
    PROVE  LiveInv'
<1>0. "worker" \in Writers /\ "telemetry" \in Writers
    BY LiveAssumption DEF LiveAssumption
<1>1. CASE DashBinds
    <2>1. bound' \in Resolvers
        BY <1>1 DEF DashBinds, LiveInv, DashboardTyped, Settings
    <2>2. ChannelTyped' /\ HelperTyped' /\ RowsTyped'
        BY <1>1
           DEF DashBinds, LiveInv, ChannelTyped, HelperTyped, RowsTyped,
               channel, helper, routes
    <2>3. DashboardTyped' /\ MachineTyped'
        BY <1>1, <2>1
           DEF DashBinds, LiveInv, DashboardTyped, MachineTyped, routes,
               counts
    <2>. QED  BY <2>2, <2>3 DEF LiveInv
<1>2. CASE RehostRemoves
    <2>1. job' \in Jobs
        BY <1>2 DEF RehostRemoves, LiveInv, DashboardTyped, Jobs
    <2>2. RowsTyped'
        BY <1>2 DEF RehostRemoves, LiveInv, RowsTyped
    <2>. QED  BY <1>2, <2>1, <2>2
                 DEF RehostRemoves, LiveInv, DashboardTyped, ChannelTyped,
                     HelperTyped, MachineTyped, channel, helper, counts
<1>3. CASE RehostInstalls
    <2>1. Writes("worker", Payload({"servers"}, want)) /\ want \in Settings
        BY <1>3 DEF RehostInstalls, LiveInv, DashboardTyped
    <2>2. ChannelTyped' /\ faults' \in Nat
        BY <1>0, <2>1, Told, WritesTyped
    <2>3. RowsTyped'
        BY <1>3 DEF RehostInstalls, LiveInv, RowsTyped, Pinned
    <2>. QED  BY <1>3, <2>2, <2>3
                 DEF RehostInstalls, LiveInv, DashboardTyped, HelperTyped,
                     MachineTyped, helper, counts
<1>4. CASE RehostUnresolved
    <2>1. PICK r \in SUBSET want.servers :
             /\ row' = IF job.new \in r THEN [row EXCEPT ![job.new] = "phys"] ELSE row
             /\ writing' = [writing EXCEPT !["worker"] =
                              Payload({"servers"}, [want EXCEPT !.servers = r])]
        BY <1>4 DEF RehostUnresolved
    <2>2. Payload({"servers"}, [want EXCEPT !.servers = r]) \in Payloads
        <3>1. [want EXCEPT !.servers = r] \in Settings
            BY DEF LiveInv, DashboardTyped, Settings
        <3>. QED  BY <3>1, Told
    <2>3. RowsTyped'
        BY <2>1 DEF LiveInv, RowsTyped, Pinned
    <2>4. ChannelTyped'
        <3>1. writing' \in [Writers -> Payloads \cup {None}]
            BY <2>1, <2>2 DEF LiveInv, ChannelTyped
        <3>2. \A w \in Writers : writing[w] # None => writing'[w] # None
            BY LiveAssumption, <1>0, <2>1, <2>2
               DEF LiveInv, ChannelTyped, LiveAssumption
        <3>. QED  BY <1>4, <3>1, <3>2 DEF RehostUnresolved, LiveInv, ChannelTyped
    <2>5. faults' \in Nat
        BY <1>4 DEF RehostUnresolved, Fault, LiveInv, MachineTyped
    <2>. QED  BY <1>4, <2>3, <2>4, <2>5
                 DEF RehostUnresolved, LiveInv, DashboardTyped, HelperTyped,
                     MachineTyped, helper, counts
<1>5. CASE VpnArrived
    <2>1. ChannelTyped' /\ faults' \in Nat
        <3>1. CASE UNCHANGED channel /\ Sound
            BY <3>1 DEF LiveInv, ChannelTyped, MachineTyped, channel, Sound
        <3>2. CASE Writes("telemetry", Payload({"reapply"}, want))
            BY <1>0, <3>2, Told, WritesTyped DEF LiveInv, DashboardTyped
        <3>. QED  BY <1>5, <3>1, <3>2 DEF VpnArrived
    <2>. QED  BY <1>5, <2>1
                 DEF VpnArrived, LiveInv, DashboardTyped, HelperTyped, RowsTyped,
                     MachineTyped, helper, routes, counts
<1>6. ASSUME NEW w \in Writers, WriteEnds(w)
      PROVE  LiveInv'
    <2>1. ChannelTyped'
        <3>1. file' \in Payloads \cup {Torn} /\ fresh' \in BOOLEAN
            BY <1>6 DEF WriteEnds, LiveInv, ChannelTyped
        <3>2. /\ writing' = [writing EXCEPT ![w] = None] /\ crossed' = crossed \ {w}
              /\ \A v \in Writers \ {w} : writing'[v] = writing[v]
            BY <1>6 DEF WriteEnds, LiveInv, ChannelTyped
        <3>. QED  BY <3>1, <3>2 DEF LiveInv, ChannelTyped
    <2>. QED  BY <1>6, <2>1
                 DEF WriteEnds, LiveInv, DashboardTyped, HelperTyped, RowsTyped,
                     MachineTyped, dashboard, helper, routes,
                     counts
<1>. QED  BY <1>1, <1>2, <1>3, <1>4, <1>5, <1>6 DEF Threads

\* The helper's loop.
LEMMA MonitorTyped ==
    ASSUME LiveInv, Monitor
    PROVE  LiveInv'
<1>0. /\ UNCHANGED <<dashboard, vpn, counts>>
      /\ UNCHANGED <<writing, crossed, file>>
    BY DEF Monitor, Applies, PollReads, ApplyOver,
           ApplyBypass, ApplyServers, ApplyReapply, ApplyBind,
           HealServer, HealEndpoint, VpnChecked, channel
<1>1. DashboardTyped'
    BY <1>0 DEF LiveInv, DashboardTyped, dashboard
<1>2. ASSUME fresh' \in BOOLEAN, HelperTyped', RowsTyped', faults' \in Nat,
             vpnrow' \in {"phys", "none", "tun"}, tracked' \in BOOLEAN,
             shadow' \in BOOLEAN, bound' \in Resolvers
      PROVE  LiveInv'
    BY <1>0, <1>1, <1>2 DEF LiveInv, ChannelTyped, MachineTyped, counts
<1>3. /\ fresh \in BOOLEAN /\ faults \in Nat /\ vpnrow \in {"phys", "none", "tun"}
      /\ tracked \in BOOLEAN /\ shadow \in BOOLEAN /\ bound \in Resolvers
      /\ mode \in Settings
      /\ RowsTyped /\ HelperTyped
    BY DEF LiveInv, ChannelTyped, MachineTyped, HelperTyped
<1>4. ASSUME NEW key, Applying(key)
      PROVE  todo # <<>> /\ got \in Payloads
    BY <1>3, <1>4 DEF Applying, HelperTyped
<1>5. CASE PollReads
    <2>1. file \in Payloads
        BY <1>5 DEF PollReads, LiveInv, ChannelTyped
    <2>2. HelperTyped'
        BY <1>3, <1>5, <2>1
           DEF PollReads, HelperTyped, Payloads, Settings
    <2>. QED  BY <1>2, <1>3, <1>5, <2>2 DEF PollReads, RowsTyped, routes
<1>6. CASE ApplyOver
    <2>1. /\ got \in Payloads /\ got.over \in BOOLEAN
          /\ UNCHANGED <<got, seen, vpnrow, tracked, bound, fresh>>
        BY <1>4, <1>6 DEF ApplyOver, Payloads, channel
    <2>2. CASE got.over = mode.over
        BY <1>2, <1>3, <1>6, <2>1, <2>2
           DEF ApplyOver, HelperTyped, RowsTyped, Sound
    <2>3. CASE got.over # mode.over
        <3>1. PICK ok \in BOOLEAN :
                 /\ SwitchVless(got.over, ok)
                 /\ mode' = [mode EXCEPT !.over = IF ok THEN got.over ELSE @]
                 /\ ride' = IF ok THEN got.over ELSE ride
            BY <1>6, <2>3 DEF ApplyOver
        <3>2. RowsTyped' /\ faults' \in Nat /\ shadow' \in BOOLEAN
            BY <2>1, <3>1, SwitchTyped
        <3>3. HelperTyped'
            BY <1>3, <2>1, <3>1 DEF HelperTyped, Settings
        <3>. QED  BY <1>2, <1>3, <2>1, <3>2, <3>3
    <2>. QED  BY <2>2, <2>3
<1>7. ASSUME BypassVpn
      PROVE  /\ faults' \in Nat /\ vpnrow' \in {"phys", "none", "tun"}
             /\ tracked' \in BOOLEAN /\ shadow' \in BOOLEAN
    <2>1. mode.over \in BOOLEAN
        BY <1>3 DEF Settings
    <2>. QED  BY <1>3, <1>7, <2>1 DEF BypassVpn, Fault, Sound
<1>8. CASE ApplyBypass
    <2>1. got \in Payloads /\ UNCHANGED <<got, seen, ride, row, bound, fresh>>
        BY <1>4, <1>8 DEF ApplyBypass, channel
    <2>2. mode' \in Settings
        BY <1>3, <1>8, <2>1 DEF ApplyBypass, Settings, Payloads
    <2>3. HelperTyped' /\ RowsTyped'
        BY <1>3, <2>1, <2>2 DEF HelperTyped, RowsTyped
    <2>4. /\ faults' \in Nat /\ vpnrow' \in {"phys", "none", "tun"}
          /\ tracked' \in BOOLEAN /\ shadow' \in BOOLEAN
        <3>1. CASE BypassVpn
            BY <1>7, <3>1
        <3>2. CASE Sound /\ UNCHANGED <<mode, vpnrow, tracked, shadow>>
            BY <1>3, <3>2 DEF Sound
        <3>3. CASE /\ tracked' = FALSE /\ vpnrow' = "none" /\ Sound
                   /\ shadow' = (shadow /\ mode.over)
            BY <1>3, <3>3 DEF Sound, Settings
        <3>. QED  BY <1>8, <3>1, <3>2, <3>3 DEF ApplyBypass
    <2>. QED  BY <1>2, <1>3, <2>1, <2>3, <2>4
<1>9. CASE ApplyServers
    <2>1. /\ got \in Payloads
          /\ UNCHANGED <<got, seen, ride, vpnrow, tracked, shadow, bound, fresh>>
        BY <1>4, <1>9 DEF ApplyServers, channel
    <2>2. CASE got.servers = {}
        BY <1>2, <1>3, <1>9, <2>1, <2>2
           DEF ApplyServers, HelperTyped, RowsTyped, Sound
    <2>3. CASE got.servers # {}
        <3>1. PICK ok \in BOOLEAN :
                 AddAll(got.servers, Egress(mode.over),
                        [s \in Servers |-> IF s \in mode.servers \ got.servers
                                           THEN "none" ELSE row[s]], ok)
            BY <1>9, <2>3 DEF ApplyServers
        <3>2. [s \in Servers |-> IF s \in mode.servers \ got.servers
                                 THEN "none" ELSE row[s]]
                 \in [Servers -> Pinned \cup {"none", "tun"}]
            BY <1>3 DEF RowsTyped
        <3>5. got.servers \in SUBSET Servers /\ Egress(mode.over) \in Pinned
            BY <2>1 DEF Payloads, Egress, Pinned
        <3>3. RowsTyped' /\ faults' \in Nat
            BY <3>1, <3>2, <3>5, AddAllTyped
        <3>4. HelperTyped'
            BY <1>3, <1>9, <2>1, <2>3
               DEF ApplyServers, HelperTyped, Settings, Payloads
        <3>. QED  BY <1>2, <1>3, <2>1, <3>3, <3>4
    <2>. QED  BY <2>2, <2>3
<1>10. CASE ApplyReapply
    <2>1. got \in Payloads /\ UNCHANGED <<got, mode, seen, ride, row, bound, fresh>>
        BY <1>4, <1>10 DEF ApplyReapply, channel
    <2>2. HelperTyped' /\ RowsTyped'
        BY <1>3, <2>1 DEF HelperTyped, RowsTyped
    <2>3. /\ faults' \in Nat /\ vpnrow' \in {"phys", "none", "tun"}
          /\ tracked' \in BOOLEAN /\ shadow' \in BOOLEAN
        BY <1>3, <1>7, <1>10 DEF ApplyReapply, Sound
    <2>. QED  BY <1>2, <1>3, <2>1, <2>2, <2>3
<1>11. CASE ApplyBind
    <2>1. /\ got \in Payloads
          /\ UNCHANGED <<got, mode, seen, ride, routes, faults, fresh>>
        BY <1>4, <1>11 DEF ApplyBind, channel
    <2>2. HelperTyped' /\ RowsTyped'
        BY <1>3, <2>1 DEF HelperTyped, RowsTyped, routes
    <2>3. bound' \in Resolvers
        BY <1>3, <1>11 DEF ApplyBind, Settings
    <2>. QED  BY <1>2, <1>3, <2>1, <2>2, <2>3 DEF routes
<1>12. CASE HealServer
    <2>1. PICK s \in mode.servers, ok \in BOOLEAN :
             AddAll({s}, Egress(mode.over), [row EXCEPT ![s] = "none"], ok)
        BY <1>12 DEF HealServer
    <2>2. [row EXCEPT ![s] = "none"] \in [Servers -> Pinned \cup {"none", "tun"}]
        BY <1>3 DEF RowsTyped
    <2>3. {s} \in SUBSET Servers
        BY <1>3 DEF Settings
    <2>4. RowsTyped' /\ faults' \in Nat
        BY <2>1, <2>2, <2>3, AddAllTyped DEF Egress, Pinned
    <2>. QED  BY <1>2, <1>3, <1>12, <2>4
                 DEF HealServer, HelperTyped, helper, channel
<1>13. CASE HealEndpoint
    <2>1. vpnrow' \in {"phys", "none", "tun"} /\ faults' \in Nat
        BY <1>3, <1>13 DEF HealEndpoint, Sound, Fault
    <2>. QED  BY <1>2, <1>3, <1>13, <2>1
                 DEF HealEndpoint, HelperTyped, RowsTyped, helper,
                     channel
<1>14. CASE VpnChecked
    <2> DEFINE up == vpn # "down"
    <2>1. seen' = up /\ UNCHANGED <<got, todo, ride, vpnrow, tracked, bound, fresh>>
        BY <1>14 DEF VpnChecked, channel
    <2>2. CASE up = mode.over
        BY <1>2, <1>3, <1>14, <2>1, <2>2
           DEF VpnChecked, HelperTyped, RowsTyped, Sound
    <2>3. CASE up # mode.over
        <3>1. PICK ok \in BOOLEAN :
                 /\ SwitchVless(up, ok)
                 /\ mode' = [mode EXCEPT !.over = IF ok THEN up ELSE @]
            BY <1>14, <2>3 DEF VpnChecked
        <3>2. RowsTyped' /\ faults' \in Nat /\ shadow' \in BOOLEAN
            BY <3>1, SwitchTyped
        <3>3. HelperTyped'
            BY <1>3, <2>1, <3>1 DEF HelperTyped, Settings
        <3>. QED  BY <1>2, <1>3, <2>1, <3>2, <3>3
    <2>. QED  BY <2>2, <2>3
<1>. QED  BY <1>5, <1>6, <1>8, <1>9, <1>10, <1>11, <1>12, <1>13, <1>14
             DEF Monitor, Applies

\* The machine.
LEMMA OutsideTyped ==
    ASSUME LiveInv, VpnFlips \/ VpnRoutes \/ Steal
    PROVE  LiveInv'
<1>0. UNCHANGED <<want, job, binding, channel, helper, tracked, shadow, bound,
                  faults>>
    BY DEF VpnFlips, VpnRoutes, Steal, dashboard, routes
<1>1. arrived' \in BOOLEAN /\ vpn' \in {"down", "connected", "routed"}
    BY DEF VpnFlips, VpnRoutes, Steal, dashboard, LiveInv,
           DashboardTyped, MachineTyped
<1>3. vpnrow' \in {"phys", "none", "tun"}
    BY DEF VpnFlips, VpnRoutes, Steal, routes, LiveInv,
           MachineTyped
<1>4. steals' \in Nat
    BY DEF VpnFlips, VpnRoutes, Steal, counts, LiveInv,
           MachineTyped
<1>2. RowsTyped'
    <2>1. CASE UNCHANGED row
        BY <2>1 DEF LiveInv, RowsTyped
    <2>2. CASE row' = [s \in Servers |-> IF row[s] = "vpn" THEN "none" ELSE row[s]]
        BY <2>2 DEF LiveInv, RowsTyped
    <2>3. CASE \E s \in Servers, r \in {"none", "tun"} : row' = [row EXCEPT ![s] = r]
        BY <2>3 DEF LiveInv, RowsTyped
    <2>. QED  BY <2>1, <2>2, <2>3
                 DEF VpnFlips, VpnRoutes, Steal, routes
<1>. QED  BY <1>0, <1>1, <1>2, <1>3, <1>4
             DEF LiveInv, ChannelTyped, DashboardTyped, HelperTyped, MachineTyped,
                 channel, helper

\* So every step keeps the invariant.
LEMMA NextLive ==
    ASSUME LiveInv, [LiveNext]_liveVars
    PROVE  LiveInv'
<1>1. CASE UNCHANGED liveVars
    BY <1>1
       DEF liveVars, dashboard, channel, helper, routes,
           counts, LiveInv, ChannelTyped, DashboardTyped, HelperTyped, RowsTyped,
           MachineTyped
<1>. QED  BY <1>1, KeysTyped, ThreadsTyped, MonitorTyped, OutsideTyped
             DEF LiveNext

\* It holds in every state.
LEMMA LiveInvariance == LiveSpec => []LiveInv
<1>1. LiveInit => LiveInv
    BY InitLive
<1>2. LiveInv /\ [LiveNext]_liveVars => LiveInv'
    BY NextLive
<1>3. LiveSpec => LiveInit /\ [][LiveNext]_liveVars
    BY PTL DEF LiveSpec
<1>. QED  BY <1>1, <1>2, <1>3, PTL

\* Every variable stays in its set, whichever writers meet in the control file: what
\* the helper applies is a payload that was written whole (_write_control_file,
\* poll_control_file).
THEOREM LiveTypes ==
    LiveSpec => []LiveTypeOK
<1>1. LiveInv => LiveTypeOK
    BY LiveAssumption
       DEF LiveInv, ChannelTyped, DashboardTyped, HelperTyped, RowsTyped,
           MachineTyped, LiveTypeOK, LiveAssumption
<1>. QED  BY <1>1, LiveInvariance, PTL

\* For any servers, and any number of keys, flips, thefts and failures: no switch and
\* no repair leaves a server the helper goes on serving without its route, unless an
\* addition faults or the VPN it rides is down (_live_switch_vless,
\* _live_apply_servers, _heal_endpoint_routes).
THEOREM RoutesKept ==
    LiveSpec => SwitchKeepsRoutes
<1>1. ASSUME LiveInv, [LiveNext]_liveVars, NEW s \in mode.servers \cap mode'.servers,
             row[s] \in Pinned, row'[s] = "none",
             UNCHANGED <<want, job, vpn, steals, faults>>
      PROVE  mode.over /\ vpn = "down"
    <2>1. /\ row'[s] # row[s] /\ s \in Servers /\ faults \in Nat
          /\ "none" \notin Pinned
          /\ mode.servers \in SUBSET Servers /\ mode.over \in BOOLEAN
        BY <1>1 DEF LiveInv, HelperTyped, MachineTyped, Settings, Pinned
    <2>2. ~UNCHANGED liveVars
        BY <2>1 DEF liveVars, routes
    <2>3. ~(ToggleOverVpn \/ ToggleBypass \/ ChangeDns \/ EditServers)
        BY <2>1
           DEF ToggleOverVpn, ToggleBypass, ChangeDns,
               EditServers, routes
    <2>4. ~Threads
        <3>1. ~RehostRemoves
            BY <1>1 DEF RehostRemoves, LiveInv, DashboardTyped, Jobs
        <3>2. ~RehostInstalls /\ ~RehostUnresolved
            BY <1>1, <2>1 DEF RehostInstalls, RehostUnresolved, Fault
        <3>. QED  BY <2>1, <3>1, <3>2
                     DEF Threads, DashBinds, VpnArrived,
                         WriteEnds, routes
    <2>5. ~VpnFlips /\ ~VpnRoutes /\ ~Steal
        BY <1>1 DEF VpnFlips, VpnRoutes, Steal, LiveInv, MachineTyped
    <2>6. Monitor
        BY <1>1, <2>2, <2>3, <2>4, <2>5 DEF LiveNext
    <2>7. ~(\/ PollReads \/ ApplyBypass \/ ApplyReapply
            \/ ApplyBind \/ HealEndpoint)
        BY <2>1
           DEF PollReads, ApplyBypass, ApplyReapply, ApplyBind,
               HealEndpoint, routes
    <2>8. ~ApplyOver
        <3> SUFFICES ASSUME ApplyOver PROVE FALSE
            OBVIOUS
        <3>1. PICK ok \in BOOLEAN : SwitchVless(got.over, ok)
            BY <2>1 DEF ApplyOver
        <3>2. got.over \in BOOLEAN
            BY <1>1
               DEF ApplyOver, Applying, LiveInv, HelperTyped, Payloads
        <3>. QED  BY <1>1, <3>1, <3>2, SwitchServes
    <2>9. ~VpnChecked
        <3> SUFFICES ASSUME VpnChecked PROVE FALSE
            OBVIOUS
        <3>1. PICK ok \in BOOLEAN : SwitchVless(vpn # "down", ok)
            BY <2>1 DEF VpnChecked
        <3>. QED  BY <1>1, <3>1, SwitchServes
    <2>10. /\ Egress(mode.over) \in Pinned
           /\ Egress(mode.over) = "vpn" => mode.over
        BY DEF Egress, Pinned
    <2>11. CASE ApplyServers
        <3>1. got.servers # {}
            BY <2>1, <2>11 DEF ApplyServers
        <3>2. got.servers \in SUBSET Servers
            BY <1>1, <2>11
               DEF ApplyServers, Applying, LiveInv, HelperTyped,
                   Payloads
        <3>3. mode'.servers = got.servers
            BY <1>1, <2>11, <3>1
               DEF ApplyServers, LiveInv, HelperTyped, Settings
        <3>4. PICK ok \in BOOLEAN :
                 AddAll(got.servers, Egress(mode.over),
                        [v \in Servers |-> IF v \in mode.servers \ got.servers
                                           THEN "none" ELSE row[v]], ok)
            BY <2>11, <3>1 DEF ApplyServers
        <3>5. ASSUME ~(Egress(mode.over) = "vpn" /\ vpn = "down")
              PROVE  row'[s] = Egress(mode.over)
            BY <1>1, <2>1, <2>10, <3>2, <3>3, <3>4, <3>5, AddAllServes
        <3>. QED  BY <1>1, <2>1, <2>10, <3>5
    <2>12. CASE HealServer
        <3>1. PICK f \in mode.servers, ok \in BOOLEAN :
                 AddAll({f}, Egress(mode.over), [row EXCEPT ![f] = "none"], ok)
            BY <2>12 DEF HealServer
        <3>2. {f} \in SUBSET Servers
            BY <2>1
        <3> DEFINE rows == [row EXCEPT ![f] = "none"]
                   only == {f}
                   eg   == Egress(mode.over)
        <3>5. AddAll(only, eg, rows, ok) /\ UNCHANGED faults
            BY <1>1, <3>1
        <3>6. only \in SUBSET Servers /\ eg \in Pinned
            BY <3>2, <2>10
        <3> HIDE DEF rows, only, eg
        <3>3. ASSUME ~(eg = "vpn" /\ vpn = "down")
              PROVE  row'[s] = IF s \in only THEN eg ELSE rows[s]
            BY <2>1, <3>3, <3>5, <3>6, AddAllServes
        <3>4. s # f => rows[s] = row[s]
            BY <1>1, <2>1 DEF LiveInv, RowsTyped, rows
        <3>. QED  BY <1>1, <2>1, <2>10, <3>3, <3>4 DEF only, eg
    <2>. QED  BY <2>6, <2>7, <2>8, <2>9, <2>11, <2>12 DEF Monitor, Applies
<1>2. LiveInv /\ [LiveNext]_liveVars =>
          [\A s \in mode.servers \cap mode'.servers :
              /\ row[s] \in Pinned /\ row'[s] = "none"
              /\ UNCHANGED <<want, job, vpn, steals, faults>>
              => mode.over /\ vpn = "down"]_liveVars
    BY <1>1
<1>3. LiveSpec => [][LiveNext]_liveVars
    BY PTL DEF LiveSpec
<1>. QED  BY <1>2, <1>3, LiveInvariance, PTL DEF SwitchKeepsRoutes
=============================================================================
