---------------------------- MODULE AtomicChange ----------------------------
(***************************************************************************)
(* What a route transaction promises (RouteTransaction's docstring in      *)
(* tuntop/core/routes_txn.py): one step from the table it found to the     *)
(* table its plan describes, or to the very table it found - or, said out  *)
(* loud, to a table that could not be put back.                            *)
(***************************************************************************)
CONSTANT Tables   \* the routing tables there are

VARIABLES table,  \* the routing table, as a caller of commit() sees it
          goal,   \* the table the plan describes
          result  \* commit()'s verdict: "none" while it runs, "ok", "failed",
                  \* or "damaged": failed, and the rollback reported errors

Init == table \in Tables /\ goal \in Tables /\ result = "none"

Succeed == result = "none" /\ result' = "ok"     /\ table' = goal
Abort   == result = "none" /\ result' = "failed" /\ table' = table

Damage  == result = "none" /\ result' = "damaged" /\ table' \in Tables

Next == (Succeed \/ Abort \/ Damage) /\ UNCHANGED goal

Spec == Init /\ [][Next]_<<table, goal, result>>
=============================================================================
