------------------------- MODULE MCRouteTransaction -------------------------
(***************************************************************************)
(* Instances of RouteTransaction: two routes of one prefix on two          *)
(* interfaces, and a third route of another prefix.                        *)
(***************************************************************************)
EXTENDS RouteTransaction

CONSTANTS r1, r2, r3, d1, d2, wifi, eth

MCRoutes == {r1, r2, r3}
MCDest   == [r \in MCRoutes |-> IF r = r3 THEN d2 ELSE d1]
MCIface  == [r \in MCRoutes |-> IF r = r2 THEN eth ELSE wifi]

AllOps == [action : {"add", "remove"}, route : MCRoutes, metric : {1, 2}]

\* Up to three operations, on different routes.
MCPlans ==
    { p \in UNION {[1..n -> AllOps] : n \in 0..3} :
        \A i, j \in DOMAIN p : p[i].route = p[j].route => i = j }

\* The plan describes the table it meets: it adds what is absent and removes
\* what is there, as it is there.
Fresh(p, T) ==
    \A i \in DOMAIN p : T[p[i].route] = (IF p[i].action = "add" THEN 0 ELSE p[i].metric)

AnyPlan(p, T) == TRUE
=============================================================================
