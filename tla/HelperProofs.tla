---------------------------- MODULE HelperProofs ----------------------------
(***************************************************************************)
(* Theorems about the helper's routes, for any prefixes and egresses and   *)
(* any number of roams, switches and failing calls, when the network moves *)
(* only after the country is installed, a move is over before the next one *)
(* starts, and a move that fails put nothing in the table (each of the     *)
(* three perils breaks the first theorem).                                 *)
(*                                                                         *)
(* That every row of ours is in a ledger or in a hand is not inductive.    *)
(* The country rests on what a move knows: it is alone, the ledger holds   *)
(* exactly the rows it puts in, none of them is there before it adds them, *)
(* and all are before it drops the old ones.  The shadow rests on what its *)
(* two steps know: the rows being given back are in nobody's pass.         *)
(***************************************************************************)
EXTENDS HelperRoutes, HelperMonitor, FiniteSetTheorems, TLAPS

Settled == {"roam early", "roam twice", "half move"} \cap Perils = {}

Sane       == ending \in {"running", "normal"}
Serving    == main \in {"run", "shadow", "undo", "join"}
Idle(k)    == move[k].at \in {"unused", "over"}
Holding(k) == move[k].at \in {"add", "roll back", "drop"}

Stages    == {"unused", "queued", "lock", "add", "roll back", "drop", "over"}
RowSets   == SUBSET (Country \X Gateways)
Workers   == [at : Stages, from : Gateways, to : Gateways, rows : RowSets]
MoveTyped == move \in [1..MaxRoams -> Workers]

\* Only the newest worker is not over.
InOrder ==
    \E n \in 0..MaxRoams : \A k \in 1..MaxRoams :
        /\ move[k].at = "unused" <=> k > n
        /\ k < n => move[k].at = "over"

\* While a move is under way it has somewhere to go, from rows of one egress.
MovesAway ==
    \A k \in 1..MaxRoams :
        /\ ~Idle(k) => move[k].from # move[k].to
        /\ move[k].rows \subseteq Via(Country, move[k].from)

\* Nobody is at work when the clean-up gets past its join, or else it says so.
Joins ==
    /\ Serving => ending = "running"
    /\ ending = "normal" => main = "done"
    /\ ending = "running" => main # "done"
    /\ Sane /\ ~Serving => inst = "done" /\ \A k \in 1..MaxRoams : Idle(k)

\* Until the country is installed there is one egress and no move.
Early ==
    inst # "done" => /\ gateway = base /\ phys = base
                     /\ \A k \in 1..MaxRoams : move[k].at = "unused"

Control == MoveTyped /\ InOrder /\ MovesAway /\ Joins /\ Early

\* The install thread registers first; what it has yet to install and what was
\* refused is not in the table.
Registered ==
    /\ inst \in {"parse", "register"} => geo = {} /\ refused = {}
    /\ inst = "install" =>
          /\ batches \cap refused = {}
          /\ Alive => Via(batches, base) \subseteq geo
          /\ Sane => \A r \in table : r[2] = base => r[1] \notin batches \cup refused

GeoUniform == \A r, s \in geo : r[2] = s[2]

MoveKnows ==
    \A k \in 1..MaxRoams :
        /\ Alive /\ Holding(k) => geo = New(k)
        /\ Sane /\ move[k].at \in {"add", "roll back"} => table \cap New(k) = {}
        /\ Sane /\ move[k].at = "drop" => New(k) \subseteq table

\* A row at a gateway is in a ledger or in the hand of a move.
Pinned ==
    Sane => \A r \in table : r[2] \in Gateways =>
        \/ r \in own \cup geo
        \/ \E k \in 1..MaxRoams : Holding(k) /\ r \in move[k].rows

CountryInv == Registered /\ GeoUniform /\ MoveKnows /\ Pinned

\* A row in the tunnel is in the shadow's ledger, unless it is being given back;
\* and what is given back is not about to be shadowed.
ShadowInv ==
    /\ \A r \in table : r[2] = "tun" => r[1] \in over
    /\ todo \cap saved = {}
    /\ inst = "give back" =>
          /\ \A r \in table : r[2] = "tun" => r[1] \notin freed
          /\ main \in {"run", "shadow", "undo"} =>
                freed \subseteq Dests(geo) /\ todo \cap freed = {}

RouteInv == TypeOK /\ own \subseteq {Server} \X Gateways /\ Control /\ CountryInv /\ ShadowInv

-----------------------------------------------------------------------------
(* Rows. *)

LEMMA ViaRows ==
    ASSUME NEW ps, NEW e
    PROVE  /\ \A r \in Via(ps, e) : r[1] \in ps /\ r[2] = e /\ r = <<r[1], r[2]>>
           /\ \A p \in ps : <<p, e>> \in Via(ps, e)
BY DEF Via

LEMMA RowVia ==
    ASSUME NEW r \in Rows, NEW ps, NEW e
    PROVE  r \in Via(ps, e) <=> r[1] \in ps /\ r[2] = e
BY DEF Rows, Via

LEMMA DestsOf ==
    ASSUME NEW rows
    PROVE  \A p : p \in Dests(rows) <=> \E r \in rows : r[1] = p
BY DEF Dests

LEMMA DestsTyped ==
    ASSUME NEW A, NEW B, NEW rows, rows \subseteq A \X B
    PROVE  /\ Dests(rows) \subseteq A
           /\ \A e \in B : Via(Dests(rows), e) \subseteq A \X B
<1>1. Dests(rows) \subseteq A
    BY DEF Dests
<1> QED
    BY <1>1 DEF Via

\* The rows of a set, moved to another egress, are as many prefixes.
LEMMA DestsVia ==
    ASSUME NEW rows, NEW e
    PROVE  Dests(Via(Dests(rows), e)) = Dests(rows)
<1>1. \A p \in Dests(Via(Dests(rows), e)) : p \in Dests(rows)
    BY ViaRows, DestsOf
<1>2. \A p \in Dests(rows) : <<p, e>> \in Via(Dests(rows), e) /\ <<p, e>>[1] = p
    BY ViaRows
<1>3. \A p \in Dests(rows) : p \in Dests(Via(Dests(rows), e))
    BY <1>2, DestsOf
<1> QED
    BY <1>1, <1>3

\* The rows a move puts in: its old prefixes, at its new egress.
LEMMA NewRows ==
    ASSUME MoveTyped, NEW k \in 1..MaxRoams
    PROVE  /\ \A r \in New(k) : /\ r[1] \in Country /\ r[2] = move[k].to
                                /\ r[2] \in Gateways /\ r = <<r[1], r[2]>>
           /\ Dests(New(k)) = Dests(move[k].rows)
<1>1. /\ move[k].to \in Gateways
      /\ move[k].rows \subseteq Country \X Gateways
    BY DEF MoveTyped, Workers, RowSets
<1>2. Dests(move[k].rows) \subseteq Country
    BY <1>1, DestsTyped
<1>3. \A r \in New(k) : /\ r[1] \in Dests(move[k].rows) /\ r[2] = move[k].to
                        /\ r = <<r[1], r[2]>>
    BY ViaRows DEF New
<1>4. Dests(New(k)) = Dests(move[k].rows)
    BY DestsVia DEF New
<1> QED
    BY <1>1, <1>2, <1>3, <1>4

\* A worker that goes on to its next stage keeps what it knows.
LEMMA WorkerGoes ==
    ASSUME MoveTyped, NEW k \in 1..MaxRoams, NEW at \in Stages, Goes(k, at)
    PROVE  /\ MoveTyped'
           /\ \A j \in 1..MaxRoams :
                 /\ move'[j].at = IF j = k THEN at ELSE move[j].at
                 /\ move'[j].from = move[j].from /\ move'[j].to = move[j].to
                 /\ move'[j].rows = move[j].rows /\ New(j)' = New(j)
<1>1. \A j \in 1..MaxRoams :
          move'[j] = IF j = k THEN [move[j] EXCEPT !.at = at] ELSE move[j]
    BY DEF Goes, MoveTyped
<1>2. \A j \in 1..MaxRoams : move[j] \in Workers
    BY DEF MoveTyped
<1>3. \A j \in 1..MaxRoams :
          /\ move'[j].at = IF j = k THEN at ELSE move[j].at
          /\ move'[j].from = move[j].from /\ move'[j].to = move[j].to
          /\ move'[j].rows = move[j].rows /\ move'[j] \in Workers
    BY <1>1, <1>2 DEF Workers
<1>4. MoveTyped'
  <2>1. move' = [j \in 1..MaxRoams |-> move'[j]]
      BY DEF Goes, MoveTyped
  <2> QED
      BY <1>3, <2>1 DEF MoveTyped
<1> QED
    BY <1>3, <1>4 DEF New

\* A worker that registers also takes the rows it is about to replace.
LEMMA WorkerTakes ==
    ASSUME MoveTyped, NEW k \in 1..MaxRoams, NEW rows \in RowSets,
           move' = [move EXCEPT ![k].at = "add", ![k].rows = rows]
    PROVE  /\ MoveTyped'
           /\ \A j \in 1..MaxRoams :
                 /\ move'[j].from = move[j].from /\ move'[j].to = move[j].to
                 /\ j # k => /\ move'[j] = move[j] /\ New(j)' = New(j)
           /\ move'[k].at = "add" /\ move'[k].rows = rows
<1>1. \A j \in 1..MaxRoams :
          move'[j] = IF j = k THEN [move[j] EXCEPT !.at = "add", !.rows = rows] ELSE move[j]
    BY DEF MoveTyped
<1>2. \A j \in 1..MaxRoams : move[j] \in Workers
    BY DEF MoveTyped
<1>3. move'[k] = [at |-> "add", from |-> move[k].from, to |-> move[k].to, rows |-> rows]
    BY <1>1, <1>2 DEF Workers
<1>4. /\ \A j \in 1..MaxRoams :
             /\ move'[j].from = move[j].from /\ move'[j].to = move[j].to
             /\ j # k => move'[j] = move[j]
             /\ move'[j] \in Workers
      /\ move'[k].at = "add" /\ move'[k].rows = rows
  <2>1. move[k].from \in Gateways /\ move[k].to \in Gateways
      BY <1>2 DEF Workers
  <2>2. move'[k] \in Workers
    <3>1. "add" \in Stages
        BY DEF Stages
    <3>2. \A a \in Stages, f, t \in Gateways, R \in RowSets :
              [at |-> a, from |-> f, to |-> t, rows |-> R] \in Workers
        BY DEF Workers
    <3> QED
        BY <1>3, <2>1, <3>1, <3>2
  <2>3. /\ move'[k].from = move[k].from /\ move'[k].to = move[k].to
        /\ move'[k].at = "add" /\ move'[k].rows = rows
      BY <1>3
  <2>4. \A j \in 1..MaxRoams : j # k => move'[j] = move[j]
      BY <1>1
  <2> QED
      BY <1>2, <2>2, <2>3, <2>4
<1>5. MoveTyped'
  <2>1. move' = [j \in 1..MaxRoams |-> move'[j]]
      BY DEF MoveTyped
  <2> QED
      BY <1>4, <2>1 DEF MoveTyped
<1> QED
    BY <1>4, <1>5 DEF New

-----------------------------------------------------------------------------
(* What a step leaves alone keeps its part of the invariant. *)

\* The workers number from one to the newest.
LEMMA NewestMove ==
    ASSUME MoveTyped, InOrder
    PROVE  /\ Moves \in 0..MaxRoams
           /\ \A k \in 1..MaxRoams :
                 /\ move[k].at = "unused" <=> k > Moves
                 /\ k < Moves => move[k].at = "over"
<1>1. PICK n \in 0..MaxRoams : \A k \in 1..MaxRoams :
          /\ move[k].at = "unused" <=> k > n
          /\ k < n => move[k].at = "over"
    BY DEF InOrder
<1>2. MaxRoams \in Nat /\ DOMAIN move = 1..MaxRoams
    BY RoutesAssumption DEF MoveTyped
<1>3. {k \in DOMAIN move : move[k].at # "unused"} = 1..n
    BY <1>1, <1>2
<1>4. Cardinality(1..n) = n
    BY <1>2, FS_Interval
<1> QED
    BY <1>1, <1>3, <1>4 DEF Moves

\* Two workers are never both at it.
LEMMA OneMover ==
    ASSUME MoveTyped, InOrder
    PROVE  \A j, k \in 1..MaxRoams : ~Idle(j) /\ ~Idle(k) => j = k
<1>1. \A k \in 1..MaxRoams : ~Idle(k) => ~(k > Moves) /\ ~(k < Moves)
    BY NewestMove DEF Idle
<1>2. Moves \in Nat
    BY NewestMove
<1> QED
    BY <1>1, <1>2

\* The country does not mind what happens to the shadow.
LEMMA CountryKept ==
    ASSUME CountryInv,
           UNCHANGED <<geo, own, move, batches, refused, base>>,
           Sane' => Sane, Alive' => Alive,
           inst' \in {inst, "give back", "done"},
           \A r : r[2] \in Gateways => (r \in table' <=> r \in table),
           MoveTyped, base \in Gateways
    PROVE  CountryInv'
<1>1. Registered'
    BY DEF CountryInv, Registered
<1>2. GeoUniform'
    BY DEF CountryInv, GeoUniform
<1>3. MoveKnows'
  <2>1. \A k \in 1..MaxRoams : \A r \in New(k) : r[2] \in Gateways
      BY NewRows
  <2>2. \A k \in 1..MaxRoams : New(k)' = New(k)
      BY DEF New
  <2> QED
      BY <2>1, <2>2 DEF CountryInv, MoveKnows, Holding
<1>4. Pinned'
    BY DEF CountryInv, Pinned, Holding
<1> QED
    BY <1>1, <1>2, <1>3, <1>4 DEF CountryInv

\* The shadow does not mind what happens to the country, as long as the same
\* prefixes are registered.
LEMMA ShadowKept ==
    ASSUME ShadowInv,
           UNCHANGED <<over, saved, freed, todo>>,
           inst' = "give back" /\ main' \in {"run", "shadow", "undo"} =>
               Dests(geo)' = Dests(geo),
           inst' = "give back" => inst = "give back",
           main' \in {"run", "shadow", "undo"} => main \in {"run", "shadow", "undo"},
           \A r : r[2] = "tun" /\ r \in table' => r \in table
    PROVE  ShadowInv'
BY DEF ShadowInv

-----------------------------------------------------------------------------
(* The types. *)

LEMMA InitTyped ==
    ASSUME Init
    PROVE  TypeOK /\ own \subseteq {Server} \X Gateways /\ MoveTyped
<1>1. /\ phys \in Gateways /\ own \subseteq {Server} \X Gateways
      /\ table \subseteq Rows
    BY DEF Init, Via, Rows
<1>2. MoveTyped
    BY <1>1 DEF Init, NoMove, MoveTyped, Workers, Stages, RowSets
<1>3. \A k \in DOMAIN move : move[k].at = "unused"
    BY DEF Init, NoMove
<1>4. TypeOK
    BY <1>1, <1>3 DEF Init, TypeOK, Via
<1> QED
    BY <1>1, <1>2, <1>4

\* What the main thread does to the shadow and at its end is typed.
LEMMA MainTyped ==
    ASSUME TypeOK, own \subseteq {Server} \X Gateways, MoveTyped,
           \/ ShadowBegins \/ ShadowAdds \/ UndoShadow
           \/ GatewaySeen \/ Exit \/ Join \/ CleanVpn \/ CleanOwn \/ CleanGeo
           \/ Signal \/ Roam
    PROVE  TypeOK' /\ (own \subseteq {Server} \X Gateways)' /\ MoveTyped'
<1>1. MoveTyped'
    BY DEF MoveTyped, ShadowBegins, ShadowAdds, UndoShadow, GatewaySeen, Exit, Join,
           Joined, CleanVpn, CleanOwn, CleanGeo, Signal, Roam
<1>2. Via(Injected, "tun") \subseteq Rows /\ Via(Injected, "vpn") \subseteq Rows
    BY DEF Via, Rows
<1>3. \A S, e : S \subseteq Injected => Via(S, e) \subseteq Via(Injected, e)
    BY DEF Via
<1>4. (own \subseteq {Server} \X Gateways)' /\ table' \subseteq Rows
  <2>1. CASE ShadowBegins \/ GatewaySeen \/ Exit \/ Join \/ Signal \/ Roam
      BY <2>1 DEF TypeOK, ShadowBegins, GatewaySeen, Exit, Join, Joined, Signal, Roam,
                  helper
  <2>2. CASE ShadowAdds
    <3>1. PICK p \in todo : table' = table \cup Via({p}, "tun") \/ table' = table
        BY <2>2 DEF ShadowAdds
    <3>2. Via({p}, "tun") \subseteq Rows
        BY <1>2, <1>3 DEF TypeOK
    <3> QED
        BY <2>2, <3>1, <3>2 DEF TypeOK, ShadowAdds
  <2>3. CASE UndoShadow \/ CleanVpn
    <3>1. Via(saved, "vpn") \subseteq Rows
        BY <1>2, <1>3 DEF TypeOK
    <3> QED
        BY <2>3, <3>1 DEF TypeOK, UndoShadow, ShadowUndone, CleanVpn
  <2>4. CASE CleanOwn \/ CleanGeo
      BY <2>4 DEF TypeOK, CleanOwn, CleanGeo
  <2> QED
      BY <2>1, <2>2, <2>3, <2>4
<1>5. /\ geo' \subseteq Country \X Gateways
      /\ over' \subseteq Injected /\ saved' \subseteq Injected
      /\ {phys, gateway, pending, base}' \subseteq Gateways
    BY DEF TypeOK, ShadowBegins, ShadowAdds, UndoShadow, ShadowUndone, GatewaySeen,
           Exit, Join, Joined, CleanVpn, CleanOwn, CleanGeo, Signal, Roam, helper,
           mains, install
<1>6. /\ main' \in {"run", "shadow", "undo", "join", "vpn", "own", "geo", "done"}
      /\ todo' \subseteq Injected
      /\ UNCHANGED <<inst, batches, refused, freed>>
    BY DEF TypeOK, ShadowBegins, ShadowAdds, UndoShadow, ShadowUndone, GatewaySeen,
           Exit, Join, Joined, CleanVpn, CleanOwn, CleanGeo, Signal, Roam, mains, install
<1>7. own' \subseteq Via({Server}, phys') \cup (Rows \cap ({Server} \X Gateways))
    BY <1>4 DEF Rows
<1>8. \A k \in DOMAIN move' : move'[k].at \in
          {"unused", "queued", "lock", "add", "roll back", "drop", "over"}
    BY <1>1 DEF MoveTyped, Workers, Stages
<1> QED
    BY <1>1, <1>4, <1>5, <1>6, <1>7, <1>8 DEF TypeOK

\* So is what the install thread does.
LEMMA InstallerTyped ==
    ASSUME TypeOK, own \subseteq {Server} \X Gateways, MoveTyped, Installer
    PROVE  TypeOK' /\ (own \subseteq {Server} \X Gateways)' /\ MoveTyped'
<1>1. UNCHANGED <<own, phys, gateway, pending, base, main, todo, move>>
    BY DEF Installer, GeoSweeps, GeoRegisters, GeoInstalls, GeoWithdraws,
           UnshadowBegins, UnshadowEnds, helper, mains
<1>2. base \in Gateways /\ \A S : S \subseteq Country => Via(S, base) \subseteq Country \X Gateways
    BY DEF TypeOK, Via
<1>3. table' \subseteq Rows
  <2>1. CASE GeoSweeps \/ GeoRegisters \/ GeoWithdraws \/ UnshadowBegins
      BY <2>1 DEF TypeOK, GeoSweeps, GeoRegisters, GeoWithdraws, UnshadowBegins
  <2>2. CASE GeoInstalls
    <3>1. PICK c \in batches : table' \in {table, table \cup Via({c}, base)}
        BY <2>2 DEF GeoInstalls
    <3>2. Via({c}, base) \subseteq Rows
        BY <1>2 DEF TypeOK, Via, Rows
    <3> QED
        BY <3>1, <3>2 DEF TypeOK
  <2>3. CASE UnshadowEnds
    <3>1. Via(saved \cap freed, "vpn") \subseteq Rows
        BY DEF TypeOK, Via, Rows
    <3> QED
        BY <2>3, <3>1 DEF TypeOK, UnshadowEnds
  <2> QED
      BY <2>1, <2>2, <2>3 DEF Installer
<1>4. geo' \subseteq Country \X Gateways
    BY <1>2 DEF TypeOK, Installer, GeoSweeps, GeoRegisters, GeoInstalls, GeoWithdraws,
                UnshadowBegins, UnshadowEnds, helper
<1>5. over' \subseteq Injected /\ saved' \subseteq Injected
    BY DEF TypeOK, Installer, GeoSweeps, GeoRegisters, GeoInstalls, GeoWithdraws,
           UnshadowBegins, UnshadowEnds, helper
<1>6. freed' \subseteq Country \cap Injected
  <2>1. Dests(geo) \subseteq Country
      BY DestsTyped DEF TypeOK
  <2> QED
      BY <2>1 DEF TypeOK, Installer, GeoSweeps, GeoRegisters, GeoInstalls, GeoWithdraws,
                  UnshadowBegins, UnshadowEnds
<1>7. /\ inst' \in {"parse", "register", "install", "unshadow", "give back", "done"}
      /\ batches' \subseteq Country /\ refused' \subseteq Country
    BY DEF TypeOK, Installer, GeoSweeps, GeoRegisters, GeoInstalls, GeoWithdraws,
           UnshadowBegins, UnshadowEnds
<1> QED
    BY <1>1, <1>3, <1>4, <1>5, <1>6, <1>7 DEF TypeOK, MoveTyped

\* And so are a changed gateway and the workers it starts.
LEMMA MovesTyped ==
    ASSUME TypeOK, own \subseteq {Server} \X Gateways, MoveTyped,
           GatewayChanged \/ \E k \in DOMAIN move : Mover(k)
    PROVE  TypeOK' /\ (own \subseteq {Server} \X Gateways)' /\ MoveTyped'
<1>1. CASE GatewayChanged
  <2> DEFINE old == {r \in own : r[2] = phys}
             new == Via(Dests(old), gateway)
  <2>1. new \subseteq {Server} \X Gateways
    <3>1. old \subseteq {Server} \X Gateways /\ gateway \in Gateways
        BY DEF TypeOK
    <3> QED
        BY <3>1, DestsTyped
  <2>2. /\ own' \in {own, (own \ old) \cup new}
        /\ table' \in {table, table \ old, (table \ old) \cup new}
      BY <1>1 DEF GatewayChanged, RepointPinned
  <2> HIDE DEF old, new
  <2>3. (own \subseteq {Server} \X Gateways)' /\ table' \subseteq Rows
      BY <2>1, <2>2 DEF TypeOK, Rows
  <2>4. MoveTyped'
    <3>1. phys \in Gateways /\ gateway \in Gateways
        BY DEF TypeOK
    <3>2. move' \in {move, [move EXCEPT ![Moves + 1] = [at |-> "queued", from |-> phys,
                                                      to |-> gateway, rows |-> {}]]}
        BY <1>1 DEF GatewayChanged
    <3>3. [at |-> "queued", from |-> phys, to |-> gateway, rows |-> {}] \in Workers
        BY <3>1 DEF Workers, Stages, RowSets
    <3> QED
        BY <3>2, <3>3 DEF MoveTyped
  <2>5. phys' = gateway /\ UNCHANGED <<geo, over, saved, gateway, pending, main, todo,
                                      inst, base, batches, refused, freed>>
      BY <1>1 DEF GatewayChanged, install
  <2> QED
      BY <2>3, <2>4, <2>5 DEF TypeOK, MoveTyped, Workers, Stages, Rows
<1>2. CASE \E k \in DOMAIN move : Mover(k)
  <2>1. PICK k \in 1..MaxRoams : Mover(k)
      BY <1>2 DEF MoveTyped
  <2>2. UNCHANGED <<own, over, saved, gateway, phys, pending, main, todo, inst, base,
                    batches, refused, freed>>
      BY <2>1 DEF Mover, MoveStarts, MoveRegisters, MoveAdds, MoveRollsBack, MoveDrops,
                  helper, mains, install
  <2>3. MoveTyped'
    <3>1. CASE MoveRegisters(k) /\ ~\E at \in Stages : Goes(k, at)
      <4>1. {r \in geo : r[2] = move[k].from} \in RowSets
          BY DEF TypeOK, RowSets
      <4>2. move' = [move EXCEPT ![k].at = "add",
                                 ![k].rows = {r \in geo : r[2] = move[k].from}]
          BY <3>1 DEF MoveRegisters, Stages
      <4> QED
          BY <4>1, <4>2, WorkerTakes
    <3>2. CASE \E at \in Stages : Goes(k, at)
        BY <3>2, WorkerGoes
    <3>3. MoveRegisters(k) \/ \E at \in Stages : Goes(k, at)
        BY <2>1 DEF Mover, MoveStarts, MoveAdds, MoveRollsBack, MoveDrops, Stages
    <3> QED
        BY <3>1, <3>2, <3>3
  <2>4. New(k) \subseteq Country \X Gateways /\ move[k].rows \subseteq Country \X Gateways
    <3>1. move[k].rows \subseteq Country \X Gateways /\ move[k].to \in Gateways
        BY DEF MoveTyped, Workers, RowSets
    <3> QED
        BY <3>1, DestsTyped DEF New
  <2>5. table' \subseteq Rows
    <3>1. table' \subseteq table \cup New(k)
        BY <2>1 DEF Mover, MoveStarts, MoveRegisters, MoveAdds, MoveRollsBack, MoveDrops
    <3> QED
        BY <2>4, <3>1 DEF TypeOK, Rows
  <2>6. geo' \subseteq Country \X Gateways
    <3>1. CASE MoveRegisters(k)
      <4>1. PICK rows : /\ rows = {r \in geo : r[2] = move[k].from}
                        /\ geo' \in {geo, (geo \ rows) \cup Via(Dests(rows), move[k].to)}
          BY <3>1 DEF MoveRegisters
      <4>2. rows \subseteq Country \X Gateways /\ move[k].to \in Gateways
          BY <4>1 DEF TypeOK, MoveTyped, Workers
      <4>3. Via(Dests(rows), move[k].to) \subseteq Country \X Gateways
          BY <4>2, DestsTyped
      <4> QED
          BY <4>1, <4>3 DEF TypeOK
    <3>2. CASE ~MoveRegisters(k)
        BY <2>1, <2>4, <3>2 DEF TypeOK, Mover, MoveStarts, MoveAdds, MoveRollsBack,
                                MoveDrops, helper
    <3> QED
        BY <3>1, <3>2
  <2> QED
      BY <2>2, <2>3, <2>5, <2>6 DEF TypeOK, MoveTyped, Workers, Stages, Rows
<1> QED
    BY <1>1, <1>2
-----------------------------------------------------------------------------
(* The shadow. *)

\* No worker and no gateway moves, and the clean-up gets no further than it is.
LEMMA ControlKept ==
    ASSUME Control, UNCHANGED <<move, base, ending, gateway, phys>>,
           Serving' <=> Serving, main' = "done" <=> main = "done",
           inst = "done" => inst' = "done"
    PROVE  Control'
BY DEF Control, MoveTyped, InOrder, MovesAway, Joins, Early, Idle, Sane

\* The shadow is made of the tunnel's rows and the VPN's.
LEMMA ShadowMovesNoGateway ==
    ASSUME \/ ShadowBegins \/ ShadowAdds \/ UndoShadow
           \/ UnshadowBegins \/ UnshadowEnds \/ CleanVpn
    PROVE  \A r : r[2] \in Gateways => (r \in table' <=> r \in table)
<1>1. \A ps, r : (r \in Via(ps, "tun") => r[2] = "tun") /\ (r \in Via(ps, "vpn") => r[2] = "vpn")
    BY ViaRows
<1>2. "tun" \notin Gateways /\ "vpn" \notin Gateways
    BY RoutesAssumption
<1>3. CASE ShadowBegins \/ ShadowAdds
    BY <1>1, <1>2, <1>3 DEF ShadowBegins, ShadowAdds
<1>4. CASE UndoShadow \/ CleanVpn
    BY <1>1, <1>2, <1>4 DEF UndoShadow, ShadowUndone, CleanVpn
<1>5. CASE UnshadowBegins \/ UnshadowEnds
    BY <1>1, <1>2, <1>5 DEF UnshadowBegins, UnshadowEnds
<1> QED
    BY <1>3, <1>4, <1>5

\* Putting the shadow up or down, by whichever thread.
LEMMA ShadowStepsPreserve ==
    ASSUME RouteInv,
           \/ ShadowBegins \/ ShadowAdds \/ UndoShadow
           \/ UnshadowBegins \/ UnshadowEnds \/ CleanVpn
    PROVE  Control' /\ CountryInv' /\ ShadowInv'
<1>1. TypeOK /\ Control /\ CountryInv /\ ShadowInv /\ MoveTyped /\ base \in Gateways
    BY DEF RouteInv, Control, TypeOK
<1>2. /\ UNCHANGED <<geo, own, move, batches, refused, base, ending, gateway, phys>>
      /\ (Serving' <=> Serving) /\ (main' = "done" <=> main = "done")
      /\ inst' \in {inst, "give back", "done"} /\ (inst = "done" => inst' = "done")
    BY DEF ShadowBegins, ShadowAdds, UndoShadow, ShadowUndone, UnshadowBegins,
           UnshadowEnds, CleanVpn, Installing, Serving, helper, mains, install, counts
<1>3. Control'
    BY <1>1, <1>2, ControlKept
<1>4. \A r : r[2] \in Gateways => (r \in table' <=> r \in table)
    BY ShadowMovesNoGateway
<1>5. CountryInv'
  <2>1. (Sane' => Sane) /\ (Alive' => Alive)
      BY <1>2 DEF Sane, Alive
  <2> QED
      BY <1>1, <1>2, <1>4, <2>1, CountryKept
<1>6. table \subseteq Rows
    BY <1>1 DEF TypeOK
<1>7. ShadowInv'
  <2>1. CASE ShadowBegins
    <3>1. \A p \in todo' : p \notin Dests(geo)
        BY <2>1 DEF ShadowBegins
    <3>2. main \in {"run", "shadow", "undo"} /\ saved' = {}
          /\ UNCHANGED <<table, geo, over, inst, freed>>
        BY <2>1 DEF ShadowBegins, helper, install
    <3> QED
        BY <1>1, <3>1, <3>2 DEF ShadowInv
  <2>2. CASE ShadowAdds
    <3>1. PICK p \in todo :
              /\ todo' = todo \ {p}
              /\ \/ /\ table' = table \cup Via({p}, "tun")
                    /\ over' = over \cup {p} /\ saved' = saved \cup {p}
                 \/ UNCHANGED <<table, over, saved>>
        BY <2>2 DEF ShadowAdds
    <3>2. /\ main = "shadow" /\ main' \in {"run", "shadow"}
          /\ UNCHANGED <<geo, inst, freed>>
        BY <2>2 DEF ShadowAdds, install
    <3>3. \A r \in Via({p}, "tun") : r[1] = p
        BY ViaRows
    <3> QED
        BY <1>1, <3>1, <3>2, <3>3 DEF ShadowInv
  <2>3. CASE UndoShadow \/ CleanVpn
    <3>1. /\ UNCHANGED <<geo, inst, freed, todo>> /\ saved' \in {saved, {}}
          /\ main' \in {"run", "shadow", "undo"} => main \in {"run", "shadow", "undo"}
        BY <2>3 DEF UndoShadow, ShadowUndone, CleanVpn, install
    <3>2. /\ over' \in {over, {}}
          /\ \A r \in table' : r[2] = "tun" => r \in table /\ r[1] \in over'
      <4>1. \A r \in Via(saved, "vpn") : r[2] # "tun"
          BY ViaRows
      <4>2. \A r \in table : r[2] = "tun" => r \in Via(over, "tun")
          BY <1>1, <1>6, RowVia DEF ShadowInv
      <4> QED
          BY <1>1, <2>3, <4>1, <4>2 DEF UndoShadow, ShadowUndone, CleanVpn, ShadowInv
    <3> QED
        BY <1>1, <3>1, <3>2 DEF ShadowInv
  <2>4. CASE UnshadowBegins
    <3>1. /\ freed' = saved \cap Dests(geo)
          /\ table' = table \ Via(freed', "tun")
          /\ UNCHANGED <<geo, over, saved, main, todo>>
        BY <2>4 DEF UnshadowBegins, helper, mains
    <3>2. \A r \in table' : r[2] = "tun" => r[1] \notin freed'
        BY <1>6, <3>1, RowVia
    <3> QED
        BY <1>1, <3>1, <3>2 DEF ShadowInv
  <2>5. CASE UnshadowEnds
    <3>1. /\ inst = "give back" /\ inst' = "done"
          /\ table' = table \cup Via(saved \cap freed, "vpn")
          /\ over' = over \ freed /\ saved' = saved \ freed
          /\ UNCHANGED todo
        BY <2>5 DEF UnshadowEnds, Installing, mains
    <3>2. \A r \in Via(saved \cap freed, "vpn") : r[2] # "tun"
        BY ViaRows
    <3> QED
        BY <1>1, <3>1, <3>2 DEF ShadowInv
  <2> QED
      BY <2>1, <2>2, <2>3, <2>4, <2>5
<1> QED
    BY <1>3, <1>5, <1>7

-----------------------------------------------------------------------------
(* The main thread, where it changes no route. *)

\* The gateway is seen, the clean-up begins, and joins: when it had to give up
\* on a thread it says so.
LEMMA JoinPreserves ==
    ASSUME RouteInv, GatewaySeen \/ Exit \/ Join
    PROVE  Control' /\ CountryInv' /\ ShadowInv'
<1>1. TypeOK /\ Control /\ CountryInv /\ ShadowInv /\ MoveTyped /\ InOrder
      /\ base \in Gateways
    BY DEF RouteInv, Control, TypeOK
<1>2. UNCHANGED <<table, own, geo, over, saved, gateway, phys, todo, inst, base, batches,
                  refused, freed, move>>
    BY DEF GatewaySeen, Exit, Join, Joined, helper, install
<1>3. CountryInv' /\ ShadowInv'
  <2>1. /\ (Sane' => Sane) /\ (Alive' => Alive)
        /\ main' \in {"run", "shadow", "undo"} => main \in {"run", "shadow", "undo"}
      BY <1>1 DEF GatewaySeen, Exit, Join, Joined, counts, Sane, Alive, Control, Joins,
                  Serving
  <2> QED
      BY <1>1, <1>2, <2>1, CountryKept, ShadowKept
<1>4. Control'
  <2>1. CASE GatewaySeen \/ Exit
    <3>1. /\ Serving' /\ Serving /\ main' # "done" /\ main # "done"
          /\ UNCHANGED ending
        BY <2>1 DEF GatewaySeen, Exit, Serving, counts
    <3> QED
        BY <1>1, <1>2, <3>1, ControlKept
  <2>2. CASE Join
    <3>1. /\ main = "join" /\ main' = "vpn" /\ ending = "running"
          /\ \/ /\ UNCHANGED ending /\ inst = "done"
                /\ Moves > 0 => move[Moves].at = "over"
             \/ ending' = "unjoined"
        BY <1>1, <2>2 DEF Join, Joined, Control, Joins, Serving
    <3>2. ending' = "running" => \A k \in 1..MaxRoams : Idle(k)
      <4> SUFFICES ASSUME ending' = "running", NEW k \in 1..MaxRoams PROVE Idle(k)
          OBVIOUS
      <4>1. Moves \in Nat /\ (Moves > 0 => move[Moves].at = "over")
          BY <1>1, <3>1, NewestMove
      <4>2. k > Moves \/ k < Moves \/ k = Moves
          BY <4>1
      <4> QED
          BY <1>1, <4>1, <4>2, NewestMove DEF Idle
    <3>3. Joins'
        BY <1>1, <1>2, <3>1, <3>2 DEF Control, Joins, Serving, Sane, Idle
    <3> QED
        BY <1>1, <1>2, <3>3 DEF Control, MoveTyped, InOrder, MovesAway, Early, Idle
  <2> QED
      BY <2>1, <2>2
<1> QED
    BY <1>3, <1>4

\* After a signal nothing runs, and the machine roams only between installs.
LEMMA SignalAndRoamPreserve ==
    ASSUME Settled, RouteInv, Signal \/ Roam
    PROVE  Control' /\ CountryInv' /\ ShadowInv'
<1>1. TypeOK /\ Control /\ CountryInv /\ ShadowInv /\ MoveTyped /\ base \in Gateways
    BY DEF RouteInv, Control, TypeOK
<1>2. UNCHANGED <<table, own, geo, over, saved, phys, todo, inst, base, batches, refused,
                  freed, move>>
    BY DEF Signal, Roam, helper, mains, install
<1>3. CountryInv' /\ ShadowInv'
  <2>1. /\ (Sane' => Sane) /\ (Alive' => Alive)
        /\ main' \in {"run", "shadow", "undo"} => main \in {"run", "shadow", "undo"}
      BY <1>1 DEF Signal, Roam, mains, Sane, Alive, Control, Joins, Serving
  <2> QED
      BY <1>1, <1>2, <2>1, CountryKept, ShadowKept
<1>4. Early'
    BY <1>1, <1>2 DEF Signal, Roam, Settled, Control, Early
<1>5. Joins'
    BY <1>1, <1>2 DEF Signal, Roam, mains, Control, Joins, Serving, Sane, Idle
<1> QED
    BY <1>1, <1>2, <1>3, <1>4, <1>5 DEF Control, MoveTyped, InOrder, MovesAway, Idle
-----------------------------------------------------------------------------
(* The install thread. *)

\* While it installs there is no move, and the ledger is the country's.
LEMMA InstallPreserves ==
    ASSUME RouteInv, GeoSweeps \/ GeoRegisters \/ GeoInstalls \/ GeoWithdraws
    PROVE  Control' /\ CountryInv' /\ ShadowInv'
<1>1. TypeOK /\ Control /\ CountryInv /\ ShadowInv /\ MoveTyped /\ base \in Gateways
    BY DEF RouteInv, Control, TypeOK
<1>2. /\ UNCHANGED <<own, over, saved, gateway, phys, main, todo, base, freed, move, ending>>
      /\ inst \in {"parse", "register", "install"} /\ Alive
      /\ inst' \in {"register", "install", "unshadow"}
    BY DEF GeoSweeps, GeoRegisters, GeoInstalls, GeoWithdraws, Installing, helper, mains,
           counts
<1>3. Control'
    BY <1>1, <1>2, ControlKept DEF Serving
<1>5. ShadowInv'
  <2>1. \A r : r[2] = "tun" /\ r \in table' => r \in table
    <3>1. CASE GeoInstalls
      <4>1. PICK c \in batches : table' \in {table, table \cup Via({c}, base)}
          BY <3>1 DEF GeoInstalls
      <4>2. base # "tun"
          BY <1>1, RoutesAssumption
      <4>3. \A r \in Via({c}, base) : r[2] # "tun"
          BY <4>2 DEF Via
      <4> QED
          BY <4>1, <4>3
    <3>2. CASE GeoSweeps \/ GeoRegisters \/ GeoWithdraws
        BY <3>2 DEF GeoSweeps, GeoRegisters, GeoWithdraws
    <3> QED
        BY <3>1, <3>2
  <2> QED
      BY <1>1, <1>2, <2>1, ShadowKept
<1>6. \A k \in 1..MaxRoams : move[k].at = "unused" /\ move'[k].at = "unused"
    BY <1>1, <1>2 DEF Control, Early
<1>7. MoveKnows'
    BY <1>6 DEF MoveKnows, Holding
<1>8. Sane => \A r \in table : r[2] \in Gateways => r \in own \cup geo
    BY <1>1, <1>6 DEF CountryInv, Pinned, Holding
<1>9. \A r \in own : r[1] = Server /\ r[1] \notin Country
    BY RoutesAssumption DEF RouteInv
<1>10. Registered' /\ GeoUniform' /\ (Sane => \A r \in table' : r[2] \in Gateways => r \in own \cup geo')
  <2>1. CASE GeoSweeps
    <3>1. inst = "parse" /\ inst' = "register" /\ UNCHANGED <<geo, refused>>
          /\ table' \subseteq table
        BY <2>1 DEF GeoSweeps, Installing, helper
    <3> QED
        BY <1>1, <1>8, <3>1 DEF CountryInv, Registered, GeoUniform
  <2>2. CASE GeoRegisters
    <3>1. /\ inst = "register" /\ inst' = "install" /\ batches' = Country
          /\ geo' = geo \cup Via(Country, base) /\ UNCHANGED <<table, refused>>
        BY <2>2 DEF GeoRegisters, Installing
    <3>2. geo = {} /\ refused = {}
        BY <1>1, <3>1 DEF CountryInv, Registered
    <3>3. Sane => \A r \in table : r[2] = base => r[1] \notin Country
        BY <1>1, <1>8, <1>9, <3>2
    <3>4. GeoUniform'
        BY <3>1, <3>2, ViaRows DEF GeoUniform
    <3> QED
        BY <1>2, <1>8, <3>1, <3>2, <3>3, <3>4 DEF Registered, Sane
  <2>3. CASE GeoInstalls
    <3>1. PICK c \in batches :
              /\ batches' = batches \ {c}
              /\ \/ UNCHANGED <<table, refused>>
                 \/ table' = table \cup Via({c}, base) /\ UNCHANGED refused
                 \/ refused' = refused \cup {c} /\ UNCHANGED table
        BY <2>3 DEF GeoInstalls
    <3>2. inst = "install" /\ inst' = inst /\ geo' = geo
        BY <2>3 DEF GeoInstalls, Installing, helper
    <3>3. Via(batches, base) \subseteq geo /\ batches \cap refused = {}
        BY <1>1, <1>2, <3>2 DEF CountryInv, Registered
    <3>4. Via({c}, base) \subseteq Via(batches, base)
          /\ Via(batches \ {c}, base) \subseteq Via(batches, base)
        BY DEF Via
    <3>5. Sane => \A r \in table : r[2] = base => r[1] \notin batches \cup refused
        BY <1>1, <3>2 DEF CountryInv, Registered
    <3>6. \A r \in Via({c}, base) : r[1] = c
        BY ViaRows
    <3>7. Registered'
        BY <1>2, <3>1, <3>2, <3>3, <3>4, <3>5, <3>6 DEF Registered, Sane
    <3>8. GeoUniform'
        BY <1>1, <3>2 DEF CountryInv, GeoUniform
    <3> QED
        BY <1>8, <3>1, <3>2, <3>3, <3>4, <3>7, <3>8
  <2>4. CASE GeoWithdraws
    <3>1. /\ inst = "install" /\ inst' = "unshadow"
          /\ geo' = geo \ Via(refused, base) /\ UNCHANGED table
        BY <2>4 DEF GeoWithdraws, Installing
    <3>2. \A r \in Via(refused, base) : r[1] \in refused /\ r[2] = base
        BY ViaRows
    <3>3. Sane => \A r \in table : r[2] = base => r[1] \notin refused
        BY <1>1, <3>1 DEF CountryInv, Registered
    <3> QED
        BY <1>1, <1>8, <3>1, <3>2, <3>3 DEF CountryInv, Registered, GeoUniform
  <2> QED
      BY <2>1, <2>2, <2>3, <2>4
<1>11. Pinned'
    BY <1>2, <1>10 DEF Pinned, Sane
<1> QED
    BY <1>3, <1>5, <1>7, <1>10, <1>11 DEF CountryInv

-----------------------------------------------------------------------------
(* A changed gateway. *)

\* The new worker has somewhere to go and holds nothing yet; the server's route
\* is in its ledger, or in neither.
LEMMA GatewayChangedPreserves ==
    ASSUME Settled, RouteInv, GatewayChanged
    PROVE  Control' /\ CountryInv' /\ ShadowInv'
<1>1. /\ TypeOK /\ Control /\ CountryInv /\ ShadowInv /\ MoveTyped /\ InOrder
      /\ own \subseteq {Server} \X Gateways /\ phys \in Gateways /\ gateway \in Gateways
    BY DEF RouteInv, Control, TypeOK
<1>2. /\ main = "run" /\ gateway # phys /\ phys' = gateway
      /\ UNCHANGED <<geo, over, saved, gateway, main, todo, inst, base, batches, refused,
                     freed, ending>>
    BY DEF GatewayChanged, install, counts
<1>3. inst = "done" /\ inst' = "done"
    BY <1>1, <1>2 DEF Control, Early
<1>4. \A k \in 1..MaxRoams : Idle(k)
    BY <1>1 DEF GatewayChanged, Settled, MoveTyped, Idle
<1>5. /\ MoveTyped'
      /\ \A k \in 1..MaxRoams :
            \/ move'[k] = move[k]
            \/ /\ k = Moves + 1 /\ move'[k].at = "queued" /\ move'[k].rows = {}
               /\ move'[k].from = phys /\ move'[k].to = gateway
  <2>1. MoveTyped'
      BY <1>1, MovesTyped DEF RouteInv
  <2> DEFINE w == [at |-> "queued", from |-> phys, to |-> gateway, rows |-> {}]
  <2>2. move' \in {move, [move EXCEPT ![Moves + 1] = w]}
      BY DEF GatewayChanged
  <2>3. w.at = "queued" /\ w.rows = {} /\ w.from = phys /\ w.to = gateway
      OBVIOUS
  <2> HIDE DEF w
  <2>5. CASE move' = move
      BY <2>1, <2>5
  <2>6. CASE move' = [move EXCEPT ![Moves + 1] = w]
    <3>1. \A k \in 1..MaxRoams : move'[k] = IF k = Moves + 1 THEN w ELSE move[k]
        BY <1>1, <2>6 DEF MoveTyped
    <3> QED
        BY <2>1, <2>3, <3>1
  <2> QED
      BY <2>2, <2>5, <2>6
<1>6. InOrder'
  <2>1. /\ Moves \in 0..MaxRoams /\ MaxRoams \in Nat
        /\ \A k \in 1..MaxRoams :
              (move[k].at = "unused" <=> k > Moves) /\ (k < Moves => move[k].at = "over")
      BY <1>1, NewestMove, RoutesAssumption
  <2>2. CASE \A k \in 1..MaxRoams : move'[k] = move[k]
      BY <2>1, <2>2 DEF InOrder
  <2>3. CASE \E k \in 1..MaxRoams : move'[k] # move[k]
    <3>1. PICK k \in 1..MaxRoams : k = Moves + 1 /\ move'[k].at = "queued"
        BY <1>5, <2>3
    <3>2. \A j \in 1..MaxRoams : j # k => move'[j] = move[j]
        BY <1>5, <3>1
    <3>3. \A j \in 1..MaxRoams : j < k => move[j].at = "over"
        BY <1>4, <2>1, <3>1 DEF Idle
    <3>4. \A j \in 1..MaxRoams :
              (move'[j].at = "unused" <=> j > k) /\ (j < k => move'[j].at = "over")
        BY <2>1, <3>1, <3>2, <3>3
    <3>5. k \in 0..MaxRoams
        BY <2>1
    <3> QED
        BY <3>4, <3>5 DEF InOrder
  <2> QED
      BY <2>2, <2>3
<1>7. Control'
  <2>1. MovesAway'
      BY <1>1, <1>2, <1>4, <1>5 DEF Control, MovesAway, Idle
  <2>2. Joins' /\ Early'
      BY <1>1, <1>2, <1>3 DEF Control, Joins, Serving, Early
  <2> QED
      BY <1>5, <1>6, <2>1, <2>2 DEF Control
<1>8. \A k \in 1..MaxRoams : ~Holding(k) /\ ~Holding(k)'
    BY <1>4, <1>5 DEF Idle, Holding
<1> DEFINE old == {r \in own : r[2] = phys}
           new == Via(Dests(old), gateway)
<1>9. \/ own' = (own \ old) \cup new /\ table' = (table \ old) \cup new
      \/ own' = own /\ table' \in {table, table \ old}
    BY DEF GatewayChanged, RepointPinned
<1>10. \A r \in new : r[2] = gateway
    BY ViaRows
<1> HIDE DEF old, new
<1>11. CountryInv'
  <2>1. Registered'
      BY <1>3 DEF Registered
  <2>2. GeoUniform'
      BY <1>1, <1>2 DEF CountryInv, GeoUniform
  <2>3. MoveKnows'
      BY <1>8 DEF MoveKnows, Holding
  <2>4. Pinned'
      BY <1>1, <1>2, <1>8, <1>9 DEF CountryInv, Pinned, Sane
  <2> QED
      BY <2>1, <2>2, <2>3, <2>4 DEF CountryInv
<1>12. ShadowInv'
  <2>1. \A r : r[2] = "tun" /\ r \in table' => r \in table
      BY <1>1, <1>9, <1>10, RoutesAssumption
  <2> QED
      BY <1>1, <1>2, <1>3, <2>1, ShadowKept
<1> QED
    BY <1>7, <1>11, <1>12
-----------------------------------------------------------------------------
(* A move of the country. *)

\* Only the worker itself goes on; the others, and all that the control looks
\* at, stay.
LEMMA MoverControl ==
    ASSUME RouteInv, NEW k \in 1..MaxRoams, Alive, ~Idle(k),
           UNCHANGED <<inst, main, ending, gateway, phys, base>>,
           MoveTyped', move'[k].at # "unused",
           \A j \in 1..MaxRoams :
              /\ move'[j].from = move[j].from /\ move'[j].to = move[j].to
              /\ j # k => move'[j] = move[j],
           move'[k].rows \subseteq Via(Country, move[k].from)
    PROVE  Control' /\ inst = "done" /\ \A j \in 1..MaxRoams : j # k => Idle(j) /\ Idle(j)'
<1>1. Control /\ MoveTyped /\ InOrder
    BY DEF RouteInv, Control
<1>2. \A j \in 1..MaxRoams : j # k => Idle(j) /\ Idle(j)'
    BY <1>1, OneMover DEF Idle
<1>3. InOrder'
  <2>1. PICK n \in 0..MaxRoams : \A j \in 1..MaxRoams :
            (move[j].at = "unused" <=> j > n) /\ (j < n => move[j].at = "over")
      BY <1>1 DEF InOrder
  <2>2. ~(k > n) /\ ~(k < n)
      BY <2>1 DEF Idle
  <2>3. \A j \in 1..MaxRoams :
            (move'[j].at = "unused" <=> j > n) /\ (j < n => move'[j].at = "over")
      BY <2>1, <2>2
  <2> QED
      BY <2>3 DEF InOrder
<1>4. MovesAway'
  <2>1. move[k].from # move[k].to
      BY <1>1 DEF Control, MovesAway
  <2> QED
      BY <1>1, <2>1 DEF Control, MovesAway, Idle
<1>5. inst = "done"
    BY <1>1 DEF Control, Early, Idle
<1>6. Joins' /\ Early'
    BY <1>1, <1>5 DEF Control, Joins, Early, Serving, Sane, Idle
<1> QED
    BY <1>2, <1>3, <1>4, <1>5, <1>6 DEF Control

\* A move that starts, gives up, or has dropped the old rows or rolled back.
LEMMA MoverGoes ==
    ASSUME RouteInv, NEW k \in 1..MaxRoams, Alive, ~Idle(k),
           UNCHANGED <<inst, main, ending, gateway, phys, base>>,
           NEW at \in Stages, at # "unused", Goes(k, at)
    PROVE  /\ Control' /\ inst = "done"
           /\ \A j \in 1..MaxRoams : j # k => Idle(j) /\ Idle(j)'
           /\ move'[k].at = at /\ move'[k].rows = move[k].rows /\ New(k)' = New(k)
<1>1. MoveTyped
    BY DEF RouteInv, Control
<1>2. /\ MoveTyped'
      /\ \A j \in 1..MaxRoams :
            /\ move'[j].at = IF j = k THEN at ELSE move[j].at
            /\ move'[j].from = move[j].from /\ move'[j].to = move[j].to
            /\ move'[j].rows = move[j].rows /\ New(j)' = New(j)
    BY <1>1, WorkerGoes
<1>3. \A j \in 1..MaxRoams : j # k => move'[j] = move[j]
    BY <1>1 DEF Goes, MoveTyped
<1>4. move'[k].rows \subseteq Via(Country, move[k].from)
    BY <1>2 DEF RouteInv, Control, MovesAway
<1>5. move'[k].at = at
    BY <1>2
<1> QED
    BY <1>2, <1>3, <1>4, <1>5, MoverControl

\* The ledger has the new rows, all of them, before the first is in the table.
LEMMA MoveRegistersPreserves ==
    ASSUME RouteInv, NEW k \in 1..MaxRoams, MoveStarts(k) \/ MoveRegisters(k)
    PROVE  Control' /\ CountryInv' /\ ShadowInv'
<1> DEFINE rows == {r \in geo : r[2] = move[k].from}
<1>1. /\ TypeOK /\ Control /\ CountryInv /\ ShadowInv /\ MoveTyped /\ base \in Gateways
      /\ own \subseteq {Server} \X Gateways
    BY DEF RouteInv, Control, TypeOK
<1>2. /\ Alive /\ ~Idle(k) /\ move[k].at \in {"queued", "lock"}
      /\ UNCHANGED <<table, own, over, saved, freed, todo, inst, main, ending, gateway, phys,
                     base, batches, refused>>
    BY DEF MoveStarts, MoveRegisters, Moving, Idle, helper, mains, install, counts
<1>3. CASE \E at \in {"lock", "over"} : Goes(k, at) /\ UNCHANGED geo
  <2>1. PICK at \in {"lock", "over"} : Goes(k, at) /\ UNCHANGED geo
      BY <1>3
  <2>2. at \in Stages /\ at # "unused"
      BY DEF Stages
  <2>3. /\ Control' /\ inst = "done" /\ move'[k].at = at
        /\ \A j \in 1..MaxRoams : j # k => Idle(j) /\ Idle(j)'
      BY <1>2, <2>1, <2>2, MoverGoes
  <2>4. \A j \in 1..MaxRoams : ~Holding(j) /\ ~Holding(j)'
      BY <1>2, <2>3 DEF Holding, Idle
  <2>5. CountryInv'
      BY <1>1, <1>2, <2>1, <2>3, <2>4
         DEF CountryInv, Registered, GeoUniform, MoveKnows, Pinned, Holding, Sane
  <2>6. ShadowInv'
      BY <1>1, <1>2, <2>1, ShadowKept
  <2> QED
      BY <2>3, <2>5, <2>6
<1>4. CASE /\ MoveRegisters(k) /\ rows # {}
           /\ move' = [move EXCEPT ![k].at = "add", ![k].rows = rows]
           /\ geo' = (geo \ rows) \cup Via(Dests(rows), move[k].to)
  <2>1. rows = geo
      BY <1>1, <1>4 DEF CountryInv, GeoUniform
  <2>2. rows \in RowSets /\ rows \subseteq Via(Country, move[k].from)
      BY <1>1 DEF TypeOK, RowSets, Via
  <2> HIDE DEF rows
  <2>3. /\ MoveTyped'
        /\ \A j \in 1..MaxRoams :
              /\ move'[j].from = move[j].from /\ move'[j].to = move[j].to
              /\ j # k => move'[j] = move[j] /\ New(j)' = New(j)
        /\ move'[k].at = "add" /\ move'[k].rows = rows
      BY <1>1, <1>4, <2>2, WorkerTakes
  <2>4. /\ Control' /\ inst = "done"
        /\ \A j \in 1..MaxRoams : j # k => Idle(j) /\ Idle(j)'
      BY <1>2, <2>2, <2>3, MoverControl
  <2>5. \A j \in 1..MaxRoams : ~Holding(j) /\ (j # k => ~Holding(j)')
      BY <1>2, <2>4 DEF Holding, Idle
  <2>6. geo' = New(k)'
      BY <1>4, <2>1, <2>3 DEF New
  <2>7. \A r \in New(k)' : r[1] \in Country /\ r[2] = move[k].to /\ r[2] \in Gateways
    <3>1. Dests(rows) \subseteq Country /\ move[k].to \in Gateways
        BY <1>1, <2>2, DestsTyped DEF RowSets, MoveTyped, Workers
    <3>2. New(k)' = Via(Dests(rows), move[k].to)
        BY <2>3 DEF New
    <3> QED
        BY <3>1, <3>2, ViaRows
  <2>8. Sane => table \cap New(k)' = {}
    <3> SUFFICES ASSUME Sane, NEW r \in table, r \in New(k)' PROVE FALSE
        OBVIOUS
    <3>1. r \in own \cup geo
        BY <1>1, <2>5, <2>7 DEF CountryInv, Pinned
    <3>2. r \notin own
        BY <1>1, <2>7, RoutesAssumption
    <3>3. r[2] = move[k].from
        BY <2>1, <2>2, <3>1, <3>2, ViaRows
    <3>4. move[k].from # move[k].to
        BY <1>1, <1>2 DEF Control, MovesAway
    <3> QED
        BY <2>7, <3>3, <3>4
  <2>9. MoveKnows'
      BY <1>2, <2>3, <2>5, <2>6, <2>8 DEF MoveKnows, Holding, Sane, Alive
  <2>10. GeoUniform'
      BY <2>6, <2>7 DEF GeoUniform
  <2>11. Pinned'
    <3> SUFFICES ASSUME Sane, NEW r \in table, r[2] \in Gateways
                 PROVE  r \in own \/ (Holding(k)' /\ r \in move'[k].rows)
        BY <1>2 DEF Pinned, Sane
    <3> QED
        BY <1>1, <2>1, <2>3, <2>5 DEF CountryInv, Pinned, Holding
  <2>12. Registered'
      BY <1>2, <2>4 DEF Registered
  <2>13. ShadowInv'
    <3>1. Dests(geo)' = Dests(geo)
        BY <1>4, <2>1, DestsVia
    <3> QED
        BY <1>1, <1>2, <3>1, ShadowKept
  <2> QED
      BY <2>4, <2>9, <2>10, <2>11, <2>12, <2>13 DEF CountryInv
<1> QED
    BY <1>3, <1>4 DEF MoveStarts, MoveRegisters, helper

\* The new rows come before the old ones go, or none of them is there.
LEMMA MoveStepsPreserve ==
    ASSUME Settled, RouteInv, NEW k \in 1..MaxRoams,
           MoveAdds(k) \/ MoveRollsBack(k) \/ MoveDrops(k)
    PROVE  Control' /\ CountryInv' /\ ShadowInv'
<1>1. /\ TypeOK /\ Control /\ CountryInv /\ ShadowInv /\ MoveTyped /\ base \in Gateways
      /\ own \subseteq {Server} \X Gateways
    BY DEF RouteInv, Control, TypeOK
<1>2. /\ Alive /\ ~Idle(k) /\ Holding(k)
      /\ UNCHANGED <<own, over, saved, freed, todo, inst, main, ending, gateway, phys,
                     base, batches, refused>>
    BY DEF MoveAdds, MoveRollsBack, MoveDrops, Moving, Idle, Holding, helper, mains,
           install, counts
<1>3. PICK at \in {"drop", "roll back", "over"} : Goes(k, at)
    BY DEF MoveAdds, MoveRollsBack, MoveDrops
<1>4. /\ Control' /\ inst = "done" /\ move'[k].at = at
      /\ \A j \in 1..MaxRoams : j # k => Idle(j) /\ Idle(j)'
      /\ move'[k].rows = move[k].rows /\ New(k)' = New(k)
    BY <1>2, <1>3, MoverGoes DEF Stages
<1>5. \A j \in 1..MaxRoams : j # k => ~Holding(j) /\ ~Holding(j)'
    BY <1>4 DEF Holding, Idle
<1>6. geo = New(k)
    BY <1>1, <1>2 DEF CountryInv, MoveKnows
<1>7. \A r \in New(k) : r[2] \in Gateways
    BY <1>1, NewRows
<1>8. Registered'
    BY <1>2, <1>4 DEF Registered
<1>9. Sane => \A r \in table : r[2] \in Gateways => r \in own \cup geo \cup move[k].rows
    BY <1>1, <1>5 DEF CountryInv, Pinned
<1>10. CASE MoveAdds(k)
  <2>1. /\ geo' = geo /\ move[k].at = "add"
        /\ \/ table' = table \cup New(k) /\ move'[k].at = "drop"
           \/ table' = table /\ move'[k].at = "roll back"
    <3>1. geo' = geo /\ move[k].at = "add"
        BY <1>10 DEF MoveAdds, Moving, helper
    <3>2. \/ table' = table \cup New(k) /\ Goes(k, "drop")
          \/ table' = table /\ Goes(k, "roll back")
        BY <1>10 DEF MoveAdds, Settled
    <3>3. \A a \in Stages : Goes(k, a) => move'[k].at = a
        BY <1>1, WorkerGoes
    <3> QED
        BY <3>1, <3>2, <3>3 DEF Stages
  <2>2. MoveKnows'
      BY <1>1, <1>2, <1>4, <1>5, <1>6, <2>1 DEF CountryInv, MoveKnows, Holding, Sane
  <2>3. Pinned'
      BY <1>2, <1>4, <1>6, <1>9, <2>1 DEF Pinned, Holding, Sane
  <2>4. ShadowInv'
    <3>1. \A r : r[2] = "tun" /\ r \in table' => r \in table
        BY <1>7, <2>1, RoutesAssumption
    <3> QED
        BY <1>1, <1>2, <2>1, <3>1, ShadowKept
  <2> QED
      BY <1>1, <1>4, <1>8, <2>1, <2>2, <2>3, <2>4 DEF CountryInv, GeoUniform
<1>11. CASE MoveRollsBack(k)
  <2>1. /\ table' = table /\ move[k].at = "roll back" /\ move'[k].at = "over"
        /\ geo' = move[k].rows
    <3>1. /\ table' = table /\ move[k].at = "roll back" /\ Goes(k, "over")
          /\ geo' = (geo \ New(k)) \cup move[k].rows
        BY <1>11 DEF MoveRollsBack, Moving
    <3> QED
        BY <1>1, <1>6, <3>1, WorkerGoes DEF Stages
  <2>2. \A j \in 1..MaxRoams : ~Holding(j)'
      BY <1>5, <2>1 DEF Holding
  <2>3. MoveKnows'
      BY <2>2 DEF MoveKnows, Holding
  <2>4. Pinned'
      BY <1>1, <1>2, <1>6, <1>9, <2>1 DEF Pinned, CountryInv, MoveKnows, Sane
  <2>5. GeoUniform'
    <3>1. \A r \in move[k].rows : r[2] = move[k].from
        BY <1>1 DEF Control, MovesAway, Via
    <3> QED
        BY <2>1, <3>1 DEF GeoUniform
  <2>6. ShadowInv'
    <3>1. Dests(geo)' = Dests(geo)
        BY <1>1, <1>6, <2>1, NewRows
    <3> QED
        BY <1>1, <1>2, <2>1, <3>1, ShadowKept
  <2> QED
      BY <1>4, <1>8, <2>3, <2>4, <2>5, <2>6 DEF CountryInv
<1>12. CASE MoveDrops(k)
  <2>1. /\ table' = table \ move[k].rows /\ geo' = geo
        /\ move[k].at = "drop" /\ move'[k].at = "over"
    <3>1. /\ table' = table \ move[k].rows /\ move[k].at = "drop" /\ Goes(k, "over")
          /\ geo' = geo
        BY <1>12 DEF MoveDrops, Moving, helper
    <3> QED
        BY <1>1, <3>1, WorkerGoes DEF Stages
  <2>2. \A j \in 1..MaxRoams : ~Holding(j)'
      BY <1>5, <2>1 DEF Holding
  <2>3. MoveKnows' /\ Pinned' /\ GeoUniform'
      BY <1>1, <1>2, <1>9, <2>1, <2>2
         DEF CountryInv, MoveKnows, Pinned, GeoUniform, Holding, Sane
  <2>4. ShadowInv'
      BY <1>1, <1>2, <2>1, ShadowKept
  <2> QED
      BY <1>4, <1>8, <2>3, <2>4 DEF CountryInv
<1> QED
    BY <1>10, <1>11, <1>12
-----------------------------------------------------------------------------
(* The rest of the clean-up. *)

LEMMA CleanPreserves ==
    ASSUME RouteInv, CleanOwn \/ CleanGeo
    PROVE  Control' /\ CountryInv' /\ ShadowInv'
<1>1. /\ TypeOK /\ Control /\ CountryInv /\ ShadowInv /\ MoveTyped /\ base \in Gateways
      /\ own \subseteq {Server} \X Gateways
    BY DEF RouteInv, Control, TypeOK
<1>2. CASE CleanOwn
  <2>1. /\ table' = table \ own /\ own' = {} /\ main = "own" /\ main' = "geo"
        /\ UNCHANGED <<geo, over, saved, freed, todo, inst, ending, gateway, phys, base,
                       batches, refused, move>>
      BY <1>2 DEF CleanOwn, install, counts
  <2>2. Control'
      BY <1>1, <2>1, ControlKept DEF Serving
  <2>3. \A k \in 1..MaxRoams : New(k) \cap own = {} /\ New(k)' = New(k)
    <3>1. \A k \in 1..MaxRoams : \A r \in New(k) : r[1] \in Country
        BY <1>1, NewRows
    <3> QED
        BY <1>1, <2>1, <3>1, RoutesAssumption DEF New
  <2>4. MoveKnows'
      BY <1>1, <2>1, <2>3 DEF CountryInv, MoveKnows, Holding, Sane, Alive
  <2>5. Registered' /\ GeoUniform' /\ Pinned'
      BY <1>1, <2>1 DEF CountryInv, Registered, GeoUniform, Pinned, Holding, Sane, Alive
  <2>6. ShadowInv'
      BY <1>1, <2>1, ShadowKept
  <2> QED
      BY <2>2, <2>4, <2>5, <2>6 DEF CountryInv
<1>3. CASE CleanGeo
  <2>1. /\ table' = table \ geo /\ geo' = {} /\ main = "geo" /\ main' = "done"
        /\ ending' = IF ending = "running" THEN "normal" ELSE ending
        /\ UNCHANGED <<own, over, saved, freed, todo, inst, gateway, phys, base,
                       batches, refused, move>>
      BY <1>3 DEF CleanGeo, install
  <2>2. Sane' => Sane /\ ending' = "normal" /\ inst = "done" /\ \A k \in 1..MaxRoams : Idle(k)
      BY <1>1, <2>1 DEF Control, Joins, Serving, Sane
  <2>3. Control'
    <3>1. Joins'
        BY <1>1, <2>1, <2>2 DEF Control, Joins, Serving, Sane, Idle
    <3> QED
        BY <1>1, <2>1, <3>1 DEF Control, MoveTyped, InOrder, MovesAway, Early, Idle
  <2>4. ~Alive' /\ \A k \in 1..MaxRoams : Sane' => ~Holding(k) /\ ~Holding(k)'
      BY <2>1, <2>2 DEF Alive, Holding, Idle
  <2>5. Registered' /\ GeoUniform' /\ MoveKnows' /\ Pinned'
      BY <1>1, <2>1, <2>2, <2>4
         DEF CountryInv, Registered, GeoUniform, MoveKnows, Pinned, Holding
  <2>6. ShadowInv'
      BY <1>1, <2>1, ShadowKept
  <2> QED
      BY <2>3, <2>5, <2>6 DEF CountryInv
<1> QED
    BY <1>2, <1>3

-----------------------------------------------------------------------------
(* The theorems. *)

LEMMA InitEstablishes == Init => RouteInv
<1> SUFFICES ASSUME Init PROVE RouteInv
    OBVIOUS
<1>1. TypeOK /\ own \subseteq {Server} \X Gateways /\ MoveTyped
    BY InitTyped
<1>2. \A k \in 1..MaxRoams : move[k].at = "unused" /\ move[k].rows = {}
    BY DEF Init, NoMove
<1>3. Control
  <2>1. InOrder
    <3>1. \A k \in 1..MaxRoams : k > 0 /\ ~(k < 0)
        OBVIOUS
    <3>2. MaxRoams \in Nat
        BY RoutesAssumption
    <3> QED
        BY <1>2, <3>1, <3>2 DEF InOrder
  <2>2. MovesAway /\ Joins /\ Early
      BY <1>2 DEF Init, MovesAway, Joins, Early, Idle, Serving, Sane
  <2> QED
      BY <1>1, <2>1, <2>2 DEF Control
<1>4. /\ \A r \in table : r \in own \/ r[2] = "vpn"
      /\ \A r \in own : r[2] \in Gateways
      /\ "vpn" \notin Gateways /\ "tun" \notin Gateways
  <2>1. \A r \in Via(Injected, "vpn") : r[2] = "vpn"
      BY ViaRows
  <2> QED
      BY <1>1, <2>1, RoutesAssumption DEF Init
<1>5. CountryInv
  <2>1. \A r \in table : r[2] \in Gateways => r \in own
      BY <1>4
  <2> QED
      BY <1>2, <2>1 DEF Init, CountryInv, Registered, GeoUniform, MoveKnows, Pinned, Holding
<1>6. ShadowInv
  <2>1. \A r \in table : r[2] # "tun"
      BY <1>4
  <2> QED
      BY <2>1 DEF Init, ShadowInv
<1> QED
    BY <1>1, <1>3, <1>5, <1>6 DEF RouteInv

LEMMA NextPreserves ==
    ASSUME Settled, RouteInv, [Next]_vars
    PROVE  RouteInv'
<1>1. TypeOK /\ own \subseteq {Server} \X Gateways /\ MoveTyped
    BY DEF RouteInv, Control
<1>2. CASE Installer
    BY <1>1, <1>2, InstallerTyped, InstallPreserves, ShadowStepsPreserve
       DEF Installer, RouteInv
<1>3. CASE ShadowBegins \/ ShadowAdds \/ UndoShadow \/ CleanVpn
    BY <1>1, <1>3, MainTyped, ShadowStepsPreserve DEF RouteInv
<1>4. CASE GatewaySeen \/ Exit \/ Join
    BY <1>1, <1>4, MainTyped, JoinPreserves DEF RouteInv
<1>5. CASE Signal \/ Roam
    BY <1>1, <1>5, MainTyped, SignalAndRoamPreserve DEF RouteInv
<1>6. CASE CleanOwn \/ CleanGeo
    BY <1>1, <1>6, MainTyped, CleanPreserves DEF RouteInv
<1>7. CASE GatewayChanged
    BY <1>1, <1>7, MovesTyped, GatewayChangedPreserves DEF RouteInv
<1>8. CASE \E k \in DOMAIN move : Mover(k)
  <2>1. PICK k \in 1..MaxRoams : Mover(k)
      BY <1>1, <1>8 DEF MoveTyped
  <2>2. Control' /\ CountryInv' /\ ShadowInv'
      BY <2>1, MoveRegistersPreserves, MoveStepsPreserve DEF Mover
  <2> QED
      BY <1>1, <1>8, <2>2, MovesTyped DEF RouteInv
<1>9. CASE UNCHANGED vars
    BY <1>9 DEF vars, helper, mains, install, counts, RouteInv, TypeOK, Control, MoveTyped,
       InOrder, MovesAway, Joins, Early, CountryInv, Registered, GeoUniform, MoveKnows,
       Pinned, ShadowInv, Idle, Holding, Serving, Sane, Alive, New
<1> QED
    BY <1>2, <1>3, <1>4, <1>5, <1>6, <1>7, <1>8, <1>9 DEF Next, Main

THEOREM RouteInvariance ==
    ASSUME Settled
    PROVE  Spec => []RouteInv
<1>1. RouteInv /\ [Next]_vars => RouteInv'
    BY NextPreserves
<1> QED
    BY <1>1, InitEstablishes, PTL DEF Spec

\* Whichever threads are at work, every row of ours is in a ledger or in the hand
\* of a thread that the clean-up waits for; so that a clean-up that waited leaves
\* none behind.
THEOREM RoutesNeverLost ==
    ASSUME Settled
    PROVE  Spec => []HelperInvariant
<1>1. RouteInv => HelperInvariant
  <2> SUFFICES ASSUME RouteInv, Sane, NEW r \in table, r[2] # "vpn"
               PROVE  r \in own \cup geo \cup Via(over, "tun") \cup InHand
      BY DEF HelperInvariant, RoutesTracked, RouteInv, Sane
  <2>1. r \in Rows /\ (r[2] \in Gateways \/ r[2] = "tun")
      BY DEF RouteInv, TypeOK, Rows
  <2>2. CASE r[2] = "tun"
      BY <2>1, <2>2, RowVia DEF RouteInv, ShadowInv
  <2>3. CASE r[2] \in Gateways
    <3>1. \A k \in 1..MaxRoams : Holding(k) /\ r \in move[k].rows => r \in InHand
      <4> SUFFICES ASSUME NEW k \in 1..MaxRoams, Holding(k), r \in move[k].rows
                   PROVE  r \in InHand
          OBVIOUS
      <4>1. main \in {"run", "shadow", "undo", "join"}
          BY DEF RouteInv, Control, Joins, Serving, Idle, Holding
      <4>2. k \in DOMAIN move
          BY DEF RouteInv, Control, MoveTyped
      <4> QED
          BY <4>1, <4>2 DEF InHand, Holding
    <3> QED
        BY <2>3, <3>1 DEF RouteInv, CountryInv, Pinned
  <2> QED
      BY <2>1, <2>2, <2>3
<1> QED
    BY <1>1, RouteInvariance, PTL

\* Moving the country to another gateway opens no gap: a country prefix that has
\* a row at a gateway has one after every step of a helper that goes on.
THEOREM MoveLeavesNoGap ==
    ASSUME Settled
    PROVE  Spec => RepointNoGap
<1>1. ASSUME RouteInv, [Next]_vars, main' = "run", NEW c \in Country, NEW g \in Gateways,
             <<c, g>> \in table
      PROVE  \E h \in Gateways : <<c, h>> \in table'
  <2> DEFINE r == <<c, g>>
  <2>1. r[1] = c /\ r[2] = g /\ r \in table
      BY <1>1
  <2>2. CASE table' = table
      BY <1>1, <2>2
  <2>3. CASE ShadowBegins \/ ShadowAdds \/ UndoShadow \/ UnshadowBegins \/ UnshadowEnds
      BY <1>1, <2>1, <2>3, ShadowMovesNoGateway
  <2>4. CASE GeoSweeps
    <3>1. /\ inst = "parse" /\ main = "run"
        BY <1>1, <2>4 DEF GeoSweeps, Installing, mains
    <3>2. geo = {} /\ Sane /\ \A k \in 1..MaxRoams : ~Holding(k)
        BY <1>1, <3>1 DEF RouteInv, Control, Joins, Serving, Early, CountryInv, Registered,
                          Sane, Holding
    <3>3. r \in own
        BY <1>1, <2>1, <3>2 DEF RouteInv, CountryInv, Pinned
    <3> QED
        BY <1>1, <2>1, <3>3, RoutesAssumption DEF RouteInv
  <2>5. CASE GatewayChanged
    <3>1. \A q \in table : q \in own \/ q \in table'
        BY <2>5 DEF GatewayChanged, RepointPinned
    <3>2. r \notin own
        BY <2>1, RoutesAssumption, <1>1 DEF RouteInv
    <3> QED
        BY <1>1, <2>1, <3>1, <3>2
  <2>6. CASE \E k \in DOMAIN move : MoveDrops(k)
    <3>1. PICK k \in 1..MaxRoams : MoveDrops(k)
        BY <1>1, <2>6 DEF RouteInv, Control, MoveTyped
    <3>2. /\ move[k].at = "drop" /\ table' = table \ move[k].rows /\ main = "run"
        BY <1>1, <3>1 DEF MoveDrops, Moving, mains
    <3>3. /\ Sane /\ New(k) \subseteq table /\ ~Idle(k)
        BY <1>1, <3>2 DEF RouteInv, Control, Joins, Serving, CountryInv, MoveKnows, Sane, Idle
    <3>4. CASE r \notin move[k].rows
        BY <1>1, <2>1, <3>2, <3>4
    <3>5. CASE r \in move[k].rows
      <4>1. c \in Dests(move[k].rows)
          BY <2>1, <3>5, DestsOf
      <4>2. <<c, move[k].to>> \in New(k)
          BY <4>1, ViaRows DEF New
      <4>3. move[k].from # move[k].to /\ move[k].rows \subseteq Via(Country, move[k].from)
          BY <1>1, <3>3 DEF RouteInv, Control, MovesAway
      <4>4. <<c, move[k].to>> \notin move[k].rows
          BY <4>3 DEF Via
      <4>5. move[k].to \in Gateways
          BY <1>1 DEF RouteInv, Control, MoveTyped, Workers
      <4> QED
          BY <3>2, <3>3, <4>2, <4>4, <4>5
    <3> QED
        BY <3>4, <3>5
  <2>7. CASE GeoInstalls \/ \E k \in DOMAIN move : MoveAdds(k)
      BY <1>1, <2>7 DEF GeoInstalls, MoveAdds
  <2> QED
      BY <1>1, <2>2, <2>3, <2>4, <2>5, <2>6, <2>7
         DEF Next, Installer, Main, Mover, GeoRegisters, GeoWithdraws, GatewaySeen, Exit,
             Join, Joined, CleanVpn, CleanOwn, CleanGeo, Signal, Roam, MoveStarts,
             MoveRegisters, MoveRollsBack, vars
<1>2. RouteInv /\ [Next]_vars =>
          [\A c \in Country : main' = "run" /\ (\E g \in Gateways : <<c, g>> \in table)
              => \E g \in Gateways : <<c, g>> \in table']_vars
    BY <1>1
<1> QED
    BY <1>2, RouteInvariance, PTL DEF Spec, RepointNoGap

-----------------------------------------------------------------------------
(* What the same helper prints, and the dashboard makes of it: theorems    *)
(* about HelperMonitor, for any size of the pipe, number of retries and    *)
(* restarts.  Its variables are its own.                                   *)
(*                                                                         *)
(* That the first RUNNING is earned needs to know where in the pipe the    *)
(* announcement is: right behind ACTIVE, which is first.                   *)

\* The helper's announcement of how its start went; READY was earned.
Announces(m) ==
    m \in {"READY", "START_DEGRADED", "START_LOOP"} /\ (m = "READY" => verified)

\* ACTIVE is the first marker of a helper and the announcement its second, so that
\* the machine is VERIFYING only as long as the announcement is the next to come.
OpeningInOrder ==
    /\ phase \in {"pipe", "routes"} => pipe = <<>>
    /\ phase = "verify" => pipe \in {<<>>, <<"ACTIVE">>}
    /\ \A i \in 1..Len(pipe) :
          pipe[i] = "ACTIVE" =>
              i = 1 /\ IF Len(pipe) = 1 THEN phase = "verify" ELSE Announces(pipe[2])
    /\ machine = "VERIFYING" =>
          IF pipe = <<>> THEN phase = "verify" ELSE Announces(pipe[1])

WorldTyped ==
    /\ proxy \in BOOLEAN /\ path \in Paths /\ adapter \in BOOLEAN
    /\ forwarder \in BOOLEAN /\ shocks \in 0..MaxShocks

HelperTyped ==
    /\ phase \in {"pipe", "routes", "verify", "settle", "gone", "off"} \cup Monitoring
    /\ proxyUp \in BOOLEAN /\ fails \in 0..(Retries - 1) /\ fresh \in BOOLEAN
    /\ lastLeak \in {"none", "ok", "leak", "inconclusive"}
    /\ dns \in {"auto", "wanted", "doh"} /\ verified \in BOOLEAN

PipesTyped ==
    /\ pipe \in Seq(Markers) /\ Len(pipe) <= MaxPipe
    /\ stale \in Seq(Markers) /\ Len(stale) <= MaxPipe

DashTyped ==
    /\ machine \in TunnelStates
    /\ incident \in Kinds \cup {"none", "WAITING"}
    /\ waiting \in Kinds \cup {"none"}
    /\ age \in 0..DnsCycles /\ restarts \in 0..MaxRestarts

\* Their types, by whom they belong to, now and after a step.
LEMMA TypeParts ==
    /\ MonitorTypeOK <=> WorldTyped /\ HelperTyped /\ PipesTyped /\ DashTyped
    /\ MonitorTypeOK' <=> WorldTyped' /\ HelperTyped' /\ PipesTyped' /\ DashTyped'
BY DEF MonitorTypeOK, WorldTyped, HelperTyped, PipesTyped, DashTyped

-----------------------------------------------------------------------------

\* The markers, by name.
LEMMA MarkersAre ==
    Markers = {"ACTIVE", "READY", "START_DEGRADED", "START_LOOP", "SELF_HEALING",
               "SELF_HEAL_OK", "ADAPTER_GONE", "SELF_HEAL_FAILED", "PROXY_DOWN",
               "PROXY_UP", "TUN2SOCKS_DEAD", "PROBE_FAILED", "PROBE_OK", "LEAK",
               "LEAK_OK"}
BY DEF Markers, Verdict

\* The states, by name.
LEMMA StatesAre ==
    TunnelStates = {"STARTING", "RESOLVING", "STARTING_TUN", "STARTING_TUN2SOCKS",
                    "INSTALLING_ROUTES", "VERIFYING", "RUNNING", "DEGRADED",
                    "RECOVERING", "STOPPED", "FAILED", "STOPPING"}
<1>1. StartPhases = {"STARTING", "RESOLVING", "STARTING_TUN", "STARTING_TUN2SOCKS",
                     "INSTALLING_ROUTES", "VERIFYING"}
    BY DEF StartPhases, StartSeq
<1>. QED  BY <1>1 DEF TunnelStates, Health, Operational, Terminal

\* A verdict asks for a state there is, or for none, and only ACTIVE for VERIFYING.
LEMMA VerdictsSay ==
    ASSUME NEW m \in Markers
    PROVE  /\ Verdict[m].target \in TunnelStates \cup {"none"}
           /\ Verdict[m].kind \in Kinds \cup {"none"}
           /\ Verdict[m].target = "VERIFYING" => m = "ACTIVE"
BY MarkersAre, StatesAre DEF Verdict, Kinds

\* A move ends in the state asked for or in the one before.
LEMMA MoveEnds ==
    ASSUME NEW source, NEW target
    PROVE  TryMove(source, target) \in {source, target}
BY DEF TryMove

\* A verdict that asks for no state moves nothing.
LEMMA NoneRefused ==
    ASSUME NEW source \in TunnelStates
    PROVE  TryMove(source, "none") = source
<1>1. \A i \in 1..6 : "none" \notin StartEdges(i)
    BY DEF StartEdges, StartSeq, Operational
<1>2. ASSUME source \in StartPhases
      PROVE  "none" \notin Transitions[source]
    <2> DEFINE i == CHOOSE i \in 1..6 : StartSeq[i] = source
    <2>1. i \in 1..6
        BY <1>2 DEF StartPhases
    <2>2. Transitions[source] = StartEdges(i)
        BY <1>2 DEF Transitions
    <2>. QED  BY <1>1, <2>1, <2>2
<1>3. ASSUME source \notin StartPhases
      PROVE  "none" \notin Transitions[source]
    <2>1. Transitions[source] = RestEdges[source]
        BY <1>3 DEF Transitions
    <2>2. source \in {"RUNNING", "DEGRADED", "RECOVERING", "STOPPED", "FAILED",
                     "STOPPING"}
        BY <1>3 DEF TunnelStates, Health, Operational, Terminal
    <2>. QED  BY <2>1, <2>2 DEF RestEdges
<1>. QED  BY <1>2, <1>3 DEF TryMove, CanMove

\* The operational states can be entered from VERIFYING.
LEMMA VerifyingOpens ==
    ASSUME NEW target \in Operational
    PROVE  TryMove("VERIFYING", target) = target
<1> DEFINE i == CHOOSE i \in 1..6 : StartSeq[i] = "VERIFYING"
<1>1. StartSeq[6] = "VERIFYING"
    BY DEF StartSeq
<1>2. i \in 1..6 /\ StartSeq[i] = "VERIFYING"
    BY <1>1
<1>3. "VERIFYING" \in StartPhases
    BY <1>1 DEF StartPhases
<1>4. Transitions["VERIFYING"] = StartEdges(i)
    BY <1>3 DEF Transitions, TunnelStates
<1>. QED  BY <1>2, <1>4 DEF StartEdges, TryMove, CanMove

\* A verdict that is applied leaves the dashboard's state typed.
LEMMA AppliedTyped ==
    ASSUME MonitorTypeOK, NEW m \in Markers, Applied(m)
    PROVE  DashTyped'
<1>1. machine' \in TunnelStates
    BY MoveEnds, NoneRefused, VerdictsSay DEF Applied, Target, MonitorTypeOK
<1>2. /\ incident' \in Kinds \cup {"none", "WAITING"}
      /\ waiting' \in Kinds \cup {"none"}
      /\ age' \in 0..DnsCycles /\ restarts' \in 0..MaxRestarts
    BY MonitorAssumption, VerdictsSay
       DEF Applied, Reports, MonitorTypeOK, MonitorAssumption
<1>. QED  BY <1>1, <1>2 DEF DashTyped

\* No ladder waits longer than the one for DNS.
LEMMA DelaysBounded ==
    ASSUME NEW kind \in Kinds
    PROVE  FirstDelay(kind) \in 0..DnsCycles
BY MonitorAssumption DEF FirstDelay, MonitorAssumption, Kinds

\* The count of failed probes starts below its limit, and stays there.
LEMMA NoFails == 0 \in 0..(Retries - 1)
BY MonitorAssumption DEF MonitorAssumption

LEMMA Counted ==
    ASSUME NEW n \in 0..(Retries - 1)
    PROVE  (n + 1) % Retries \in 0..(Retries - 1)
BY MonitorAssumption DEF MonitorAssumption

\* A marker fits in the pipe it is printed to.
LEMMA PrintsTyped ==
    ASSUME PipesTyped, NEW m \in Markers, UNCHANGED stale,
           Prints(m) \/ UNCHANGED pipe
    PROVE  PipesTyped'
BY MonitorAssumption DEF PipesTyped, Prints, MonitorAssumption

-----------------------------------------------------------------------------

\* Types hold at first.
LEMMA MonitorInitTyped == ASSUME MonitorInit PROVE MonitorTypeOK
<1>1. WorldTyped
    BY MonitorAssumption DEF MonitorInit, WorldTyped, MonitorAssumption
<1>2. HelperTyped
    BY NoFails DEF MonitorInit, HelperTyped
<1>3. PipesTyped
    BY MonitorAssumption DEF MonitorInit, PipesTyped, MonitorAssumption
<1>4. DashTyped
    BY MonitorAssumption, StatesAre DEF MonitorInit, DashTyped, MonitorAssumption
<1>. QED  BY <1>1, <1>2, <1>3, <1>4, TypeParts

\* The world's changes keep the types.
LEMMA WorldStepTyped ==
    ASSUME MonitorTypeOK, WorldChanges
    PROVE  MonitorTypeOK'
<1>0. shocks' \in 0..MaxShocks
    BY MonitorAssumption DEF WorldChanges, MonitorTypeOK, MonitorAssumption
<1>1. WorldTyped'
    BY <1>0 DEF WorldChanges, MonitorTypeOK, WorldTyped, Paths
<1>2. HelperTyped' /\ PipesTyped' /\ DashTyped'
    BY DEF WorldChanges, MonitorTypeOK, HelperTyped, PipesTyped, DashTyped,
           helperVars, dashVars, engineVars
<1>. QED  BY <1>1, <1>2, TypeParts

\* So does each step of the helper.
LEMMA HelperStepTyped ==
    ASSUME MonitorTypeOK, HelperStep
    PROVE  MonitorTypeOK'
<1> USE TypeParts
<1>1. CASE PipeStarts
    <2>1. HelperTyped'
        BY <1>1 DEF PipeStarts, HelperTyped
    <2>. QED  BY <1>1, <2>1
                 DEF PipeStarts, WorldTyped, PipesTyped, DashTyped, worldVars,
                     dashVars, engineVars
<1>2. CASE RoutesIn
    <2>1. HelperTyped'
        BY <1>2 DEF RoutesIn, HelperTyped
    <2>2. PipesTyped'
        BY <1>2, PrintsTyped, MarkersAre DEF RoutesIn, dashVars
    <2>. QED  BY <1>2, <2>1, <2>2
                 DEF RoutesIn, WorldTyped, DashTyped, worldVars, dashVars,
                     engineVars
<1>3. CASE Verified
    <2>1. HelperTyped'
        <3>1. dns' \in {"auto", "wanted", "doh"} /\ verified' \in BOOLEAN
            BY <1>3
               DEF Verified, Stable, HelperTyped, WorldTyped, Resolves,
                   Carries
        <3>. QED  BY <1>3, <3>1 DEF Verified, HelperTyped
    <2>2. PipesTyped'
        BY <1>3, PrintsTyped, MarkersAre DEF Verified, dashVars
    <2>. QED  BY <1>3, <2>1, <2>2
                 DEF Verified, WorldTyped, DashTyped, worldVars, dashVars,
                     engineVars
<1>4. CASE MonitorBegins
    <2>1. HelperTyped'
        BY <1>4 DEF MonitorBegins, HelperTyped, WorldTyped, Monitoring
    <2>. QED  BY <1>4, <2>1
                 DEF MonitorBegins, WorldTyped, PipesTyped, DashTyped,
                     worldVars, dashVars, engineVars
<1>5. CASE SocksChecked
    <2>1. HelperTyped'
        BY MonitorAssumption, <1>5
           DEF SocksChecked, HelperTyped, WorldTyped, MonitorAssumption
    <2>2. PipesTyped'
        BY <1>5, PrintsTyped, MarkersAre DEF SocksChecked, dashVars
    <2>. QED  BY <1>5, <2>1, <2>2
                 DEF SocksChecked, WorldTyped, DashTyped, worldVars,
                     dashVars, engineVars
<1>6. ASSUME ProbeDue
      PROVE  /\ WorldTyped' /\ DashTyped' /\ fresh' \in BOOLEAN
             /\ UNCHANGED <<proxyUp, stale>>
    <2>1. age' \in 0..DnsCycles
        BY MonitorAssumption, <1>6 DEF ProbeDue, DashTyped, MonitorAssumption
    <2>. QED  BY <1>6, <2>1 DEF ProbeDue, WorldTyped, DashTyped, worldVars
<1>7. CASE ProbeSkipped
    <2>1. HelperTyped'
        BY <1>6, <1>7 DEF ProbeSkipped, HelperTyped
    <2>2. PipesTyped'
        BY <1>6, <1>7 DEF ProbeSkipped, PipesTyped
    <2>. QED  BY <1>6, <1>7, <2>1, <2>2 DEF ProbeSkipped
<1>8. CASE ProbePasses
    <2>1. HelperTyped'
        BY MonitorAssumption, <1>6, <1>8
           DEF ProbePasses, HelperTyped, Monitoring, MonitorAssumption
    <2>2. PipesTyped'
        BY <1>6, <1>8, PrintsTyped, MarkersAre DEF ProbePasses
    <2>. QED  BY <1>6, <1>8, <2>1, <2>2 DEF ProbePasses
<1>9. CASE ProbeFails
    <2>1. HelperTyped'
        <3>1. fails' \in 0..(Retries - 1)
            BY <1>9, Counted DEF ProbeFails, HelperTyped
        <3>2. dns' \in {"auto", "wanted", "doh"}
            BY <1>9 DEF ProbeFails, HelperTyped
        <3>. QED  BY <1>6, <1>9, <3>1, <3>2
                     DEF ProbeFails, HelperTyped, Monitoring
    <2>2. PipesTyped'
        BY <1>6, <1>9, PrintsTyped, MarkersAre DEF ProbeFails
    <2>. QED  BY <1>6, <1>9, <2>1, <2>2 DEF ProbeFails
<1>10. CASE LeakChecked
    <2>1. PICK status \in {"inconclusive", "leak", "ok"} :
              /\ lastLeak' = status
              /\ IF status \in {lastLeak, "inconclusive"} THEN UNCHANGED pipe
                 ELSE Prints(IF status = "leak" THEN "LEAK" ELSE "LEAK_OK")
        BY <1>10 DEF LeakChecked
    <2>2. HelperTyped'
        BY <1>10, <2>1 DEF LeakChecked, HelperTyped, Monitoring
    <2>3. PipesTyped'
        BY <1>10, <2>1, PrintsTyped, MarkersAre DEF LeakChecked, dashVars
    <2>. QED  BY <1>10, <2>2, <2>3
                 DEF LeakChecked, WorldTyped, DashTyped, worldVars,
                     dashVars, engineVars
<1>11. CASE HealBegins
    <2>1. HelperTyped'
        BY <1>11 DEF HealBegins, HelperTyped
    <2>2. PipesTyped'
        BY <1>11, PrintsTyped, MarkersAre DEF HealBegins, dashVars
    <2>. QED  BY <1>11, <2>1, <2>2
                 DEF HealBegins, WorldTyped, DashTyped, worldVars,
                     dashVars, engineVars
<1>12. CASE HealEnds
    <2>1. HelperTyped'
        BY <1>12 DEF HealEnds, HelperTyped, Monitoring
    <2>2. PipesTyped'
        BY <1>12, PrintsTyped, MarkersAre DEF HealEnds, dashVars
    <2>3. WorldTyped'
        BY <1>12 DEF HealEnds, WorldTyped, Paths
    <2>. QED  BY <1>12, <2>1, <2>2, <2>3
                 DEF HealEnds, DashTyped, dashVars, engineVars
<1>13. CASE ForwarderMissed
    <2>1. HelperTyped'
        BY <1>13 DEF ForwarderMissed, HelperTyped
    <2>2. PipesTyped'
        BY <1>13, PrintsTyped, MarkersAre DEF ForwarderMissed, dashVars
    <2>. QED  BY <1>13, <2>1, <2>2
                 DEF ForwarderMissed, WorldTyped, DashTyped, worldVars,
                     dashVars, engineVars
<1>. QED  BY <1>1, <1>2, <1>3, <1>4, <1>5, <1>7, <1>8, <1>9, <1>10, <1>11, <1>12,
             <1>13 DEF HelperStep

\* So does a new helper, whoever asked for it.
LEMMA RelaunchTyped ==
    ASSUME MonitorTypeOK, Relaunch, restarts' \in 0..MaxRestarts
    PROVE  MonitorTypeOK'
<1>1. WorldTyped'
    BY DEF Relaunch, MonitorTypeOK, WorldTyped, Paths
<1>2. HelperTyped'
    BY NoFails DEF Relaunch, HelperTyped
<1>3. PipesTyped'
    BY MonitorAssumption
       DEF Relaunch, MonitorTypeOK, PipesTyped, MonitorAssumption
<1>4. DashTyped'
    BY MonitorAssumption, StatesAre DEF Relaunch, DashTyped, MonitorAssumption
<1>. QED  BY <1>1, <1>2, <1>3, <1>4, TypeParts

\* So does each step of the dashboard, and the user's start.
LEMMA DashStepTyped ==
    ASSUME MonitorTypeOK, DashStep \/ UserStarts
    PROVE  MonitorTypeOK'
<1> USE TypeParts
<1>1. CASE ReaderApplies
    <2>1. Head(pipe) \in Markers /\ Tail(pipe) \in Seq(Markers)
                                 /\ Len(Tail(pipe)) <= MaxPipe
        BY MonitorAssumption, <1>1
           DEF ReaderApplies, PipesTyped, MonitorAssumption
    <2>2. DashTyped'
        BY <1>1, <2>1, AppliedTyped DEF ReaderApplies
    <2>3. PipesTyped'
        BY <1>1, <2>1 DEF ReaderApplies, PipesTyped
    <2>. QED  BY <1>1, <2>2, <2>3
                 DEF ReaderApplies, WorldTyped, HelperTyped, worldVars,
                     helperVars
<1>2. CASE StaleLeaves
    <2>1. PipesTyped'
        BY MonitorAssumption, <1>2 DEF StaleLeaves, PipesTyped, MonitorAssumption
    <2>. QED  BY <1>2, <2>1
                 DEF StaleLeaves, WorldTyped, HelperTyped, DashTyped,
                     worldVars, helperVars, engineVars
<1>3. CASE ReaderSeesExit
    <2>1. machine' \in TunnelStates
        BY <1>3, MoveEnds, StatesAre DEF ReaderSeesExit, DashTyped
    <2>2. DashTyped'
        BY MonitorAssumption, <1>3, <2>1
           DEF ReaderSeesExit, Reports, DashTyped, Kinds,
               MonitorAssumption
    <2>3. HelperTyped'
        BY <1>3 DEF ReaderSeesExit, HelperTyped
    <2>. QED  BY <1>3, <2>2, <2>3
                 DEF ReaderSeesExit, WorldTyped, PipesTyped, worldVars
<1>4. CASE DelayRuns
    <2>1. age' \in 0..DnsCycles
        BY MonitorAssumption, <1>4, DelaysBounded
           DEF DelayRuns, DashTyped, MonitorAssumption
    <2>. QED  BY <1>4, <2>1
                 DEF DelayRuns, WorldTyped, HelperTyped, PipesTyped, DashTyped,
                     worldVars, helperVars
<1>5. CASE EngineRestarts
    BY MonitorAssumption, <1>5, RelaunchTyped
       DEF EngineRestarts, DashTyped, MonitorAssumption
<1>6. CASE UserStarts
    BY MonitorAssumption, <1>6, RelaunchTyped DEF UserStarts, MonitorAssumption
<1>7. CASE ProxyWaitBegins
    <2>1. DashTyped'
        BY <1>7, MoveEnds, StatesAre DEF ProxyWaitBegins, DashTyped
    <2>. QED  BY <1>7, <2>1
                 DEF ProxyWaitBegins, WorldTyped, HelperTyped, PipesTyped,
                     worldVars, helperVars
<1>8. CASE ProxyWaitEnds
    <2>1. DashTyped'
        BY MonitorAssumption, <1>8, StatesAre
           DEF ProxyWaitEnds, DashTyped, MonitorAssumption
    <2>. QED  BY <1>8, <2>1
                 DEF ProxyWaitEnds, WorldTyped, HelperTyped, PipesTyped,
                     worldVars, helperVars
<1>. QED  BY <1>1, <1>2, <1>3, <1>4, <1>5, <1>6, <1>7, <1>8 DEF DashStep

\* So does every step.
LEMMA NextTyped ==
    ASSUME MonitorTypeOK, [MonitorNext]_monitorVars
    PROVE  MonitorTypeOK'
<1>1. CASE UNCHANGED monitorVars
    BY <1>1
       DEF MonitorTypeOK, monitorVars, worldVars, helperVars, dashVars,
           engineVars
<1>. QED  BY <1>1, WorldStepTyped, HelperStepTyped, DashStepTyped DEF MonitorNext

\* Every variable stays in its set, for any pipe, number of retries and of restarts:
\* the count of failed probes wraps in time, the pipe is never overfull, and the
\* machine only ever is in a state of its graph (main of helper.py, launch._read).
THEOREM MonitorTypes ==
    MonitorSpec => []MonitorTypeOK
<1>. QED  BY MonitorInitTyped, NextTyped, PTL DEF MonitorSpec

-----------------------------------------------------------------------------

\* Once the start is announced, whatever is printed is read after that.
LEMMA LaterPrints ==
    ASSUME MonitorTypeOK, OpeningInOrder,
           UNCHANGED machine, verified => verified',
           phase \notin {"pipe", "routes", "verify"},
           phase' \notin {"pipe", "routes", "verify"},
           UNCHANGED pipe \/ \E m \in Markers \ {"ACTIVE"} : Prints(m)
    PROVE  OpeningInOrder'
<1>1. CASE UNCHANGED pipe
    BY <1>1 DEF OpeningInOrder, Announces
<1>2. CASE \E m \in Markers \ {"ACTIVE"} : Prints(m)
    <2>1. PICK m \in Markers \ {"ACTIVE"} : pipe' = Append(pipe, m)
        BY <1>2 DEF Prints
    <2>2. pipe \in Seq(Markers)
        BY DEF MonitorTypeOK
    <2>3. PICK n \in Nat : Len(pipe) = n
        BY <2>2
    <2>4. /\ Len(pipe') = n + 1 /\ pipe'[n + 1] = m
          /\ \A i \in 1..n : pipe'[i] = pipe[i]
        BY <2>1, <2>2, <2>3
    <2>5. pipe' # <<>>
        BY <2>3, <2>4
    <2>6. ASSUME NEW i \in 1..Len(pipe'), pipe'[i] = "ACTIVE"
          PROVE  i = 1 /\ Len(pipe') # 1 /\ Announces(pipe[2])'
        <3>1. i \in 1..n /\ pipe[i] = "ACTIVE"
            BY <2>4, <2>6, <2>3
        <3>2. i = 1 /\ n # 1 /\ Announces(pipe[2])
            BY <3>1, <2>3 DEF OpeningInOrder
        <3>3. 2 \in 1..n /\ n + 1 # 1
            BY <3>1, <3>2
        <3>. QED  BY <3>2, <3>3, <2>4 DEF Announces
    <2>7. ASSUME machine' = "VERIFYING"
          PROVE  Announces(pipe[1])'
        <3>1. pipe # <<>> /\ Announces(pipe[1])
            BY <2>7 DEF OpeningInOrder
        <3>2. 1 \in 1..n
            BY <3>1, <2>2, <2>3
        <3>. QED  BY <3>1, <3>2, <2>4 DEF Announces
    <2>. QED  BY <2>5, <2>6, <2>7 DEF OpeningInOrder
<1>. QED  BY <1>1, <1>2

\* The helper prints the announcement right behind ACTIVE.
LEMMA HelperStepInOrder ==
    ASSUME MonitorTypeOK, OpeningInOrder, HelperStep
    PROVE  OpeningInOrder'
<1> USE DEF dashVars
<1>1. CASE PipeStarts
    <2>1. pipe = <<>> /\ UNCHANGED <<pipe, machine>> /\ machine # "VERIFYING"
        BY <1>1 DEF PipeStarts, OpeningInOrder
    <2>. QED  BY <1>1, <2>1 DEF PipeStarts, OpeningInOrder
<1>2. CASE RoutesIn
    <2>1. pipe = <<>> /\ UNCHANGED machine /\ machine # "VERIFYING"
        BY <1>2 DEF RoutesIn, OpeningInOrder
    <2>2. pipe' = <<"ACTIVE">> /\ phase' = "verify"
        BY <1>2, <2>1 DEF RoutesIn, Prints
    <2>. QED  BY <2>1, <2>2 DEF OpeningInOrder
<1>3. CASE Verified
    <2>1. PICK m : Prints(m) /\ Announces(m)'
        BY <1>3 DEF Verified, Announces
    <2>2. /\ pipe \in {<<>>, <<"ACTIVE">>} /\ phase' = "settle" /\ UNCHANGED machine
          /\ machine = "VERIFYING" => pipe = <<>> \/ Announces(pipe[1])
        BY <1>3 DEF Verified, OpeningInOrder
    <2>3. CASE pipe = <<>>
        <3>1. pipe' = <<m>> /\ m # "ACTIVE"
            BY <2>1, <2>3 DEF Prints, Announces
        <3>. QED  BY <2>1, <2>2, <3>1 DEF OpeningInOrder
    <2>4. CASE pipe = <<"ACTIVE">>
        <3>1. pipe' = Append(<<"ACTIVE">>, m) /\ m # "ACTIVE"
            BY <2>1, <2>4 DEF Prints, Announces
        <3>3. Len(pipe') = 2 /\ pipe'[1] = "ACTIVE" /\ pipe'[2] = m
            BY <3>1
        <3>2. machine # "VERIFYING"
            BY <2>2, <2>4 DEF Announces
        <3>. QED  BY <2>1, <2>2, <3>1, <3>2, <3>3 DEF OpeningInOrder
    <2>. QED  BY <2>2, <2>3, <2>4
<1>4. CASE MonitorBegins
    BY <1>4, LaterPrints DEF MonitorBegins
<1>5. CASE SocksChecked
    BY <1>5, LaterPrints, MarkersAre DEF SocksChecked
<1>6. CASE ProbeSkipped
    BY <1>6, LaterPrints DEF ProbeSkipped, ProbeDue
<1>7. CASE ProbePasses
    BY <1>7, LaterPrints, MarkersAre DEF ProbePasses, ProbeDue
<1>8. CASE ProbeFails
    BY <1>8, LaterPrints, MarkersAre DEF ProbeFails, ProbeDue
<1>9. CASE LeakChecked
    BY <1>9, LaterPrints, MarkersAre DEF LeakChecked
<1>10. CASE HealBegins
    BY <1>10, LaterPrints, MarkersAre DEF HealBegins
<1>11. CASE HealEnds
    BY <1>11, LaterPrints, MarkersAre DEF HealEnds
<1>12. CASE ForwarderMissed
    BY <1>12, LaterPrints, MarkersAre DEF ForwarderMissed
<1>. QED  BY <1>1, <1>2, <1>3, <1>4, <1>5, <1>6, <1>7, <1>8, <1>9, <1>10, <1>11,
             <1>12 DEF HelperStep

\* VERIFYING is entered by reading ACTIVE.
LEMMA OnlyActiveOpens ==
    ASSUME MonitorTypeOK, NEW m \in Markers, Applied(m), machine' = "VERIFYING"
    PROVE  machine = "VERIFYING" \/ m = "ACTIVE"
<1>1. machine' \in {machine, Target(m)}
    BY MoveEnds DEF Applied
<1>. QED  BY <1>1, VerdictsSay DEF Target

\* VERIFYING is left by reading the announcement, as it says.
LEMMA AnnouncementLeaves ==
    ASSUME machine = "VERIFYING", NEW m, Announces(m), Applied(m)
    PROVE  machine' = IF m = "READY" THEN "RUNNING" ELSE "DEGRADED"
<1>1. Target(m) = IF m = "READY" THEN "RUNNING" ELSE "DEGRADED"
    BY DEF Announces, Target, Verdict
<1>. QED  BY <1>1, VerifyingOpens DEF Applied, Operational

\* The reader takes the markers in the order they were printed in.
LEMMA ReaderInOrder ==
    ASSUME MonitorTypeOK, OpeningInOrder, ReaderApplies
    PROVE  OpeningInOrder'
<1>1. /\ pipe \in Seq(Markers) /\ pipe # <<>>
      /\ Applied(pipe[1]) /\ pipe[1] \in Markers
      /\ pipe' = Tail(pipe) /\ UNCHANGED <<phase, verified>>
    BY DEF ReaderApplies, MonitorTypeOK, helperVars
<1>2. PICK n \in Nat : Len(pipe) = n
    BY <1>1
<1>3. /\ n >= 1 /\ Len(pipe') = n - 1
      /\ \A i \in 1..(n - 1) : pipe'[i] = pipe[i + 1]
      /\ pipe' = <<>> <=> n = 1
    BY <1>1, <1>2
<1>4. phase' \notin {"pipe", "routes"}
    BY <1>1 DEF OpeningInOrder
<1>5. phase' = "verify" => pipe' = <<>>
    <2>1. ASSUME phase = "verify" PROVE pipe = <<"ACTIVE">>
        BY <1>1, <2>1 DEF OpeningInOrder
    <2>. QED  BY <2>1, <1>1
<1>6. ASSUME NEW i \in 1..Len(pipe')
      PROVE  pipe'[i] # "ACTIVE"
    <2>1. i + 1 \in 1..n /\ i + 1 # 1 /\ pipe'[i] = pipe[i + 1]
        BY <1>3
    <2>. QED  BY <1>2, <2>1 DEF OpeningInOrder
<1>7. ASSUME machine' = "VERIFYING"
      PROVE  IF pipe' = <<>> THEN phase' = "verify" ELSE Announces(pipe[1])'
    <2>1. machine # "VERIFYING"
        BY <1>1, <1>7, AnnouncementLeaves DEF OpeningInOrder
    <2>2. pipe[1] = "ACTIVE"
        BY <1>1, <1>7, <2>1, OnlyActiveOpens
    <2>3. IF n = 1 THEN phase = "verify" ELSE Announces(pipe[2])
        BY <1>2, <1>3, <2>2 DEF OpeningInOrder
    <2>4. CASE n = 1
        BY <1>1, <1>3, <2>3, <2>4
    <2>5. CASE n # 1
        <3>1. pipe'[1] = pipe[2] /\ pipe' # <<>>
            BY <1>3, <2>5
        <3>. QED  BY <1>1, <2>3, <2>5, <3>1 DEF Announces
    <2>. QED  BY <2>4, <2>5
<1>. QED  BY <1>4, <1>5, <1>6, <1>7 DEF OpeningInOrder

\* A new helper has an empty pipe.
LEMMA RelaunchInOrder == ASSUME Relaunch PROVE OpeningInOrder'
BY DEF Relaunch, OpeningInOrder

\* The rest of the dashboard enters VERIFYING in no other way.
LEMMA DashStepInOrder ==
    ASSUME MonitorTypeOK, OpeningInOrder, DashStep \/ UserStarts
    PROVE  OpeningInOrder'
<1>1. ASSUME UNCHANGED <<phase, verified, pipe>>,
             machine' = "VERIFYING" => machine = "VERIFYING"
      PROVE  OpeningInOrder'
    BY <1>1 DEF OpeningInOrder, Announces
<1>2. CASE StaleLeaves
    BY <1>1, <1>2 DEF StaleLeaves, helperVars
<1>3. CASE ReaderSeesExit
    <2>1. machine' \in {machine, "STOPPING", "STOPPED"}
        BY <1>3, MoveEnds DEF ReaderSeesExit
    <2>2. phase' = "off" /\ pipe' = <<>> /\ machine # "VERIFYING"
        BY <1>3 DEF ReaderSeesExit, OpeningInOrder
    <2>. QED  BY <2>1, <2>2 DEF OpeningInOrder
<1>4. CASE DelayRuns
    BY <1>1, <1>4 DEF DelayRuns, helperVars
<1>5. CASE ProxyWaitBegins
    <2>1. machine' \in {machine, "RECOVERING"}
        BY <1>5, MoveEnds DEF ProxyWaitBegins
    <2>. QED  BY <1>1, <1>5, <2>1 DEF ProxyWaitBegins, helperVars
<1>6. CASE ProxyWaitEnds
    BY <1>1, <1>6 DEF ProxyWaitEnds, helperVars
<1>. QED  BY <1>2, <1>3, <1>4, <1>5, <1>6, ReaderInOrder, RelaunchInOrder
             DEF DashStep, EngineRestarts, UserStarts

\* So every step keeps the order.
LEMMA NextInOrder ==
    ASSUME MonitorTypeOK, OpeningInOrder, [MonitorNext]_monitorVars
    PROVE  OpeningInOrder'
<1>1. CASE UNCHANGED monitorVars
    BY <1>1 DEF OpeningInOrder, Announces, monitorVars, helperVars, dashVars
<1>2. CASE WorldChanges
    BY <1>2
       DEF WorldChanges, OpeningInOrder, Announces, helperVars, dashVars
<1>. QED  BY <1>1, <1>2, HelperStepInOrder, DashStepInOrder DEF MonitorNext

\* The first RUNNING of a start is the word of the helper that now runs, which has
\* seen its own traffic pass, whatever stands in the pipe and whatever the helper
\* before it printed last (wait_for_tunnel_stable, launch._read).
THEOREM FirstRunning ==
    MonitorSpec => FirstRunningVerified
<1>1. MonitorInit => OpeningInOrder
    BY DEF MonitorInit, OpeningInOrder
<1>2. MonitorSpec => []OpeningInOrder
    BY <1>1, NextInOrder, MonitorTypes, PTL DEF MonitorSpec
<1>3. ASSUME MonitorTypeOK, OpeningInOrder, [MonitorNext]_monitorVars,
             machine = "VERIFYING", machine' = "RUNNING"
      PROVE  verified
    <2>1. ~UNCHANGED machine
        BY <1>3
    <2>2. ReaderApplies
        <3>1. ~WorldChanges /\ ~UNCHANGED monitorVars
            BY <2>1 DEF WorldChanges, monitorVars, dashVars
        <3>2. ~HelperStep
            BY <2>1
               DEF HelperStep, PipeStarts, RoutesIn, Verified,
                   MonitorBegins, SocksChecked, ProbeSkipped,
                   ProbePasses, ProbeFails, ProbeDue, LeakChecked,
                   HealBegins, HealEnds, ForwarderMissed, dashVars
        <3>3. ~StaleLeaves /\ ~DelayRuns /\ ~ProxyWaitEnds /\ ~Relaunch
            BY <1>3
               DEF StaleLeaves, DelayRuns, ProxyWaitEnds, Relaunch
        <3>4. ~ReaderSeesExit /\ ~ProxyWaitBegins
            BY <1>3, MoveEnds DEF ReaderSeesExit, ProxyWaitBegins
        <3>. QED  BY <1>3, <3>1, <3>2, <3>3, <3>4
                     DEF MonitorNext, DashStep, EngineRestarts, UserStarts
    <2>3. pipe # <<>> /\ Applied(pipe[1]) /\ Announces(pipe[1])
        BY <1>3, <2>2 DEF ReaderApplies, OpeningInOrder, MonitorTypeOK
    <2>4. pipe[1] = "READY"
        BY <1>3, <2>3, AnnouncementLeaves
    <2>. QED  BY <2>3, <2>4 DEF Announces
<1>4. MonitorTypeOK /\ OpeningInOrder /\ [MonitorNext]_monitorVars
          => [machine = "VERIFYING" /\ machine' = "RUNNING" => verified]_monitorVars
    BY <1>3
<1>. QED  BY <1>2, <1>4, MonitorTypes, PTL DEF MonitorSpec, FirstRunningVerified
=============================================================================
