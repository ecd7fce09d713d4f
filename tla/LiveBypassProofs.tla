-------------------------- MODULE LiveBypassProofs --------------------------
(***************************************************************************)
(* Theorems about the routes the dashboard installs itself, for any        *)
(* entries, addresses and gateways and any number of keys, roams, turns,   *)
(* thefts and failures: when [Q] is done none of these routes is left, and *)
(* a route that is shown as direct stays direct while it is moved.         *)
(*                                                                         *)
(* The sweep at the end reads ledgers.  That it catches everything is      *)
(* inductive only with what a move does to a ledger and a table that       *)
(* others use: the row of a prefix is on the gateway there is, unless a    *)
(* move has yet to take it there, which then holds exactly the rows that   *)
(* are elsewhere.                                                          *)
(***************************************************************************)
EXTENDS LiveBypass, TLAPS

\* A theft may come at any time; of the other perils each breaks one of them.
Calm == Perils \subseteq {"theft at work"}

Links    == Hosts \X Gateways
HostRows == table \cap Links
States   == {None} \cup [ip : Answers \cup {None}, ok : BOOLEAN, routed : BOOLEAN,
                         due : BOOLEAN]
Works    == [at : {"idle", "look", "install", "commit", "settle"},
             todo : SUBSET Entries, e : Entries \cup {None}, ip : Answers \cup {None},
             why : {None, "changed", "heal", "same", "retry"},
             row : Links \cup {None}]
Moves    == [at : {"idle", "read", "add", "delete", "claim"},
             rows : SUBSET Links, to : Gateways \cup {None}]
Repoints == [at : {"idle", "add", "delete", "claim", "next", "leaving"},
             from : Gateways \cup {None}, to : Gateways \cup {None},
             rows : SUBSET ({Country} \X Gateways)]
Jobs     == [at : {"idle", "sweep", "install", "note"}, to : Gateways \cup {None},
             again : SUBSET Links, put : BOOLEAN]

Typed ==
    /\ table \subseteq Rows /\ ledger \subseteq Links
    /\ geo \subseteq {Country} \X Gateways /\ gateway \in Gateways
    /\ list \subseteq Entries /\ drop \subseteq Hosts
    /\ st \in [Entries -> States] /\ cache \in [Entries -> Answers \cup {None}]
    /\ answer \in [Entries -> Answers]
    /\ res \in Works /\ move \in [1..MaxRoams -> Moves]
    /\ gmove \in Repoints /\ gjob \in Jobs
    /\ roams \in 0..MaxRoams /\ turns \in Nat /\ steals \in Nat
    /\ gmove.at \in {"add", "delete", "claim"} => gmove.to \in Gateways
    /\ gjob.at \in {"install", "note"} => gjob.to \in Gateways

Adrift(k) == move[k].at \in {"add", "delete", "claim"}
Behind    == notices # <<>> \/ \E k \in 1..MaxRoams : move[k].at # "idle"

\* One marker at a time, and one worker for it.
OneRoam ==
    /\ notices = <<>> \/ /\ \E o \in Gateways : notices = << <<o, gateway>> >>
                         /\ gmove.at = "idle" /\ roams \in 1..MaxRoams
    /\ \A k \in 1..MaxRoams : move[k].at # "idle" => k = roams /\ notices = <<>>
    /\ gnext = None
    /\ turns # 0 => roams = MaxRoams /\ ~Following

\* Nobody but the resolver is at work while a roam is followed, and it has no
\* row in its hands; and none is at work when [Q] has begun to sweep.
Undisturbed ==
    /\ Following => /\ stop = "run" /\ drop = {} /\ gjob.at = "idle"
                    /\ res.at # "commit" /\ (res.at = "settle" => res.row = None)
    /\ stop # "run" => drop = {} /\ gjob.at = "idle"

AtEntry == res.at \in {"install", "commit", "settle"}

\* The resolver is about entries on the list, and puts in their rows over the
\* gateway there is.
ResolverKnows ==
    /\ res.at # "idle" => res.todo \subseteq list
    /\ AtEntry => res.e \in list /\ res.ip \in Answers
    /\ (res.at = "commit" \/ (res.at = "settle" /\ res.row # None))
          => res.row = << <<res.e, res.ip>>, gateway >>

\* Of a name that is off the list nothing is known.
Listed == \A e \in Entries \ list : st[e] = None /\ cache[e] = None

\* Until a name changes its address, what is known of it is true, and what the
\* ledger names is known.
Answered ==
    turns = 0 =>
        /\ \A e \in Entries : /\ st[e] = None \/ st[e].ip \in {None, answer[e]}
                              /\ cache[e] \in {None, answer[e]}
        /\ \A r \in ledger : cache[r[1][1]] = r[1][2]
        /\ AtEntry => /\ res.ip = answer[res.e]
                      /\ res.why = "retry" => cache[res.e] = res.ip

EntryInv == ResolverKnows /\ Listed /\ Answered

\* A route of an entry is in the ledger, or in the hand of the resolver, of a
\* worker that deletes it, or of a move.
Covered ==
    \A r \in HostRows :
        \/ r \in ledger
        \/ res.at = "settle" /\ r = res.row
        \/ r[1] \in drop
        \/ \E k \in 1..MaxRoams : move[k].at \in {"delete", "claim"} /\ r \in Replacements(k)

\* It is on the gateway there is, unless it has yet to be moved.
Steady == ~Behind => \A r \in ledger \cup HostRows : r[2] = gateway

MoveKnows ==
    \A k \in 1..MaxRoams :
        /\ Adrift(k) => /\ move[k].to = gateway
                        /\ move[k].rows = {r \in ledger : r[2] # gateway}
        /\ move[k].at = "claim" => \A r \in HostRows : r[2] = gateway

RowInv == Covered /\ Steady /\ MoveKnows

\* What [R] will put back is in the ledger.
JobKnows == gjob.at = "install" => gjob.again \subseteq ledger

\* What [Q] has swept stays away.
Swept ==
    /\ stop \in {"hosts", "flush", "done"} => CountryRows(table) = {}
    /\ QuitLeavesNothing

\* A move has put in the new row of each it is about to delete.
Replaced ==
    steals = 0 => \A k \in 1..MaxRoams :
        move[k].at = "delete" => Replacements(k) \subseteq table

BypassInv ==
    Typed /\ OneRoam /\ Undisturbed /\ EntryInv /\ RowInv /\ JobKnows /\ Swept /\ Replaced

-----------------------------------------------------------------------------
(* The constants.                                                           *)

LEMMA LinkFacts ==
    /\ Country \notin Hosts /\ None \notin Links /\ None \notin Answers
    /\ None \notin Entries /\ None \notin Gateways /\ "tun" \notin Gateways
    /\ \A r \in Links : r[1] \in Hosts /\ r[2] \in Gateways /\ r = <<r[1], r[2]>>
    /\ \A p \in Hosts : p[1] \in Entries /\ p[2] \in Answers /\ p = <<p[1], p[2]>>
    /\ \A r \in CountryRows(table) : r \notin Links
    /\ Links \subseteq Rows /\ Links \subseteq Pinned
    /\ {Country} \X Gateways \subseteq Rows /\ ({Country} \X Gateways) \cap Links = {}
    /\ MaxRoams \in Nat
BY BypassAssumption DEF Links, Hosts, Rows, Pinned, CountryRows

LEMMA CalmMeans ==
    ASSUME Calm
    PROVE  \A x \in AllPerils \ {"theft at work"} : x \notin Perils
BY DEF Calm, AllPerils

-----------------------------------------------------------------------------
(* What keeps each part of the invariant.                                   *)

LEMMA OneRoamKept ==
    ASSUME OneRoam,
           UNCHANGED <<notices, move, gmove, gnext, gateway, roams, turns>>
    PROVE  OneRoam'
BY DEF OneRoam, Following

LEMMA UndisturbedKept ==
    ASSUME Undisturbed, UNCHANGED <<notices, move, gmove, stop, gjob>>,
           drop' \subseteq drop,
           Following => /\ res'.at # "commit"
                        /\ res'.at = "settle" => res'.row = None
    PROVE  Undisturbed'
BY DEF Undisturbed, Following

LEMMA EntryKept ==
    ASSUME EntryInv, UNCHANGED <<list, st, cache, answer, turns, res, gateway>>,
           ledger' \subseteq ledger
    PROVE  EntryInv'
BY DEF EntryInv, ResolverKnows, Listed, Answered, AtEntry

LEMMA RowsKept ==
    ASSUME RowInv, UNCHANGED <<ledger, gateway, notices, move, drop>>,
           HostRows' \subseteq HostRows,
           res.at = "settle" /\ res.row # None =>
              res'.at = "settle" /\ res'.row = res.row,
           None \notin Links
    PROVE  RowInv'
<1>1. Covered'
  <2> SUFFICES ASSUME NEW r \in HostRows'
               PROVE  \/ r \in ledger
                      \/ res'.at = "settle" /\ r = res'.row
                      \/ r[1] \in drop
                      \/ \E k \in 1..MaxRoams :
                           move[k].at \in {"delete", "claim"} /\ r \in Replacements(k)
    BY DEF Covered, Replacements
  <2>1. r \in HostRows /\ r # None
    BY DEF HostRows
  <2> QED
    BY <2>1 DEF RowInv, Covered
<1>2. Steady'
  BY DEF RowInv, Steady, Behind
<1>3. MoveKnows'
  BY DEF RowInv, MoveKnows, Adrift
<1> QED
  BY <1>1, <1>2, <1>3 DEF RowInv

LEMMA JobKept ==
    ASSUME JobKnows, UNCHANGED gjob, ledger \subseteq ledger'
    PROVE  JobKnows'
BY DEF JobKnows

LEMMA SweptKept ==
    ASSUME Swept, UNCHANGED stop,
           stop = "done" => table' \subseteq table,
           CountryRows(table') \subseteq CountryRows(table)
    PROVE  Swept'
BY DEF Swept, QuitLeavesNothing, CountryRows

LEMMA ReplacedKept ==
    ASSUME Replaced, UNCHANGED <<move, steals>>, HostRows \subseteq table',
           Typed, RowInv
    PROVE  Replaced'
<1> SUFFICES ASSUME steals = 0, NEW k \in 1..MaxRoams, move[k].at = "delete",
                    NEW r \in Replacements(k)
             PROVE  r \in table'
  BY DEF Replaced, Replacements
<1>1. PICK q \in move[k].rows : r = <<q[1], move[k].to>>
  BY DEF Replacements
<1>2. move[k] \in Moves /\ q \in Links /\ move[k].to \in Gateways
  BY DEF Typed, Moves, RowInv, MoveKnows, Adrift
<1>3. r \in Links /\ r \in table
  BY <1>1, <1>2 DEF Links, Replaced
<1> QED
  BY <1>3 DEF HostRows

-----------------------------------------------------------------------------
(* The resolver.                                                            *)

\* What it leaves alone.
ResolverFrame == UNCHANGED <<geo, network, notices, list, drop, move, geojobs,
                             stop, keys>>

LEMMA RestIs ==
    ASSUME NEW todo \in SUBSET Entries
    PROVE  /\ Rest(todo) \in Works /\ Rest(todo).row = None
           /\ Rest(todo).at \in {"idle", "look"} /\ Rest(todo).todo = todo
           /\ Resting \in Works /\ Resting.at = "idle"
<1>1. Resting \in Works /\ Resting.at = "idle" /\ Resting.todo = {} /\ Resting.row = None
  BY DEF Resting, Works
<1>2. CASE todo = {}
  BY <1>1, <1>2 DEF Rest
<1>3. CASE todo # {}
  BY <1>3 DEF Rest, Resting, Works
<1> QED
  BY <1>1, <1>2, <1>3

\* It disturbs nothing that is not its own or an entry's, as long as the table
\* is untouched and it has no row in hand before or after.
LEMMA HandsFree ==
    ASSUME BypassInv, ResolverFrame, UNCHANGED <<table, ledger>>,
           res.row = None \/ res.at # "settle",
           res'.at # "commit", res'.at = "settle" => res'.row = None
    PROVE  OneRoam' /\ Undisturbed' /\ RowInv' /\ JobKnows' /\ Swept' /\ Replaced'
<1>1. OneRoam'
  BY OneRoamKept DEF BypassInv, ResolverFrame, network, geojobs
<1>2. Undisturbed'
  BY UndisturbedKept DEF BypassInv, ResolverFrame, network, geojobs
<1>3. RowInv'
  BY RowsKept, LinkFacts DEF BypassInv, ResolverFrame, network, HostRows
<1>4. JobKnows'
  BY JobKept DEF BypassInv, ResolverFrame, geojobs
<1>5. Swept'
  BY SweptKept DEF BypassInv, ResolverFrame
<1>6. Replaced'
  BY ReplacedKept DEF BypassInv, ResolverFrame, network, HostRows
<1> QED
  BY <1>1, <1>2, <1>3, <1>4, <1>5, <1>6

LEMMA TickPreserves ==
    ASSUME BypassInv, Tick
    PROVE  BypassInv'
<1> DEFINE gone == {e \in Entries \ list : st[e] # None}
           due  == {e \in list : st[e] = None \/ st[e].due}
           new  == {e \in due : st[e] = None}
<1>1. /\ st' = [e \in Entries |-> IF e \in gone THEN None
                                  ELSE IF e \in new THEN Unknown ELSE st[e]]
      /\ cache' = [e \in Entries |-> IF e \in gone THEN None ELSE cache[e]]
      /\ res' = Rest(due)
      /\ ResolverFrame /\ UNCHANGED <<table, ledger>> /\ res.at = "idle"
  BY DEF Tick, ResolverFrame, network
<1>2. Unknown \in States /\ None \in States /\ Unknown.ip = None
  BY DEF Unknown, States
<1>3. due \in SUBSET Entries /\ due \subseteq list
  BY DEF BypassInv, Typed
<1>4. res' \in Works /\ res'.at \in {"idle", "look"} /\ res'.todo = due
      /\ res'.row = None
  BY <1>1, <1>3, RestIs
<1>5. OneRoam' /\ Undisturbed' /\ RowInv' /\ JobKnows' /\ Swept' /\ Replaced'
  BY <1>1, <1>4, HandsFree
<1>6. st' \in [Entries -> States] /\ cache' \in [Entries -> Answers \cup {None}]
  BY <1>1, <1>2 DEF BypassInv, Typed
<1>7. Typed'
  BY <1>1, <1>4, <1>6 DEF BypassInv, Typed, ResolverFrame, network, geojobs
<1>8. ResolverKnows'
  BY <1>1, <1>3, <1>4 DEF ResolverKnows, AtEntry, ResolverFrame
<1>9. Listed'
  BY <1>1, <1>3 DEF BypassInv, EntryInv, Listed, ResolverFrame
<1>10. cache' = cache
  BY <1>1 DEF BypassInv, EntryInv, Listed, Typed
<1>11. \A e \in Entries : st'[e] \in {None, Unknown, st[e]}
  BY <1>1
<1>12. Answered'
  BY <1>1, <1>2, <1>4, <1>10, <1>11
  DEF BypassInv, EntryInv, Answered, AtEntry, ResolverFrame, network
<1> QED
  BY <1>5, <1>7, <1>8, <1>9, <1>12 DEF BypassInv, EntryInv

LEMMA LookPreserves ==
    ASSUME BypassInv, Look
    PROVE  BypassInv'
<1>1. /\ res.at = "look" /\ ResolverFrame
      /\ UNCHANGED <<table, ledger, cache>>
  BY DEF Look, ResolverFrame, network
<1>2. PICK e \in res.todo :
        /\ st' = [st EXCEPT ![e] = IF st[e] = None THEN Unknown ELSE st[e]]
        /\ \E why \in {"changed", "heal", "same"} :
             res' = [at |-> IF why = "same" THEN "settle" ELSE "install",
                     todo |-> res.todo \ {e}, e |-> e, ip |-> answer[e],
                     why |-> why, row |-> None]
  BY DEF Look
<1>3. PICK why \in {"changed", "heal", "same"} :
        res' = [at |-> IF why = "same" THEN "settle" ELSE "install",
                todo |-> res.todo \ {e}, e |-> e, ip |-> answer[e],
                why |-> why, row |-> None]
  BY <1>2
<1>4. /\ res'.at \in {"settle", "install"} /\ res'.todo = res.todo \ {e}
      /\ res'.e = e /\ res'.ip = answer[e] /\ res'.row = None
      /\ res'.why # "retry"
  BY <1>3
<1>5. e \in list /\ e \in Entries /\ answer[e] \in Answers /\ res.todo \subseteq list
  BY <1>1, <1>2 DEF BypassInv, EntryInv, ResolverKnows, Typed
<1>6. OneRoam' /\ Undisturbed' /\ RowInv' /\ JobKnows' /\ Swept' /\ Replaced'
  BY <1>1, <1>4, HandsFree
<1>7. Unknown \in States /\ None \in States /\ Unknown.ip = None
  BY DEF Unknown, States
<1>8. st' \in [Entries -> States] /\ \A d \in Entries : st'[d] \in {Unknown, st[d]}
  BY <1>2, <1>5, <1>7 DEF BypassInv, Typed
<1>9. res' \in Works
  BY <1>3, <1>5 DEF BypassInv, Typed, Works
<1>10. Typed'
  BY <1>1, <1>8, <1>9 DEF BypassInv, Typed, ResolverFrame, network, geojobs
<1>11. ResolverKnows'
  BY <1>1, <1>4, <1>5 DEF ResolverKnows, AtEntry, ResolverFrame
<1>12. Listed'
  BY <1>1, <1>2, <1>5 DEF BypassInv, EntryInv, Listed, Typed, ResolverFrame
<1>13. Answered'
  BY <1>1, <1>4, <1>5, <1>7, <1>8
  DEF BypassInv, EntryInv, Answered, AtEntry, ResolverFrame, network
<1> QED
  BY <1>6, <1>10, <1>11, <1>12, <1>13 DEF BypassInv, EntryInv

LEMMA LookFailsPreserves ==
    ASSUME BypassInv, LookFails
    PROVE  BypassInv'
<1>1. /\ res.at = "look" /\ ResolverFrame
      /\ UNCHANGED <<table, ledger, cache>>
  BY DEF LookFails, ResolverFrame, network
<1>2. PICK e \in res.todo :
        /\ st' = [st EXCEPT ![e] =
                    [IF st[e] = None THEN Unknown ELSE st[e]
                        EXCEPT !.ok = FALSE, !.due = FALSE]]
        /\ res' = Rest(res.todo \ {e})
  BY DEF LookFails
<1>3. e \in list /\ e \in Entries /\ res.todo \subseteq list /\ res.todo \in SUBSET Entries
  BY <1>1, <1>2 DEF BypassInv, EntryInv, ResolverKnows, Typed, Works
<1>4. res' \in Works /\ res'.at \in {"idle", "look"} /\ res'.todo = res.todo \ {e}
      /\ res'.row = None
  BY <1>2, <1>3, RestIs
<1>5. OneRoam' /\ Undisturbed' /\ RowInv' /\ JobKnows' /\ Swept' /\ Replaced'
  BY <1>1, <1>4, HandsFree
<1>6. Unknown \in States /\ Unknown.ip = None
  BY DEF Unknown, States
<1>7. st[e] \in States
  BY <1>3 DEF BypassInv, Typed
<1>8. st'[e] \in States
      /\ st'[e].ip = IF st[e] = None THEN None ELSE st[e].ip
  <2> DEFINE old == IF st[e] = None THEN Unknown ELSE st[e]
  <2>1. old \in [ip : Answers \cup {None}, ok : BOOLEAN, routed : BOOLEAN, due : BOOLEAN]
        /\ old.ip = IF st[e] = None THEN None ELSE st[e].ip
    BY <1>7 DEF States, Unknown
  <2>2. st'[e] = [old EXCEPT !.ok = FALSE, !.due = FALSE]
    BY <1>2, <1>3 DEF BypassInv, Typed
  <2> HIDE DEF old
  <2> QED
    BY <2>1, <2>2 DEF States
<1>9. st' \in [Entries -> States] /\ \A d \in Entries \ {e} : st'[d] = st[d]
  BY <1>2, <1>3, <1>8 DEF BypassInv, Typed
<1>10. Typed'
  BY <1>1, <1>4, <1>9 DEF BypassInv, Typed, ResolverFrame, network, geojobs
<1>11. ResolverKnows'
  BY <1>1, <1>3, <1>4 DEF ResolverKnows, AtEntry, ResolverFrame
<1>12. Listed'
  BY <1>1, <1>3, <1>9 DEF BypassInv, EntryInv, Listed, ResolverFrame
<1>13. Answered'
  BY <1>1, <1>3, <1>4, <1>8, <1>9
  DEF BypassInv, EntryInv, Answered, AtEntry, ResolverFrame, network
<1> QED
  BY <1>5, <1>10, <1>11, <1>12, <1>13 DEF BypassInv, EntryInv

\* What it does to the table, it does with the row of one entry over the
\* gateway there is.
LEMMA PreCleansPreserves ==
    ASSUME BypassInv, Calm, PreCleans
    PROVE  BypassInv'
<1> DEFINE p == <<res.e, res.ip>>
<1>1. /\ res.at = "install" /\ ~Following /\ ResolverFrame
      /\ UNCHANGED <<ledger, list, st, cache>>
  BY CalmMeans DEF PreCleans, ResolverFrame, network, entries, AllPerils
<1>2. PICK g \in Egress(p) : /\ table' = table \ {<<p, g>>, <<p, "tun">>}
                             /\ res' = [res EXCEPT !.at = "commit", !.row = <<p, g>>]
  BY DEF PreCleans
<1>3. res \in Works /\ res.e \in Entries /\ res.ip \in Answers /\ p \in Hosts
  BY <1>1 DEF BypassInv, Typed, EntryInv, ResolverKnows, AtEntry, Hosts
<1>4. g = gateway
  <2>1. \A h \in Gateways : <<p, h>> \in table => h = gateway
    BY <1>1, <1>3 DEF BypassInv, RowInv, Steady, Behind, Following, HostRows, Links
  <2> QED
    BY <1>2, <2>1 DEF Egress
<1>5. <<p, gateway>> \in Links
  BY <1>3 DEF Links, BypassInv, Typed
<1>6. res' \in Works /\ res'.at = "commit" /\ res'.row = <<p, gateway>>
      /\ res'.todo = res.todo /\ res'.e = res.e /\ res'.ip = res.ip
      /\ res'.why = res.why
  <2>1. res' = [res EXCEPT !.at = "commit", !.row = <<p, gateway>>]
    BY <1>2, <1>4
  <2> HIDE DEF p
  <2> QED
    BY <2>1, <1>3, <1>5 DEF Works
<1>7. OneRoam'
  BY <1>1, OneRoamKept DEF BypassInv, ResolverFrame, network, geojobs
<1>8. Undisturbed'
  BY <1>1, UndisturbedKept DEF BypassInv, ResolverFrame, network, geojobs
<1>9. RowInv'
  BY <1>1, <1>2, RowsKept, LinkFacts
  DEF BypassInv, ResolverFrame, network, HostRows
<1>10. JobKnows'
  BY <1>1, JobKept DEF BypassInv, ResolverFrame, geojobs
<1>11. Swept'
  BY <1>1, <1>2, SweptKept DEF BypassInv, ResolverFrame, CountryRows
<1>12. Replaced'
  <2>1. \A k \in 1..MaxRoams : move[k].at = "idle"
    BY <1>1 DEF Following
  <2> QED
    BY <1>1, <2>1 DEF Replaced, ResolverFrame
<1>13. Typed'
  BY <1>1, <1>2, <1>6 DEF BypassInv, Typed, ResolverFrame, network, geojobs
<1>14. EntryInv'
  BY <1>1, <1>6
  DEF BypassInv, EntryInv, ResolverKnows, Listed, Answered, AtEntry,
      ResolverFrame, network
<1> QED
  BY <1>7, <1>8, <1>9, <1>10, <1>11, <1>12, <1>13, <1>14 DEF BypassInv

LEMMA CommitsPreserves ==
    ASSUME BypassInv, Commits
    PROVE  BypassInv'
<1> DEFINE p == <<res.e, res.ip>>
           row == <<p, gateway>>
<1>1. /\ res.at = "commit" /\ ResolverFrame /\ ~Following /\ stop # "done"
      /\ UNCHANGED <<ledger, list, st, cache>>
  BY DEF Commits, ResolverFrame, network, entries, BypassInv, Undisturbed
<1>2. /\ res.row = row /\ res.e \in list /\ res.ip \in Answers /\ row \in Links
  BY <1>1
  DEF BypassInv, Typed, EntryInv, ResolverKnows, AtEntry, Links, Hosts
<1>3. \/ table' = table \cup {row} /\ res' = [res EXCEPT !.at = "settle"]
      \/ table' = table /\ res' = [res EXCEPT !.at = "settle", !.row = None]
  BY <1>2 DEF Commits
<1>4. res' \in Works /\ res'.at = "settle" /\ res'.todo = res.todo
      /\ res'.e = res.e /\ res'.ip = res.ip /\ res'.why = res.why
      /\ res'.row = IF table' = table /\ res'.row = None THEN None ELSE row
  <2>1. res \in Works
    BY DEF BypassInv, Typed
  <2> HIDE DEF row
  <2> QED
    BY <1>2, <1>3, <2>1 DEF Works
<1>5. \A k \in 1..MaxRoams : move[k].at = "idle"
  BY <1>1 DEF Following
<1>6. OneRoam'
  BY <1>1, OneRoamKept DEF BypassInv, ResolverFrame, network, geojobs
<1>7. Undisturbed'
  BY <1>1, UndisturbedKept DEF BypassInv, ResolverFrame, network, geojobs
<1>8. RowInv'
  <2>1. Covered'
    <3> SUFFICES ASSUME NEW r \in HostRows'
                 PROVE  r \in ledger \/ r = res'.row \/ r[1] \in drop
      BY <1>1, <1>4 DEF Covered, ResolverFrame
    <3>1. CASE r \in HostRows
      BY <1>1, <1>5, <3>1 DEF BypassInv, RowInv, Covered
    <3>2. CASE r \notin HostRows
      <4>1. table' # table /\ r = row
        BY <1>3, <3>2 DEF HostRows
      <4> QED
        BY <1>4, <4>1
    <3> QED
      BY <3>1, <3>2
  <2>2. \A r \in HostRows' : r \in HostRows \/ r = row
    BY <1>3 DEF HostRows
  <2>3. Steady'
    BY <1>1, <2>2 DEF BypassInv, RowInv, Steady, Behind, ResolverFrame, network
  <2>4. MoveKnows'
    BY <1>1, <1>5 DEF MoveKnows, Adrift, ResolverFrame
  <2> QED
    BY <2>1, <2>3, <2>4 DEF RowInv
<1>9. JobKnows'
  BY <1>1, JobKept DEF BypassInv, ResolverFrame, geojobs
<1>10. Swept'
  <2>1. CountryRows(table') \subseteq CountryRows(table)
    BY <1>2, <1>3, LinkFacts DEF CountryRows, Links
  <2> QED
    BY <1>1, <2>1, SweptKept DEF BypassInv, ResolverFrame
<1>11. Replaced'
  BY <1>1, <1>5 DEF Replaced, ResolverFrame
<1>12. Typed'
  <2>1. table' \subseteq Rows
    BY <1>2, <1>3, LinkFacts DEF BypassInv, Typed
  <2> QED
    BY <1>1, <1>4, <2>1 DEF BypassInv, Typed, ResolverFrame, network, geojobs
<1>13. EntryInv'
  BY <1>1, <1>2, <1>4
  DEF BypassInv, EntryInv, ResolverKnows, Listed, Answered, AtEntry,
      ResolverFrame, network
<1> QED
  BY <1>6, <1>7, <1>8, <1>9, <1>10, <1>11, <1>12, <1>13 DEF BypassInv

\* Its row goes into the ledger.
LEMMA NotedIs ==
    ASSUME BypassInv, res.at = "settle"
    PROVE  /\ ledger \subseteq Noted /\ Noted \subseteq Links
           /\ Following => Noted = ledger
           /\ \A r \in Noted \ ledger : r = << <<res.e, res.ip>>, gateway >>
           /\ res.row # None => res.row \in Noted
BY DEF Noted, BypassInv, Typed, Works, Undisturbed, EntryInv, ResolverKnows

LEMMA NotingKeeps ==
    ASSUME BypassInv, ResolverFrame, res.at = "settle", ledger' = Noted,
           table' = table, res'.at \in {"idle", "look", "install"}
    PROVE  OneRoam' /\ Undisturbed' /\ RowInv' /\ JobKnows' /\ Swept' /\ Replaced'
<1>1. OneRoam'
  BY OneRoamKept DEF BypassInv, ResolverFrame, network, geojobs
<1>2. Undisturbed'
  BY UndisturbedKept DEF BypassInv, ResolverFrame, network, geojobs
<1>3. RowInv'
  <2>1. Covered'
    <3> SUFFICES ASSUME NEW r \in HostRows
                 PROVE  \/ r \in ledger' \/ r[1] \in drop
                        \/ \E k \in 1..MaxRoams : /\ move[k].at \in {"delete", "claim"}
                                                  /\ r \in Replacements(k)
      BY DEF Covered, HostRows, ResolverFrame, Replacements
    <3> QED
      BY NotedIs, LinkFacts DEF BypassInv, RowInv, Covered, HostRows
  <2>2. Steady'
    BY NotedIs DEF BypassInv, RowInv, Steady, Behind, ResolverFrame, network, HostRows
  <2>3. MoveKnows'
    <3>1. CASE Following
      BY <3>1, NotedIs
      DEF BypassInv, RowInv, MoveKnows, Adrift, ResolverFrame, network, HostRows
    <3>2. CASE ~Following
      BY <3>2 DEF Following, MoveKnows, Adrift, ResolverFrame
    <3> QED
      BY <3>1, <3>2
  <2> QED
    BY <2>1, <2>2, <2>3 DEF RowInv
<1>4. JobKnows'
  BY NotedIs, JobKept DEF BypassInv, ResolverFrame, geojobs
<1>5. Swept'
  BY SweptKept DEF BypassInv, ResolverFrame
<1>6. Replaced'
  BY ReplacedKept DEF BypassInv, ResolverFrame, network, HostRows
<1> QED
  BY <1>1, <1>2, <1>3, <1>4, <1>5, <1>6

LEMMA SettlesPreserves ==
    ASSUME BypassInv, Settles
    PROVE  BypassInv'
<1>1. /\ res.at = "settle" /\ ResolverFrame /\ table' = table
      /\ ledger' = Noted /\ cache' = [cache EXCEPT ![res.e] = res.ip]
  BY DEF Settles, ResolverFrame, network
<1>2. PICK routed \in BOOLEAN :
        /\ st' = [st EXCEPT ![res.e] = [ip |-> res.ip, ok |-> TRUE,
                                        routed |-> routed, due |-> FALSE]]
        /\ \/ res' = Rest(res.todo)
           \/ res' = [res EXCEPT !.at = "install", !.why = "retry", !.row = None]
  <2> DEFINE old == IF st[res.e] = None THEN Unknown ELSE st[res.e]
             put == res.row # None \/ (res.why = "same" /\ old.routed)
  <2>1. put \in BOOLEAN
    OBVIOUS
  <2>2. /\ st' = [st EXCEPT ![res.e] = [ip |-> res.ip, ok |-> TRUE,
                                        routed |-> put, due |-> FALSE]]
        /\ \/ res' = Rest(res.todo)
           \/ res' = [res EXCEPT !.at = "install", !.why = "retry", !.row = None]
    BY DEF Settles
  <2> HIDE DEF put
  <2> QED
    BY <2>1, <2>2
<1>3. /\ res \in Works /\ res.e \in list /\ res.e \in Entries
      /\ res.ip \in Answers /\ res.todo \subseteq list /\ res.todo \in SUBSET Entries
  BY <1>1 DEF BypassInv, EntryInv, ResolverKnows, AtEntry, Typed, Works
<1>4. /\ res' \in Works /\ res'.at \in {"idle", "look", "install"}
      /\ res'.todo = res.todo /\ res'.row = None
      /\ res'.at = "install" => res'.e = res.e /\ res'.ip = res.ip
  <2>1. CASE res' = Rest(res.todo)
    BY <1>3, <2>1, RestIs
  <2>2. CASE res' = [res EXCEPT !.at = "install", !.why = "retry", !.row = None]
    BY <1>3, <2>2 DEF Works
  <2> QED
    BY <1>2, <2>1, <2>2
<1>5. OneRoam' /\ Undisturbed' /\ RowInv' /\ JobKnows' /\ Swept' /\ Replaced'
  BY <1>1, <1>4, NotingKeeps
<1>6. /\ st' \in [Entries -> States] /\ cache' \in [Entries -> Answers \cup {None}]
      /\ st'[res.e].ip = res.ip /\ cache'[res.e] = res.ip
      /\ \A d \in Entries \ {res.e} : st'[d] = st[d] /\ cache'[d] = cache[d]
  BY <1>1, <1>2, <1>3 DEF BypassInv, Typed, States
<1>7. ledger' \subseteq Links
      /\ \A r \in ledger' : r \in ledger \/ r = << <<res.e, res.ip>>, gateway >>
  BY <1>1, NotedIs
<1>8. Typed'
  BY <1>1, <1>4, <1>6, <1>7 DEF BypassInv, Typed, ResolverFrame, network, geojobs
<1>9. ResolverKnows'
  BY <1>1, <1>3, <1>4 DEF ResolverKnows, AtEntry, ResolverFrame
<1>10. Listed'
  BY <1>1, <1>3, <1>6 DEF BypassInv, EntryInv, Listed, ResolverFrame
<1>11. ASSUME turns = 0
       PROVE  /\ \A e \in Entries : /\ st'[e] = None \/ st'[e].ip \in {None, answer[e]}
                                    /\ cache'[e] \in {None, answer[e]}
              /\ \A r \in ledger' : cache'[r[1][1]] = r[1][2]
  <2>1. res.ip = answer[res.e]
    BY <1>1, <1>11 DEF BypassInv, EntryInv, Answered, AtEntry
  <2>2. \A e \in Entries : /\ st'[e] = None \/ st'[e].ip \in {None, answer[e]}
                           /\ cache'[e] \in {None, answer[e]}
    BY <1>6, <1>11, <2>1 DEF BypassInv, EntryInv, Answered
  <2>3. ASSUME NEW r \in ledger' PROVE cache'[r[1][1]] = r[1][2]
    <3>1. CASE r \in ledger
      <4>1. r \in Links /\ r[1][1] \in Entries /\ r[1][2] \in Answers
        BY <3>1, LinkFacts DEF BypassInv, Typed
      <4>2. cache[r[1][1]] = r[1][2]
        BY <1>11, <3>1 DEF BypassInv, EntryInv, Answered
      <4>3. cache[r[1][1]] = answer[r[1][1]]
        BY <1>11, <4>1, <4>2, LinkFacts DEF BypassInv, EntryInv, Answered
      <4> QED
        BY <1>6, <2>1, <4>1, <4>2, <4>3
    <3>2. CASE r = << <<res.e, res.ip>>, gateway >>
      BY <1>6, <3>2
    <3> QED
      BY <1>7, <3>1, <3>2
  <2> QED
    BY <2>2, <2>3
<1>12. Answered'
  BY <1>1, <1>4, <1>6, <1>11
  DEF BypassInv, EntryInv, Answered, AtEntry, ResolverFrame, network
<1> QED
  BY <1>5, <1>8, <1>9, <1>10, <1>12 DEF BypassInv, EntryInv

LEMMA SettlesRetryPreserves ==
    ASSUME BypassInv, SettlesRetry
    PROVE  BypassInv'
<1>1. /\ res.at = "settle" /\ res.why = "retry" /\ ResolverFrame
      /\ table' = table /\ cache' = cache /\ ledger' = Noted
      /\ res' = Rest(res.todo) \/ res' = Resting
      /\ st' = st \/ (st[res.e] # None /\ st' = [st EXCEPT ![res.e].routed = TRUE])
  BY DEF SettlesRetry, ResolverFrame, network
<1>2. /\ res.e \in list /\ res.e \in Entries
      /\ res.ip \in Answers /\ res.todo \subseteq list /\ res.todo \in SUBSET Entries
  BY <1>1 DEF BypassInv, EntryInv, ResolverKnows, AtEntry, Typed, Works
<1>3. /\ res' \in Works /\ res'.at \in {"idle", "look"} /\ res'.row = None
      /\ res'.at = "look" => res'.todo \subseteq list
  <2>1. CASE res' = Rest(res.todo)
    BY <1>2, <2>1, RestIs
  <2>2. CASE res' = Resting
    BY <2>2 DEF Resting, Works
  <2> QED
    BY <1>1, <2>1, <2>2
<1>4. OneRoam' /\ Undisturbed' /\ RowInv' /\ JobKnows' /\ Swept' /\ Replaced'
  BY <1>1, <1>3, NotingKeeps
<1>5. /\ st' \in [Entries -> States]
      /\ \A d \in Entries : st'[d] = st[d] \/ (st[d] # None /\ st'[d].ip = st[d].ip)
  <2>1. CASE st' = st
    BY <2>1 DEF BypassInv, Typed
  <2>2. CASE st[res.e] # None /\ st' = [st EXCEPT ![res.e].routed = TRUE]
    <3>1. st[res.e] \in [ip : Answers \cup {None}, ok : BOOLEAN, routed : BOOLEAN,
                         due : BOOLEAN]
      BY <1>2, <2>2 DEF BypassInv, Typed, States
    <3>2. /\ [st[res.e] EXCEPT !.routed = TRUE] \in States
          /\ [st[res.e] EXCEPT !.routed = TRUE].ip = st[res.e].ip
      BY <3>1 DEF States
    <3> QED
      BY <1>2, <2>2, <3>2 DEF BypassInv, Typed
  <2> QED
    BY <1>1, <2>1, <2>2
<1>6. ledger' \subseteq Links
      /\ \A r \in ledger' : r \in ledger \/ r = << <<res.e, res.ip>>, gateway >>
  BY <1>1, NotedIs
<1>7. Typed'
  BY <1>1, <1>3, <1>5, <1>6 DEF BypassInv, Typed, ResolverFrame, network, geojobs
<1>8. ResolverKnows'
  BY <1>1, <1>3 DEF ResolverKnows, AtEntry, ResolverFrame
<1>9. Listed'
  BY <1>1, <1>5 DEF BypassInv, EntryInv, Listed, Typed, ResolverFrame
<1>10. Answered'
  <2>1. turns = 0 => cache[res.e] = res.ip
    BY <1>1 DEF BypassInv, EntryInv, Answered, AtEntry
  <2> QED
    BY <1>1, <1>3, <1>5, <1>6, <2>1
    DEF BypassInv, EntryInv, Answered, AtEntry, ResolverFrame, network
<1> QED
  BY <1>4, <1>7, <1>8, <1>9, <1>10 DEF BypassInv, EntryInv

-----------------------------------------------------------------------------
(* The list.                                                                *)

\* What is known of an entry is not what the routes depend on.
LEMMA ListFrame ==
    ASSUME BypassInv, UNCHANGED <<table, ledger, geo, network, notices, res, drop,
                                  move, geojobs, stop>>
    PROVE  /\ OneRoam' /\ Undisturbed' /\ RowInv' /\ JobKnows' /\ Swept' /\ Replaced'
           /\ list' \subseteq Entries /\ st' \in [Entries -> States]
              /\ cache' \in [Entries -> Answers \cup {None}] => Typed'
<1>1. OneRoam'
  BY OneRoamKept DEF BypassInv, network, geojobs
<1>2. Undisturbed'
  BY UndisturbedKept DEF BypassInv, geojobs, Undisturbed
<1>3. RowInv'
  BY RowsKept, LinkFacts DEF BypassInv, network, HostRows
<1>4. JobKnows' /\ Swept'
  BY JobKept, SweptKept DEF BypassInv, geojobs
<1>5. Replaced'
  BY ReplacedKept DEF BypassInv, network, HostRows
<1> QED
  BY <1>1, <1>2, <1>3, <1>4, <1>5 DEF BypassInv, Typed, network, geojobs

LEMMA TurnsDuePreserves ==
    ASSUME BypassInv, NEW e \in Entries, TurnsDue(e)
    PROVE  BypassInv'
<1>1. UNCHANGED <<table, ledger, geo, network, notices, list, cache, res, drop,
                  move, geojobs, stop>>
  BY DEF TurnsDue
<1>2. st[e] # None /\ st' = [st EXCEPT ![e].due = TRUE]
  BY DEF TurnsDue
<1>3. st[e] \in [ip : Answers \cup {None}, ok : BOOLEAN, routed : BOOLEAN,
                 due : BOOLEAN]
  BY <1>2 DEF BypassInv, Typed, States
<1>4. /\ [st[e] EXCEPT !.due = TRUE] \in States
      /\ [st[e] EXCEPT !.due = TRUE].ip = st[e].ip
  BY <1>3 DEF States
<1>5. /\ st' \in [Entries -> States] /\ st'[e].ip = st[e].ip
      /\ \A d \in Entries \ {e} : st'[d] = st[d]
  BY <1>2, <1>4 DEF BypassInv, Typed
<1>6. Typed' /\ OneRoam' /\ Undisturbed' /\ RowInv' /\ JobKnows' /\ Swept' /\ Replaced'
  BY <1>1, <1>5, ListFrame DEF BypassInv, Typed
<1>7. EntryInv'
  BY <1>1, <1>2, <1>5
  DEF BypassInv, EntryInv, ResolverKnows, Listed, Answered, AtEntry, network
<1> QED
  BY <1>6, <1>7 DEF BypassInv

LEMMA AddEntryPreserves ==
    ASSUME BypassInv, NEW e \in Entries, AddEntry(e)
    PROVE  BypassInv'
<1>1. /\ UNCHANGED <<table, ledger, geo, network, notices, cache, res, drop, move,
                     geojobs, stop>>
      /\ list' = list \cup {e}
  BY DEF AddEntry, Press
<1>2. st' = [st EXCEPT ![e] = IF st[e] = None \/ ~st[e].ok THEN Unknown
                              ELSE [st[e] EXCEPT !.due = TRUE]]
  BY DEF AddEntry
<1>3. Unknown \in States /\ Unknown.ip = None
  BY DEF Unknown, States
<1>4. st[e] # None => /\ [st[e] EXCEPT !.due = TRUE] \in States
                      /\ [st[e] EXCEPT !.due = TRUE].ip = st[e].ip
  <2>1. st[e] \in States
    BY DEF BypassInv, Typed
  <2> QED
    BY <2>1 DEF States
<1>5. /\ st' \in [Entries -> States]
      /\ st'[e].ip = None \/ (st[e] # None /\ st'[e].ip = st[e].ip)
      /\ \A d \in Entries \ {e} : st'[d] = st[d]
  BY <1>2, <1>3, <1>4 DEF BypassInv, Typed
<1>6. Typed' /\ OneRoam' /\ Undisturbed' /\ RowInv' /\ JobKnows' /\ Swept' /\ Replaced'
  BY <1>1, <1>5, ListFrame DEF BypassInv, Typed
<1>7. EntryInv'
  BY <1>1, <1>5
  DEF BypassInv, EntryInv, ResolverKnows, Listed, Answered, AtEntry, network
<1> QED
  BY <1>6, <1>7 DEF BypassInv

\* No thread has the entry in hand: what the ledger forgets is what the worker
\* is to delete, and nothing of the entry is left in it.
LEMMA RemoveEntryPreserves ==
    ASSUME BypassInv, Calm, NEW e \in Entries, RemoveEntry(e)
    PROVE  BypassInv'
<1> DEFINE known == IF st[e] # None /\ st[e].ip # None THEN st[e].ip
                    ELSE IF cache[e] # None THEN cache[e] ELSE answer[e]
<1>1. /\ e \in list /\ stop = "run" /\ ~InHand(e)
      /\ list' = list \ {e}
      /\ st' = [st EXCEPT ![e] = None] /\ cache' = [cache EXCEPT ![e] = None]
      /\ UNCHANGED <<table, geo, network, notices, res, move, geojobs, stop>>
  BY CalmMeans DEF RemoveEntry, Press, AllPerils
<1>2. /\ ledger' = {r \in ledger : r[1] # <<e, known>>}
      /\ drop' = drop \cup {<<e, known>>}
  BY DEF RemoveEntry
<1>3. /\ ~Following /\ gjob.at = "idle"
      /\ res.at # "idle" => res.e # e /\ e \notin res.todo
  BY <1>1 DEF InHand
<1>4. known \in Answers
  <2>1. st[e] \in States /\ cache[e] \in Answers \cup {None} /\ answer[e] \in Answers
    BY DEF BypassInv, Typed
  <2>2. st[e] # None => st[e].ip \in Answers \cup {None}
    BY <2>1 DEF States
  <2> QED
    BY <2>1, <2>2
<1>5. \A k \in 1..MaxRoams : move[k].at = "idle"
  BY <1>3 DEF Following
<1>6. OneRoam'
  BY <1>1, OneRoamKept DEF BypassInv, network, geojobs
<1>7. Undisturbed'
  BY <1>1, <1>3 DEF Undisturbed, Following, geojobs
<1>8. RowInv'
  <2>1. Covered'
    <3> HIDE DEF known
    <3> SUFFICES ASSUME NEW r \in HostRows
                 PROVE  r \in ledger' \/ (res.at = "settle" /\ r = res.row) \/ r[1] \in drop'
      BY <1>1 DEF Covered, HostRows
    <3>1. r \in ledger \/ (res.at = "settle" /\ r = res.row) \/ r[1] \in drop
      BY <1>5 DEF BypassInv, RowInv, Covered
    <3> QED
      BY <1>2, <3>1
  <2>2. Steady'
    BY <1>1, <1>2 DEF BypassInv, RowInv, Steady, Behind, HostRows, network
  <2>3. MoveKnows'
    BY <1>1, <1>5 DEF MoveKnows, Adrift
  <2> QED
    BY <2>1, <2>2, <2>3 DEF RowInv
<1>9. JobKnows'
  BY <1>1, <1>3 DEF JobKnows, geojobs
<1>10. Swept' /\ Replaced'
  BY <1>1, <1>5, SweptKept DEF BypassInv, Replaced
<1>11. Typed'
  <2>1. /\ st' \in [Entries -> States] /\ cache' \in [Entries -> Answers \cup {None}]
        /\ list' \subseteq Entries
    BY <1>1 DEF BypassInv, Typed, States
  <2>2. drop' \subseteq Hosts /\ ledger' \subseteq Links
    BY <1>2, <1>4 DEF BypassInv, Typed, Hosts
  <2> QED
    BY <1>1, <2>1, <2>2 DEF BypassInv, Typed, network, geojobs
<1>12. EntryInv'
  <2>1. ResolverKnows'
    BY <1>1, <1>3 DEF BypassInv, EntryInv, ResolverKnows, AtEntry, network
  <2>2. Listed'
    BY <1>1 DEF BypassInv, EntryInv, Listed, Typed
  <2>3. ASSUME turns = 0, NEW r \in ledger', r[1][1] = e PROVE FALSE
    <3>1. r \in ledger /\ r \in Links /\ r[1] # <<e, known>>
      BY <1>2, <2>3 DEF BypassInv, Typed
    <3>2. r[1] = <<e, r[1][2]>> /\ r[1][2] \in Answers
      BY <2>3, <3>1, LinkFacts
    <3>3. cache[e] = r[1][2] /\ cache[e] # None
      BY <2>3, <3>1, <3>2, LinkFacts DEF BypassInv, EntryInv, Answered
    <3>4. known = r[1][2]
      BY <2>3, <3>3 DEF BypassInv, EntryInv, Answered
    <3> HIDE DEF known
    <3> QED
      BY <3>1, <3>2, <3>4
  <2>4. /\ \A d \in Entries \ {e} : st'[d] = st[d] /\ cache'[d] = cache[d]
        /\ st'[e] = None /\ cache'[e] = None
    BY <1>1 DEF BypassInv, Typed
  <2>5. \A r \in ledger' : r \in ledger /\ r[1][1] \in Entries
    BY <1>2, LinkFacts DEF BypassInv, Typed
  <2>6. AtEntry => res.e # e /\ res.e \in Entries
    BY <1>3 DEF AtEntry, BypassInv, EntryInv, ResolverKnows, Typed
  <2>7. Answered'
    BY <1>1, <2>3, <2>4, <2>5, <2>6
    DEF BypassInv, EntryInv, Answered, AtEntry, network
  <2> QED
    BY <2>1, <2>2, <2>7 DEF EntryInv
<1> QED
  BY <1>6, <1>7, <1>8, <1>9, <1>10, <1>11, <1>12 DEF BypassInv

\* The delete finds the row, which is on the gateway there is.
LEMMA DropRunsPreserves ==
    ASSUME BypassInv, NEW p \in Hosts, DropRuns(p)
    PROVE  BypassInv'
<1>1. /\ stop # "done" /\ p \in drop /\ drop' = drop \ {p}
      /\ UNCHANGED <<ledger, geo, network, notices, entries, res, move, geojobs,
                     stop>>
  BY DEF DropRuns
<1>2. PICK g \in Egress(p) : table' = table \ {<<p, g>>}
  BY DEF DropRuns
<1>3. ~Following
  BY <1>1 DEF BypassInv, Undisturbed
<1>4. \A k \in 1..MaxRoams : move[k].at = "idle"
  BY <1>3 DEF Following
<1>5. \A h \in Gateways : <<p, h>> \in table => h = gateway
  BY <1>3 DEF BypassInv, RowInv, Steady, Behind, Following, HostRows, Links
<1>6. g = gateway
  BY <1>2, <1>5 DEF Egress
<1>7. \A r \in HostRows' : r \in HostRows /\ r[1] # p
  <2> SUFFICES ASSUME NEW r \in HostRows'
               PROVE  r \in HostRows /\ r[1] # p
    OBVIOUS
  <2>1. r \in table /\ r # <<p, gateway>> /\ r \in Links
    BY <1>2, <1>6 DEF HostRows
  <2>2. r = <<r[1], r[2]>> /\ r[2] \in Gateways
    BY <2>1, LinkFacts
  <2> QED
    BY <1>5, <2>1, <2>2 DEF HostRows
<1>8. OneRoam'
  BY <1>1, OneRoamKept DEF BypassInv, network, geojobs
<1>9. Undisturbed'
  BY <1>1, UndisturbedKept DEF BypassInv, geojobs, Undisturbed
<1>10. RowInv'
  <2>1. Covered'
    <3> SUFFICES ASSUME NEW r \in HostRows'
                 PROVE  r \in ledger \/ (res.at = "settle" /\ r = res.row) \/ r[1] \in drop'
      BY <1>1 DEF Covered
    <3>1. r \in HostRows /\ r[1] # p
      BY <1>7
    <3>2. r \in ledger \/ (res.at = "settle" /\ r = res.row) \/ r[1] \in drop
      BY <1>4, <3>1 DEF BypassInv, RowInv, Covered
    <3> QED
      BY <1>1, <3>1, <3>2
  <2>2. Steady'
    BY <1>1, <1>7 DEF BypassInv, RowInv, Steady, Behind, network
  <2>3. MoveKnows'
    BY <1>1, <1>4 DEF MoveKnows, Adrift
  <2> QED
    BY <2>1, <2>2, <2>3 DEF RowInv
<1>11. JobKnows'
  BY <1>1, JobKept DEF BypassInv, geojobs
<1>12. Swept' /\ Replaced'
  BY <1>1, <1>2, <1>4, SweptKept DEF BypassInv, Replaced, CountryRows
<1>13. Typed'
  BY <1>1, <1>2 DEF BypassInv, Typed, network, geojobs, entries
<1>14. EntryInv'
  BY <1>1, EntryKept DEF BypassInv, entries, network
<1> QED
  BY <1>8, <1>9, <1>10, <1>11, <1>12, <1>13, <1>14 DEF BypassInv

-----------------------------------------------------------------------------
(* A change of gateway.                                                     *)

LEMMA RoamsPreserves ==
    ASSUME BypassInv, Calm, Roams
    PROVE  BypassInv'
<1>1. /\ stop = "run" /\ roams < MaxRoams /\ ~Following /\ res.at = "idle"
      /\ drop = {} /\ gjob.at = "idle" /\ roams' = roams + 1
      /\ UNCHANGED <<table, ledger, geo, entries, answer, res, drop, move, geojobs,
                     stop, turns, steals>>
  BY CalmMeans DEF Roams, AllPerils
<1>2. PICK g \in Gateways : gateway' = g /\ notices' = Append(notices, <<gateway, g>>)
  BY DEF Roams
<1>3. /\ notices = <<>> /\ gmove.at = "idle" /\ \A k \in 1..MaxRoams : move[k].at = "idle"
  BY <1>1 DEF Following
<1>4. notices' = << <<gateway, g>> >> /\ gateway \in Gateways /\ gateway' = g
      /\ notices' # <<>>
  BY <1>2, <1>3 DEF BypassInv, Typed
<1>5. roams' \in 1..MaxRoams /\ turns = 0
  BY <1>1, LinkFacts DEF BypassInv, Typed, OneRoam
<1>6. OneRoam'
  BY <1>1, <1>3, <1>4, <1>5 DEF BypassInv, OneRoam, geojobs
<1>7. Undisturbed'
  BY <1>1 DEF Undisturbed, geojobs
<1>8. RowInv'
  <2>1. Covered'
    BY <1>1 DEF BypassInv, RowInv, Covered, HostRows, Replacements
  <2>2. Steady'
    BY <1>4 DEF Steady, Behind
  <2>3. MoveKnows'
    BY <1>1, <1>3 DEF MoveKnows, Adrift
  <2> QED
    BY <2>1, <2>2, <2>3 DEF RowInv
<1>9. JobKnows' /\ Swept' /\ Replaced'
  BY <1>1, <1>3, JobKept, SweptKept DEF BypassInv, Replaced, geojobs
<1>10. Typed'
  BY <1>1, <1>4, <1>5 DEF BypassInv, Typed, geojobs, entries
<1>11. EntryInv'
  BY <1>1
  DEF BypassInv, EntryInv, ResolverKnows, Listed, Answered, AtEntry, entries
<1> QED
  BY <1>6, <1>7, <1>8, <1>9, <1>10, <1>11 DEF BypassInv

\* The one marker there is, and the one worker for it.
LEMMA OnGatewayChangedPreserves ==
    ASSUME BypassInv, OnGatewayChanged
    PROVE  BypassInv'
<1>1. /\ stop = "run" /\ notices # <<>>
      /\ UNCHANGED <<table, ledger, geo, network, entries, res, drop, gjob, stop>>
  BY DEF OnGatewayChanged
<1>2. PICK o \in Gateways : notices = << <<o, gateway>> >>
  BY <1>1 DEF BypassInv, OneRoam
<1>3. /\ gmove.at = "idle" /\ roams \in 1..MaxRoams
      /\ \A k \in 1..MaxRoams : move[k].at = "idle"
  BY <1>1 DEF BypassInv, OneRoam
<1>4. Len(notices) = 1 /\ Head(notices) = <<o, gateway>> /\ Tail(notices) = <<>>
  BY <1>2
<1>5. /\ move' = [move EXCEPT ![roams].at = "read"] /\ notices' = <<>>
      /\ gmove' = [NoRepoint EXCEPT !.at = "add", !.from = o, !.to = gateway]
      /\ gnext' = gnext
  <2>1. roams - Len(notices) + 1 = roams
    BY <1>3, <1>4
  <2>2. move' = [move EXCEPT ![roams - Len(notices) + 1].at = "read"]
    BY DEF OnGatewayChanged
  <2>3. /\ gmove' = [NoRepoint EXCEPT !.at = "add", !.from = Head(notices)[1],
                                       !.to = Head(notices)[2]]
        /\ gnext' = gnext /\ notices' = Tail(notices)
    BY <1>3 DEF OnGatewayChanged
  <2>4. Head(notices)[1] = o /\ Head(notices)[2] = gateway
    BY <1>4
  <2>5. move' = [move EXCEPT ![roams].at = "read"]
    BY <2>1, <2>2, Zenon
  <2>6. gmove' = [NoRepoint EXCEPT !.at = "add", !.from = o, !.to = gateway]
    BY <2>3, <2>4, Zenon
  <2> QED
    BY <1>4, <2>3, <2>5, <2>6
<1>6. /\ gateway \in Gateways /\ move \in [1..MaxRoams -> Moves]
      /\ move' \in [1..MaxRoams -> Moves] /\ move'[roams].at = "read"
      /\ \A k \in 1..MaxRoams \ {roams} : move'[k] = move[k]
  <2>1. move \in [1..MaxRoams -> Moves] /\ gateway \in Gateways
    BY DEF BypassInv, Typed
  <2>2. [move[roams] EXCEPT !.at = "read"] \in Moves
    BY <1>3, <2>1 DEF Moves
  <2> QED
    BY <1>3, <1>5, <2>1, <2>2 DEF Moves
<1>7. gmove' \in Repoints /\ gmove'.at = "add" /\ gmove'.to = gateway
  BY <1>5, <1>6 DEF NoRepoint, Repoints
<1>8. Following /\ Following' /\ Behind'
  BY <1>1, <1>3, <1>6 DEF Following, Behind
<1>9. OneRoam'
  <2>1. turns = 0
    BY <1>8 DEF BypassInv, OneRoam
  <2> QED
    BY <1>1, <1>3, <1>5, <1>6, <2>1 DEF BypassInv, OneRoam, network
<1>10. Undisturbed'
  BY <1>1, <1>8 DEF BypassInv, Undisturbed
<1>11. RowInv'
  <2>1. Covered'
    <3> SUFFICES ASSUME NEW r \in HostRows
                 PROVE  r \in ledger
      BY <1>1 DEF Covered, HostRows
    <3> QED
      BY <1>3, <1>8, LinkFacts
      DEF BypassInv, RowInv, Covered, Undisturbed, HostRows
  <2>2. Steady'
    BY <1>8 DEF Steady
  <2>3. MoveKnows'
    BY <1>3, <1>6 DEF MoveKnows, Adrift
  <2> QED
    BY <2>1, <2>2, <2>3 DEF RowInv
<1>12. JobKnows' /\ Swept' /\ Replaced'
  BY <1>1, <1>3, <1>6, SweptKept DEF BypassInv, Replaced, JobKnows
<1>13. Typed'
  BY <1>1, <1>6, <1>7 DEF BypassInv, Typed, network, entries
<1>14. EntryInv'
  BY <1>1, EntryKept DEF BypassInv, entries, network
<1> QED
  BY <1>9, <1>10, <1>11, <1>12, <1>13, <1>14 DEF BypassInv

-----------------------------------------------------------------------------
(* The move of the entries.                                                 *)

\* What all of its steps have found.
LEMMA MovingMeans ==
    ASSUME BypassInv, NEW k \in 1..MaxRoams, move[k].at # "idle"
    PROVE  /\ k = roams /\ notices = <<>> /\ Behind /\ Following
           /\ stop = "run" /\ drop = {} /\ gjob.at = "idle" /\ turns = 0
           /\ \A j \in 1..MaxRoams \ {k} : move[j].at = "idle"
           /\ \A r \in HostRows :
                r \in ledger \/ (/\ move[k].at \in {"delete", "claim"}
                                 /\ r \in Replacements(k))
<1>1. k = roams /\ notices = <<>> /\ Behind /\ Following
      /\ \A j \in 1..MaxRoams \ {k} : move[j].at = "idle"
  BY DEF BypassInv, OneRoam, Behind, Following
<1>2. stop = "run" /\ drop = {} /\ gjob.at = "idle" /\ turns = 0
      /\ (res.at = "settle" => res.row = None)
  BY <1>1 DEF BypassInv, Undisturbed, OneRoam
<1> QED
  BY <1>1, <1>2, LinkFacts DEF BypassInv, RowInv, Covered, HostRows

\* And what they leave alone.
LEMMA MoveFrame ==
    ASSUME BypassInv, NEW k \in 1..MaxRoams, move[k].at # "idle",
           UNCHANGED <<geo, network, notices, entries, res, drop, geojobs, stop>>,
           CountryRows(table') = CountryRows(table), table' \subseteq Rows,
           ledger' \subseteq Links, NEW m \in Moves, move' = [move EXCEPT ![k] = m]
    PROVE  /\ Typed' /\ OneRoam' /\ Undisturbed' /\ JobKnows' /\ Swept'
           /\ move'[k] = m /\ \A j \in 1..MaxRoams \ {k} : move'[j].at = "idle"
<1>1. /\ k = roams /\ notices = <<>> /\ stop = "run" /\ drop = {}
      /\ gjob.at = "idle" /\ turns = 0 /\ Following
      /\ \A j \in 1..MaxRoams \ {k} : move[j].at = "idle"
  BY MovingMeans
<1>2. move' \in [1..MaxRoams -> Moves] /\ move'[k] = m
      /\ \A j \in 1..MaxRoams \ {k} : move'[j].at = "idle"
  BY <1>1 DEF BypassInv, Typed
<1>3. OneRoam'
  BY <1>1, <1>2 DEF BypassInv, OneRoam, network, geojobs
<1>4. Undisturbed'
  BY <1>1 DEF BypassInv, Undisturbed, geojobs
<1>5. JobKnows' /\ Swept'
  BY <1>1 DEF JobKnows, Swept, QuitLeavesNothing, geojobs
<1>6. Typed'
  BY <1>2 DEF BypassInv, Typed, network, geojobs, entries
<1> QED
  BY <1>2, <1>3, <1>4, <1>5, <1>6

\* No address has changed yet: the ledger names only what is known.
LEMMA MoveReadsPreserves ==
    ASSUME BypassInv, NEW k \in 1..MaxRoams, MoveReads(k)
    PROVE  BypassInv'
<1> DEFINE rows == {r \in ledger : r[2] # gateway}
           m == IF rows = {} THEN NoMove ELSE [at |-> "add", rows |-> rows, to |-> gateway]
<1>1. /\ move[k].at = "read"
      /\ UNCHANGED <<table, geo, network, notices, entries, res, drop, geojobs, stop>>
  BY DEF MoveReads
<1>2. turns = 0 /\ \A r \in HostRows : r \in ledger
  BY <1>1, MovingMeans
<1>3. \A r \in ledger : r \in Links /\ r[1] = <<r[1][1], r[1][2]>> /\ r[1][1] \in Entries
  BY LinkFacts DEF BypassInv, Typed
<1>4. {r \in ledger : r[1] \in Allowed} = ledger
  <2>1. \A r \in ledger : cache[r[1][1]] = r[1][2]
    BY <1>2 DEF BypassInv, EntryInv, Answered
  <2> QED
    BY <1>3, <2>1 DEF Allowed
<1>5. ledger' = ledger /\ move' = [move EXCEPT ![k] = m]
  BY <1>4 DEF MoveReads
<1>6. m \in Moves /\ m.at \in {"idle", "add"}
      /\ (m.at = "add" => m.to = gateway /\ m.rows = rows)
      /\ (m.at = "idle" => rows = {})
  BY DEF BypassInv, Typed, Moves, NoMove
<1> HIDE DEF m
<1>7. /\ Typed' /\ OneRoam' /\ Undisturbed' /\ JobKnows' /\ Swept'
      /\ move'[k] = m /\ \A j \in 1..MaxRoams \ {k} : move'[j].at = "idle"
  BY <1>1, <1>5, <1>6, MoveFrame DEF BypassInv, Typed
<1>8. EntryInv'
  BY <1>1, <1>5, EntryKept DEF BypassInv, entries, network
<1>9. Covered'
  BY <1>1, <1>2, <1>5 DEF Covered, HostRows
<1>10. Steady'
  <2> SUFFICES ASSUME ~Behind', NEW r \in ledger
               PROVE  r[2] = gateway
    BY <1>1, <1>2, <1>5 DEF Steady, HostRows, network
  <2>1. m.at = "idle"
    BY <1>7 DEF Behind
  <2> QED
    BY <1>6, <2>1
<1>11. MoveKnows'
  BY <1>1, <1>5, <1>6, <1>7 DEF MoveKnows, Adrift, network
<1>12. Replaced'
  BY <1>6, <1>7 DEF Replaced
<1> QED
  BY <1>7, <1>8, <1>9, <1>10, <1>11, <1>12 DEF BypassInv, RowInv

\* What a move holds, and puts in.
LEMMA MoveHolds ==
    ASSUME BypassInv, NEW k \in 1..MaxRoams, Adrift(k)
    PROVE  /\ move[k] \in Moves /\ move[k].to = gateway
           /\ move[k].rows = {r \in ledger : r[2] # gateway}
           /\ Replacements(k) \subseteq Links
           /\ \A r \in Replacements(k) : r[2] = gateway
           /\ \A q \in move[k].rows : <<q[1], gateway>> \in Replacements(k)
<1>1. /\ move[k] \in Moves /\ move[k].to = gateway
      /\ move[k].rows = {r \in ledger : r[2] # gateway} /\ gateway \in Gateways
      /\ ledger \subseteq Links
  BY DEF BypassInv, Typed, RowInv, MoveKnows
<1>2. \A q \in move[k].rows : <<q[1], gateway>> \in Links
  BY <1>1, LinkFacts DEF Links
<1> QED
  BY <1>1, <1>2 DEF Replacements

\* The steps that do not write the ledger.
LEMMA MoveSteps ==
    ASSUME BypassInv, NEW k \in 1..MaxRoams, Adrift(k),
           UNCHANGED <<ledger, geo, network, notices, entries, res, drop, geojobs,
                       stop>>,
           CountryRows(table') = CountryRows(table), table' \subseteq Rows,
           NEW at \in {"delete", "claim"}, move' = [move EXCEPT ![k].at = at],
           \A r \in HostRows' : r \in ledger \/ r \in Replacements(k),
           at = "claim" => \A r \in HostRows' : r[2] = gateway,
           at = "delete" => Replacements(k) \subseteq table'
    PROVE  BypassInv'
<1> DEFINE m == [move[k] EXCEPT !.at = at]
<1>1. /\ move' = [move EXCEPT ![k] = m]
      /\ m \in Moves /\ m.at = at /\ m.to = move[k].to /\ m.rows = move[k].rows
  BY MoveHolds DEF Moves
<1> HIDE DEF m
<1>2. /\ Typed' /\ OneRoam' /\ Undisturbed' /\ JobKnows' /\ Swept'
      /\ move'[k] = m /\ \A j \in 1..MaxRoams \ {k} : move'[j].at = "idle"
  BY <1>1, MoveFrame DEF BypassInv, Typed, Adrift
<1>3. EntryInv'
  BY EntryKept DEF BypassInv, entries, network
<1>4. Replacements(k)' = Replacements(k)
  BY <1>1, <1>2 DEF Replacements
<1>5. Covered'
  BY <1>1, <1>2, <1>4 DEF Covered
<1>6. Steady'
  BY <1>1, <1>2 DEF Steady, Behind
<1>7. MoveKnows'
  BY <1>1, <1>2, MoveHolds DEF MoveKnows, Adrift, network
<1>8. Replaced'
  BY <1>1, <1>2, <1>4 DEF Replaced
<1> QED
  BY <1>2, <1>3, <1>5, <1>6, <1>7, <1>8 DEF BypassInv, RowInv

LEMMA MoveAddsPreserves ==
    ASSUME BypassInv, Calm, NEW k \in 1..MaxRoams, MoveAdds(k)
    PROVE  BypassInv'
<1>1. /\ move[k].at = "add" /\ table' = table \cup Replacements(k)
      /\ move' = [move EXCEPT ![k].at = "delete"]
      /\ UNCHANGED <<ledger, geo, network, notices, entries, res, drop, geojobs,
                     stop>>
  BY CalmMeans DEF MoveAdds, AllPerils
<1>2. Adrift(k)
  BY <1>1 DEF Adrift
<1>3. Replacements(k) \subseteq Links
  BY <1>2, MoveHolds
<1>4. CountryRows(table') = CountryRows(table) /\ table' \subseteq Rows
  BY <1>1, <1>3, LinkFacts DEF CountryRows, BypassInv, Typed
<1>5. \A r \in HostRows' : r \in ledger \/ r \in Replacements(k)
  BY <1>1, MovingMeans DEF HostRows
<1> QED
  BY <1>1, <1>2, <1>4, <1>5, MoveSteps

LEMMA MoveDeletesPreserves ==
    ASSUME BypassInv, NEW k \in 1..MaxRoams, MoveDeletes(k)
    PROVE  BypassInv'
<1>1. /\ move[k].at = "delete" /\ table' = table \ move[k].rows
      /\ move' = [move EXCEPT ![k].at = "claim"]
      /\ UNCHANGED <<ledger, geo, network, notices, entries, res, drop, geojobs,
                     stop>>
  BY DEF MoveDeletes
<1>2. Adrift(k)
  BY <1>1 DEF Adrift
<1>3. /\ move[k].rows = {r \in ledger : r[2] # gateway}
      /\ \A r \in Replacements(k) : r[2] = gateway
  BY <1>2, MoveHolds
<1>4. CountryRows(table') = CountryRows(table) /\ table' \subseteq Rows
  <2>1. \A r \in move[k].rows : r[1] # Country
    BY <1>3, LinkFacts DEF BypassInv, Typed
  <2> QED
    BY <1>1, <2>1 DEF CountryRows, BypassInv, Typed
<1>5. \A r \in HostRows' : r \in ledger \/ r \in Replacements(k)
  BY <1>1, MovingMeans DEF HostRows
<1>6. \A r \in HostRows' : r[2] = gateway
  BY <1>1, <1>3, <1>5 DEF HostRows
<1> QED
  BY <1>1, <1>2, <1>4, <1>5, <1>6, MoveSteps

LEMMA MoveClaimsPreserves ==
    ASSUME BypassInv, NEW k \in 1..MaxRoams, MoveClaims(k)
    PROVE  BypassInv'
<1>1. /\ move[k].at = "claim" /\ move' = [move EXCEPT ![k] = NoMove]
      /\ ledger' = (ledger \ move[k].rows) \cup
                   {<<r[1], move[k].to>> : r \in move[k].rows \cap ledger}
      /\ UNCHANGED <<table, geo, network, notices, entries, res, drop, geojobs,
                     stop>>
  BY DEF MoveClaims
<1>2. Adrift(k)
  BY <1>1 DEF Adrift
<1>3. /\ move[k].rows = {r \in ledger : r[2] # gateway}
      /\ Replacements(k) \subseteq Links
      /\ \A r \in Replacements(k) : r[2] = gateway
  BY <1>2, MoveHolds
<1>4. ledger' = {r \in ledger : r[2] = gateway} \cup Replacements(k)
  <2>1. move[k].rows \cap ledger = move[k].rows
    BY <1>3
  <2> QED
    BY <1>1, <1>3, <2>1 DEF Replacements
<1>5. NoMove \in Moves /\ NoMove.at = "idle"
  BY DEF NoMove, Moves
<1>6. ledger' \subseteq Links
  BY <1>3, <1>4 DEF BypassInv, Typed
<1>7. /\ Typed' /\ OneRoam' /\ Undisturbed' /\ JobKnows' /\ Swept'
      /\ move'[k] = NoMove /\ \A j \in 1..MaxRoams \ {k} : move'[j].at = "idle"
  BY <1>1, <1>5, <1>6, MoveFrame DEF BypassInv, Typed
<1>8. \A j \in 1..MaxRoams : move'[j].at = "idle"
  BY <1>5, <1>7
<1>9. EntryInv'
  <2>1. turns = 0
    BY <1>1, MovingMeans
  <2>2. ASSUME NEW r \in ledger' PROVE \E q \in ledger : q[1] = r[1]
    <3>1. CASE r \in Replacements(k)
      BY <1>3, <3>1 DEF Replacements
    <3> QED
      BY <1>4, <2>2, <3>1
  <2>3. \A r \in ledger' : cache[r[1][1]] = r[1][2]
    BY <2>1, <2>2 DEF BypassInv, EntryInv, Answered
  <2> QED
    BY <1>1, <2>3
    DEF BypassInv, EntryInv, ResolverKnows, Listed, Answered, AtEntry, entries, network
<1>10. \A r \in HostRows : r \in ledger'
  <2>1. \A r \in HostRows : r[2] = gateway
    BY <1>1 DEF BypassInv, RowInv, MoveKnows
  <2> QED
    BY <1>1, <1>4, <2>1, MovingMeans
<1>11. Covered'
  BY <1>1, <1>10 DEF Covered, HostRows
<1>12. Steady'
  BY <1>1, <1>3, <1>4, <1>10 DEF Steady, HostRows, network
<1>13. MoveKnows' /\ Replaced'
  BY <1>8 DEF MoveKnows, Adrift, Replaced
<1> QED
  BY <1>7, <1>9, <1>11, <1>12, <1>13 DEF BypassInv, RowInv

-----------------------------------------------------------------------------
(* The country.                                                             *)

\* What its workers leave alone; the entries' rows may come back from [R]'s
\* copy of the ledger.
LEMMA CountryFrame ==
    ASSUME BypassInv, stop = "run",
           UNCHANGED <<ledger, network, notices, entries, res, drop, move, stop>>,
           \A r \in HostRows' : r \in HostRows \/ r \in ledger,
           (\E k \in 1..MaxRoams : move[k].at # "idle") => HostRows \subseteq table',
           ~Behind \/ HostRows' \subseteq HostRows
    PROVE  EntryInv' /\ RowInv' /\ Swept' /\ Replaced'
<1>1. EntryInv'
  BY EntryKept DEF BypassInv, entries, network
<1>2. Swept'
  BY DEF Swept, QuitLeavesNothing
<1>3. Covered'
  <2> SUFFICES ASSUME NEW r \in HostRows'
               PROVE  \/ r \in ledger
                      \/ res.at = "settle" /\ r = res.row
                      \/ r[1] \in drop
                      \/ \E k \in 1..MaxRoams :
                           move[k].at \in {"delete", "claim"} /\ r \in Replacements(k)
    BY DEF Covered, Replacements
  <2> QED
    BY DEF BypassInv, RowInv, Covered
<1>4. Steady'
  BY DEF BypassInv, RowInv, Steady, Behind, network
<1>5. MoveKnows'
  <2>1. CASE \A k \in 1..MaxRoams : move[k].at = "idle"
    BY <2>1 DEF MoveKnows, Adrift
  <2>2. CASE \E k \in 1..MaxRoams : move[k].at # "idle"
    <3>1. HostRows' \subseteq HostRows
      BY <2>2 DEF Behind
    <3> QED
      BY <3>1 DEF BypassInv, RowInv, MoveKnows, Adrift, network
  <2> QED
    BY <2>1, <2>2
<1>6. Replaced'
  <2>1. CASE \A k \in 1..MaxRoams : move[k].at = "idle"
    BY <2>1 DEF Replaced
  <2>2. CASE \E k \in 1..MaxRoams : move[k].at # "idle"
    BY <2>2, ReplacedKept DEF BypassInv, network
  <2> QED
    BY <2>1, <2>2
<1> QED
  BY <1>1, <1>2, <1>3, <1>4, <1>5, <1>6 DEF RowInv

\* A step of the worker that re-points it.
LEMMA GeoMoveFrame ==
    ASSUME BypassInv, gmove.at # "idle", gmove' \in Repoints,
           gmove'.at \in {"add", "delete", "claim"} => gmove'.to \in Gateways,
           gnext' = None, geo' \subseteq {Country} \X Gateways,
           UNCHANGED <<ledger, network, notices, entries, res, drop, move, gjob,
                       stop>>,
           table' \subseteq Rows, HostRows' = HostRows
    PROVE  BypassInv'
<1>1. /\ Following /\ stop = "run" /\ notices = <<>> /\ turns = 0
      /\ gnext = None /\ gjob.at = "idle" /\ drop = {}
  BY DEF Following, BypassInv, Undisturbed, OneRoam
<1>2. EntryInv' /\ RowInv' /\ Swept' /\ Replaced'
  BY <1>1, CountryFrame DEF HostRows
<1>3. OneRoam'
  BY <1>1 DEF BypassInv, OneRoam, network
<1>4. Undisturbed'
  BY <1>1 DEF BypassInv, Undisturbed
<1>5. JobKnows'
  BY <1>1 DEF JobKnows
<1>6. Typed'
  BY DEF BypassInv, Typed, network, entries
<1> QED
  BY <1>2, <1>3, <1>4, <1>5, <1>6 DEF BypassInv

LEMMA GeoMovePreserves ==
    ASSUME BypassInv, Calm, GeoMove
    PROVE  BypassInv'
<1>1. /\ gmove.at # "idle" /\ gmove \in Repoints /\ gnext = None
      /\ gmove.at \in {"add", "delete", "claim"} => gmove.to \in Gateways
      /\ table \subseteq Rows /\ geo \subseteq {Country} \X Gateways
      /\ UNCHANGED <<ledger, network, notices, entries, res, drop, move, gjob, stop>>
  BY DEF GeoMove, GeoMoveAdds, GeoMoveDeletes, GeoMoveClaims, GeoMoveNext,
         GeoMoveLeaves, BypassInv, Typed, OneRoam
<1>2. CASE GeoMoveAdds
  <2> DEFINE rows == {r \in geo : r[2] = gmove.from}
  <2>1. /\ gmove.at = "add" /\ gnext' = gnext /\ geo' = geo
        /\ \/ gmove' = [gmove EXCEPT !.at = "next"] /\ table' = table
           \/ /\ table' = table \cup {<<Country, gmove.to>>}
              /\ gmove' = [gmove EXCEPT !.at = "delete", !.rows = rows]
    BY <1>2, CalmMeans DEF GeoMoveAdds, AllPerils
  <2>2. rows \subseteq {Country} \X Gateways
    BY <1>1
  <2>3. gmove' \in Repoints /\ gmove'.to = gmove.to
    BY <1>1, <2>1, <2>2 DEF Repoints
  <2>4. table' \subseteq Rows /\ HostRows' = HostRows
    <3>1. <<Country, gmove.to>> \in ({Country} \X Gateways)
      BY <1>1, <2>1
    <3> QED
      BY <1>1, <2>1, <3>1, LinkFacts DEF HostRows
  <2> QED
    BY <1>1, <2>1, <2>3, <2>4, GeoMoveFrame
<1>3. CASE GeoMoveDeletes
  <2>1. /\ gmove.at = "delete" /\ gnext' = gnext /\ geo' = geo
        /\ table' = table \ gmove.rows /\ gmove' = [gmove EXCEPT !.at = "claim"]
    BY <1>3 DEF GeoMoveDeletes
  <2>2. gmove' \in Repoints /\ gmove'.to = gmove.to
        /\ gmove.rows \subseteq {Country} \X Gateways
    BY <1>1, <2>1 DEF Repoints
  <2>3. table' \subseteq Rows /\ HostRows' = HostRows
    BY <1>1, <2>1, <2>2, LinkFacts DEF HostRows
  <2> QED
    BY <1>1, <2>1, <2>2, <2>3, GeoMoveFrame
<1>4. CASE GeoMoveClaims
  <2>1. /\ gmove.at = "claim" /\ gnext' = gnext /\ table' = table
        /\ geo' = (geo \ gmove.rows) \cup
                  {<<Country, gmove.to>> : r \in gmove.rows \cap geo}
        /\ gmove' = [gmove EXCEPT !.at = "next"]
    BY <1>4 DEF GeoMoveClaims
  <2>2. gmove' \in Repoints /\ gmove'.at = "next"
    BY <1>1, <2>1 DEF Repoints
  <2>3. geo' \subseteq {Country} \X Gateways
    BY <1>1, <2>1
  <2> QED
    BY <1>1, <2>1, <2>2, <2>3, GeoMoveFrame DEF HostRows
<1>5. CASE GeoMoveNext
  <2>1. /\ gmove' = [NoRepoint EXCEPT !.at = "leaving"] /\ gnext' = None
        /\ table' = table /\ geo' = geo
    BY <1>1, <1>5 DEF GeoMoveNext
  <2>2. gmove' \in Repoints /\ gmove'.at = "leaving"
    BY <2>1 DEF Repoints, NoRepoint
  <2> QED
    BY <1>1, <2>1, <2>2, GeoMoveFrame DEF HostRows
<1>6. CASE GeoMoveLeaves
  <2>1. /\ gmove' = NoRepoint /\ gnext' = gnext /\ table' = table /\ geo' = geo
    BY <1>6 DEF GeoMoveLeaves
  <2>2. gmove' \in Repoints /\ gmove'.at = "idle"
    BY <2>1 DEF Repoints, NoRepoint
  <2> QED
    BY <1>1, <2>1, <2>2, GeoMoveFrame DEF HostRows
<1> QED
  BY <1>2, <1>3, <1>4, <1>5, <1>6 DEF GeoMove

LEMMA ReapplyPreserves ==
    ASSUME BypassInv, Calm, Reapply
    PROVE  BypassInv'
<1>1. /\ stop = "run" /\ ~Following /\ gjob' = [NoJob EXCEPT !.at = "sweep"]
      /\ UNCHANGED <<table, ledger, geo, network, notices, entries, res, drop, move,
                     gmove, gnext, stop>>
  BY CalmMeans DEF Reapply, Press, AllPerils
<1>2. gjob' \in Jobs /\ gjob'.at = "sweep"
  BY <1>1 DEF NoJob, Jobs
<1>3. EntryInv' /\ RowInv' /\ Swept' /\ Replaced'
  BY <1>1, CountryFrame DEF HostRows
<1>4. OneRoam'
  BY <1>1, OneRoamKept DEF BypassInv, network
<1>5. Undisturbed' /\ JobKnows'
  BY <1>1, <1>2 DEF Undisturbed, Following, JobKnows
<1>6. Typed'
  BY <1>1, <1>2 DEF BypassInv, Typed, network, entries
<1> QED
  BY <1>3, <1>4, <1>5, <1>6 DEF BypassInv

\* A step of [R]'s worker: no change of gateway is being followed.
LEMMA GeoJobFrame ==
    ASSUME BypassInv, gjob.at # "idle", gjob' \in Jobs,
           gjob'.at \in {"install", "note"} => gjob'.to \in Gateways,
           gjob'.at = "install" => gjob'.again \subseteq ledger,
           geo' \subseteq {Country} \X Gateways, table' \subseteq Rows,
           UNCHANGED <<ledger, network, notices, entries, res, drop, move, gmove,
                       gnext, stop>>,
           \A r \in HostRows' : r \in HostRows \/ r \in ledger
    PROVE  BypassInv'
<1>1. ~Following /\ stop = "run"
  BY DEF BypassInv, Undisturbed
<1>2. ~Behind /\ \A k \in 1..MaxRoams : move[k].at = "idle"
  BY <1>1 DEF Following, Behind
<1>3. EntryInv' /\ RowInv' /\ Swept' /\ Replaced'
  BY <1>1, <1>2, CountryFrame
<1>4. OneRoam'
  BY OneRoamKept DEF BypassInv, network
<1>5. Undisturbed' /\ JobKnows'
  BY <1>1 DEF Undisturbed, Following, JobKnows
<1>6. Typed'
  BY DEF BypassInv, Typed, network, entries
<1> QED
  BY <1>3, <1>4, <1>5, <1>6 DEF BypassInv

\* What [R] puts back replaces rows of the same prefixes.
LEMMA ReassertIs ==
    ASSUME BypassInv, gjob.at = "install", NEW t \in SUBSET Rows,
           NEW u \in Reassert(t)
    PROVE  /\ u \subseteq Rows
           /\ \A r \in u : r \in t \/ r \in ledger
           /\ \A r \in t : r \in u \/ \E q \in u : q \in Links /\ q[1] = r[1]
<1>1. PICK last \in SUBSET gjob.again :
        u = (t \ {r \in Rows : \E s \in last : s[1] = r[1]}) \cup last
  BY DEF Reassert
<1>2. last \subseteq ledger /\ last \subseteq Links /\ Links \subseteq Rows
  BY LinkFacts DEF BypassInv, JobKnows, Typed
<1> QED
  BY <1>1, <1>2

LEMMA GeoJobPreserves ==
    ASSUME BypassInv, GeoJob
    PROVE  BypassInv'
<1>1. /\ gjob.at # "idle" /\ gjob \in Jobs /\ gateway \in Gateways
      /\ table \subseteq Rows /\ geo \subseteq {Country} \X Gateways
      /\ ledger \subseteq Links
      /\ gjob.at \in {"install", "note"} => gjob.to \in Gateways
      /\ UNCHANGED <<ledger, network, notices, entries, res, drop, move, gmove,
                     gnext, stop>>
  BY DEF GeoJob, GeoSweeps, GeoInstalls, GeoNotes, BypassInv, Typed
<1>2. CASE GeoSweeps
  <2>1. /\ table' = table \ CountryRows(table) /\ geo' = {}
        /\ gjob' = [at |-> "install", to |-> gateway, again |-> ledger, put |-> FALSE]
    BY <1>2 DEF GeoSweeps
  <2>2. gjob' \in Jobs /\ gjob'.to = gateway /\ gjob'.again = ledger
    BY <1>1, <2>1 DEF Jobs
  <2> QED
    BY <1>1, <2>1, <2>2, GeoJobFrame DEF HostRows
<1>3. CASE GeoInstalls
  <2>1. /\ gjob.at = "install" /\ geo' = geo
        /\ \/ /\ table' \in Reassert(table \cup {<<Country, gjob.to>>})
              /\ gjob' = [gjob EXCEPT !.at = "note", !.put = TRUE]
           \/ /\ table' \in Reassert(table)
              /\ gjob' = [gjob EXCEPT !.at = "note"]
    BY <1>3 DEF GeoInstalls
  <2>2. gjob' \in Jobs /\ gjob'.at = "note" /\ gjob'.to = gjob.to
    BY <1>1, <2>1 DEF Jobs
  <2>3. table' \subseteq Rows /\ \A r \in HostRows' : r \in HostRows \/ r \in ledger
    <3>1. table \cup {<<Country, gjob.to>>} \in SUBSET Rows
          /\ <<Country, gjob.to>> \notin Links
      BY <1>1, <2>1, LinkFacts
    <3>2. CASE table' \in Reassert(table \cup {<<Country, gjob.to>>})
      BY <2>1, <3>1, <3>2, ReassertIs DEF HostRows
    <3>3. CASE table' \in Reassert(table)
      BY <1>1, <2>1, <3>3, ReassertIs DEF HostRows
    <3> QED
      BY <2>1, <3>2, <3>3
  <2> QED
    BY <1>1, <2>1, <2>2, <2>3, GeoJobFrame
<1>4. CASE GeoNotes
  <2>1. /\ gjob.at = "note" /\ table' = table
        /\ geo' = IF gjob.put THEN geo \cup {<<Country, gjob.to>>} ELSE geo
        /\ gjob' = NoJob
    BY <1>4 DEF GeoNotes
  <2>2. gjob' \in Jobs /\ gjob'.at = "idle"
    BY <2>1 DEF NoJob, Jobs
  <2>3. geo' \subseteq {Country} \X Gateways
    BY <1>1, <2>1
  <2> QED
    BY <1>1, <2>1, <2>2, <2>3, GeoJobFrame DEF HostRows
<1> QED
  BY <1>2, <1>3, <1>4 DEF GeoJob

-----------------------------------------------------------------------------
(* [Q].                                                                     *)

\* It begins when nothing but the resolver is at work, and ends when that is
\* not either.
LEMMA QuitFrame ==
    ASSUME BypassInv, ~Following, drop = {}, gjob.at = "idle",
           UNCHANGED <<network, notices, entries, res, drop, move, geojobs>>,
           table' \subseteq table, ledger' \subseteq ledger,
           geo' \subseteq geo,
           \A r \in HostRows' : r \in ledger => r \in ledger',
           stop' \in {"hosts", "flush", "done"} => CountryRows(table') = {},
           stop' = "done" => HostRows' = {}
    PROVE  BypassInv'
<1>1. ~Behind /\ \A k \in 1..MaxRoams : move[k].at = "idle"
  BY DEF Following, Behind
<1>2. OneRoam'
  BY OneRoamKept DEF BypassInv, network, geojobs
<1>3. Undisturbed' /\ JobKnows' /\ Replaced'
  BY <1>1 DEF Undisturbed, Following, JobKnows, Replaced, geojobs
<1>4. Typed'
  BY DEF BypassInv, Typed, network, entries, geojobs
<1>5. EntryInv'
  BY EntryKept DEF BypassInv, entries, network
<1>6. Covered'
  <2> SUFFICES ASSUME NEW r \in HostRows'
               PROVE  r \in ledger' \/ (res.at = "settle" /\ r = res.row)
    BY DEF Covered
  <2>1. r \in HostRows
    BY DEF HostRows
  <2> QED
    BY <1>1, <2>1 DEF BypassInv, RowInv, Covered
<1>7. Steady' /\ MoveKnows'
  BY <1>1 DEF BypassInv, RowInv, Steady, MoveKnows, Behind, Adrift, HostRows, network
<1>8. Swept'
  <2>1. stop' = "done" => table' \cap Pinned = {}
    BY DEF CountryRows, HostRows, Pinned, Links
  <2> QED
    BY <2>1 DEF Swept, QuitLeavesNothing
<1> QED
  BY <1>2, <1>3, <1>4, <1>5, <1>6, <1>7, <1>8 DEF BypassInv, RowInv

LEMMA QuittingPreserves ==
    ASSUME BypassInv, Calm, Quits \/ Quitting
    PROVE  BypassInv'
<1>1. /\ ~Following /\ drop = {} /\ gjob.at = "idle"
      /\ UNCHANGED <<network, notices, entries, res, drop, move, geojobs>>
  <2>1. CASE Quits
    BY <2>1, CalmMeans DEF Quits, AllPerils
  <2>2. CASE Quitting
    <3>1. stop # "run"
      BY <2>2 DEF Quitting, SweepsLedgers, SweepsCountry, SweepsHosts, Flushes,
                  StopGoes
    <3> QED
      BY <2>2, <3>1
      DEF BypassInv, Undisturbed, Quitting, SweepsLedgers, SweepsCountry,
          SweepsHosts, Flushes
  <2> QED
    BY <2>1, <2>2
<1>2. CASE Quits
  BY <1>1, <1>2, QuitFrame DEF Quits, StopGoes, HostRows
<1>3. CASE SweepsLedgers
  BY <1>1, <1>3, QuitFrame DEF SweepsLedgers, StopGoes, HostRows
<1>4. CASE SweepsCountry
  <2>1. /\ table' = table \ CountryRows(table) /\ ledger' = ledger /\ geo' = geo
        /\ stop' = "hosts"
    BY <1>4 DEF SweepsCountry, StopGoes
  <2>2. CountryRows(table') = {}
    BY <2>1 DEF CountryRows
  <2> QED
    BY <1>1, <2>1, <2>2, QuitFrame
<1>5. CASE SweepsHosts
  <2>1. /\ table' \subseteq table /\ ledger' = ledger /\ geo' = geo
        /\ stop' = "flush" /\ stop = "hosts"
    BY <1>5 DEF SweepsHosts, StopGoes
  <2>2. CountryRows(table') = {}
    BY <2>1 DEF BypassInv, Swept, CountryRows
  <2> QED
    BY <1>1, <2>1, <2>2, QuitFrame
<1>6. CASE Flushes
  <2>1. /\ table' = table \ (ledger \cup geo) /\ ledger' = {} /\ geo' = {}
        /\ stop = "flush" /\ stop' = "done" /\ res.at = "idle"
    BY <1>6, CalmMeans DEF Flushes, StopGoes, AllPerils
  <2>2. CountryRows(table') = {}
    BY <2>1 DEF BypassInv, Swept, CountryRows
  <2>3. \A r \in HostRows : r \in ledger
    <3>1. \A k \in 1..MaxRoams : move[k].at = "idle"
      BY <1>1 DEF Following
    <3> QED
      BY <1>1, <2>1, <3>1 DEF BypassInv, RowInv, Covered
  <2>4. HostRows' = {}
    BY <2>1, <2>3 DEF HostRows
  <2> QED
    BY <1>1, <2>1, <2>2, <2>4, QuitFrame
<1> QED
  BY <1>2, <1>3, <1>4, <1>5, <1>6 DEF Quitting

-----------------------------------------------------------------------------
(* The world, and all steps together.                                       *)

LEMMA AnswerTurnsPreserves ==
    ASSUME BypassInv, Calm, NEW e \in Entries, AnswerTurns(e)
    PROVE  BypassInv'
<1>1. /\ stop = "run" /\ roams = MaxRoams /\ ~Following /\ turns' = turns + 1
      /\ UNCHANGED <<table, ledger, geo, gateway, notices, entries, res, drop, move,
                     geojobs, stop, roams, steals>>
  BY CalmMeans DEF AnswerTurns, AllPerils
<1>2. answer' \in [Entries -> Answers]
  BY DEF AnswerTurns, BypassInv, Typed
<1>3. turns' \in Nat /\ turns' # 0
  BY <1>1 DEF BypassInv, Typed
<1>4. OneRoam'
  BY <1>1 DEF BypassInv, OneRoam, Following, geojobs
<1>5. Undisturbed'
  BY <1>1, UndisturbedKept DEF BypassInv, Undisturbed, geojobs
<1>6. RowInv'
  BY <1>1, RowsKept, LinkFacts DEF BypassInv, HostRows
<1>7. JobKnows' /\ Swept' /\ Replaced'
  BY <1>1, JobKept, SweptKept, ReplacedKept DEF BypassInv, geojobs, HostRows
<1>8. Typed'
  BY <1>1, <1>2, <1>3 DEF BypassInv, Typed, geojobs, entries
<1>9. EntryInv'
  BY <1>1, <1>3
  DEF BypassInv, EntryInv, ResolverKnows, Listed, Answered, AtEntry, entries
<1> QED
  BY <1>4, <1>5, <1>6, <1>7, <1>8, <1>9 DEF BypassInv

LEMMA StolenPreserves ==
    ASSUME BypassInv, Stolen
    PROVE  BypassInv'
<1>1. /\ stop = "run" /\ steals' = steals + 1
      /\ UNCHANGED <<ledger, geo, gateway, answer, roams, turns, notices, entries,
                     res, drop, move, geojobs, stop>>
  BY DEF Stolen
<1>2. PICK p \in Hosts, g \in Gateways :
        \/ table' = table \ {<<p, g>>}
        \/ table' = (table \ {<<p, g>>}) \cup {<<p, "tun">>}
  BY DEF Stolen
<1>3. table' \subseteq Rows /\ HostRows' \subseteq HostRows
      /\ CountryRows(table') \subseteq CountryRows(table)
  <2>1. /\ <<p, "tun">> \in Rows /\ <<p, "tun">> \notin Links
        /\ <<p, "tun">>[1] # Country
    BY LinkFacts DEF Links, Rows
  <2>2. \A r \in table' : r \in table \/ r = <<p, "tun">>
    BY <1>2
  <2> QED
    BY <2>1, <2>2 DEF BypassInv, Typed, HostRows, CountryRows
<1>4. steals' \in Nat /\ steals' # 0
  BY <1>1 DEF BypassInv, Typed
<1>5. OneRoam'
  BY <1>1, OneRoamKept DEF BypassInv, geojobs
<1>6. Undisturbed'
  BY <1>1, UndisturbedKept DEF BypassInv, Undisturbed, geojobs
<1>7. RowInv'
  BY <1>1, <1>3, RowsKept, LinkFacts DEF BypassInv
<1>8. JobKnows' /\ Swept'
  BY <1>1, <1>3, JobKept, SweptKept DEF BypassInv, geojobs
<1>9. Replaced'
  BY <1>4 DEF Replaced
<1>10. Typed'
  BY <1>1, <1>3, <1>4 DEF BypassInv, Typed, geojobs, entries
<1>11. EntryInv'
  BY <1>1, EntryKept DEF BypassInv, entries
<1> QED
  BY <1>5, <1>6, <1>7, <1>8, <1>9, <1>10, <1>11 DEF BypassInv

LEMMA InitHolds ==
    ASSUME Init
    PROVE  BypassInv
<1>1. Resting \in Works /\ Resting.at = "idle" /\ Resting.row = None
  BY DEF Resting, Works
<1>2. NoMove \in Moves /\ NoMove.at = "idle"
  BY DEF NoMove, Moves
<1>3. NoRepoint \in Repoints /\ NoRepoint.at = "idle" /\ NoJob \in Jobs
      /\ NoJob.at = "idle"
  BY DEF NoRepoint, Repoints, NoJob, Jobs
<1>4. ~Following /\ ~Behind
  BY <1>2, <1>3 DEF Init, Following, Behind
<1>5. Typed
  BY <1>1, <1>2, <1>3, LinkFacts DEF Init, Typed, States
<1>6. OneRoam
  BY <1>2, <1>4 DEF Init, OneRoam
<1>7. Undisturbed
  BY <1>4 DEF Init, Undisturbed
<1>8. EntryInv
  BY <1>1 DEF Init, EntryInv, ResolverKnows, Listed, Answered, AtEntry
<1>9. RowInv
  BY <1>2 DEF Init, RowInv, Covered, Steady, MoveKnows, Adrift, HostRows
<1>10. JobKnows /\ Swept /\ Replaced
  BY <1>2, <1>3 DEF Init, JobKnows, Swept, QuitLeavesNothing, Replaced
<1> QED
  BY <1>5, <1>6, <1>7, <1>8, <1>9, <1>10 DEF BypassInv

LEMMA NextPreserves ==
    ASSUME BypassInv, Calm, [Next]_vars
    PROVE  BypassInv'
<1>1. CASE Resolver
  BY <1>1, TickPreserves, LookPreserves, LookFailsPreserves, PreCleansPreserves,
     CommitsPreserves, SettlesPreserves, SettlesRetryPreserves DEF Resolver
<1>2. CASE User
  BY <1>2, ReapplyPreserves, QuittingPreserves, AddEntryPreserves,
     RemoveEntryPreserves DEF User
<1>3. CASE World
  BY <1>3, RoamsPreserves, StolenPreserves, AnswerTurnsPreserves DEF World
<1>4. CASE GeoMove
  BY <1>4, GeoMovePreserves
<1>5. CASE GeoJob
  BY <1>5, GeoJobPreserves
<1>6. CASE Quitting
  BY <1>6, QuittingPreserves
<1>7. CASE OnGatewayChanged
  BY <1>7, OnGatewayChangedPreserves
<1>8. ASSUME NEW e \in Entries, TurnsDue(e) PROVE BypassInv'
  BY <1>8, TurnsDuePreserves
<1>9. ASSUME NEW p \in Hosts, DropRuns(p) PROVE BypassInv'
  BY <1>9, DropRunsPreserves
<1>10. ASSUME NEW k \in 1..MaxRoams, Move(k) PROVE BypassInv'
  BY <1>10, MoveReadsPreserves, MoveAddsPreserves, MoveDeletesPreserves,
     MoveClaimsPreserves DEF Move
<1>11. CASE UNCHANGED vars
  <2>1. UNCHANGED <<table, ledger, geo, network, notices, entries, res, drop, move,
                    geojobs, stop>>
    BY <1>11 DEF vars
  <2>2. Typed' /\ OneRoam' /\ Undisturbed' /\ RowInv' /\ JobKnows' /\ Swept' /\ Replaced'
    BY <2>1, ListFrame DEF BypassInv, Typed, entries
  <2>3. EntryInv'
    BY <2>1, EntryKept DEF BypassInv, entries, network
  <2> QED
    BY <2>2, <2>3 DEF BypassInv
<1> QED
  BY <1>1, <1>2, <1>3, <1>4, <1>5, <1>6, <1>7, <1>8, <1>9, <1>10, <1>11 DEF Next

\* The inductive invariant holds while no peril but theft occurs: every route of
\* an entry is in the ledger, or in the hands of a thread that will note, move or
\* delete it (_live_bypass_added and the threads that write it).
THEOREM BypassInvariance ==
    ASSUME Calm
    PROVE  Spec => []BypassInv
<1>1. Init => BypassInv
  BY InitHolds
<1>2. BypassInv /\ [Next]_vars => BypassInv'
  BY NextPreserves
<1> QED
  BY <1>1, <1>2, PTL DEF Spec

\* When [Q] is done no route the dashboard made is left on a physical adapter,
\* whatever was added, removed, moved and stolen before
\* (_shutdown_with_progress, _cleanup_live_routes).
THEOREM NothingLeft ==
    ASSUME Calm
    PROVE  Spec => []BypassInvariant
<1>1. BypassInv => BypassInvariant
  <2> SUFFICES ASSUME BypassInv
               PROVE  TypeOK /\ QuitLeavesNothing
    BY DEF BypassInvariant
  <2>1. Typed /\ QuitLeavesNothing
    BY DEF BypassInv, Swept
  <2>2. \A e \in Entries : /\ st[e] = None \/ st[e].ip \in Answers \cup {None}
                           /\ cache[e] \in Answers \cup {None} /\ answer[e] \in Answers
    BY <2>1 DEF Typed, States
  <2>3. res.row \in Links \cup {None} /\ \A k \in 1..MaxRoams : move[k].rows \subseteq Links
    BY <2>1 DEF Typed, Works, Moves
  <2> QED
    BY <2>1, <2>2, <2>3 DEF TypeOK, Typed, Links
<1> QED
  BY <1>1, BypassInvariance, PTL

-----------------------------------------------------------------------------
(* A route that is direct stays so.                                         *)

\* A row is taken out of the table by a thread that has the entry in hand, or
\* when another of the same prefix is in.
LEMMA RowsGoWhenReplaced ==
    ASSUME BypassInv, Calm, Next, steals = 0, steals' = steals, stop = "run",
           drop' = drop, NEW r \in HostRows, res.e # r[1][1]
    PROVE  \E q \in table' : q \in Links /\ q[1] = r[1]
<1>0. r \in table /\ r \in Links /\ r = <<r[1], r[2]>> /\ r[1] = <<r[1][1], r[1][2]>>
      /\ r[1] # Country
  BY LinkFacts DEF HostRows
<1>1. SUFFICES ASSUME r \notin table'
               PROVE  \E q \in table' : q \in Links /\ q[1] = r[1]
  BY <1>0
<1>2. CASE Resolver
  <2>1. CASE PreCleans
    <3>1. PICK g : table' = table \ {<< <<res.e, res.ip>>, g >>,
                                     << <<res.e, res.ip>>, "tun" >>}
      BY <2>1 DEF PreCleans
    <3>2. r[1] # <<res.e, res.ip>>
      OBVIOUS
    <3> QED
      BY <1>0, <1>1, <3>1, <3>2
  <2>2. CASE Commits
    BY <1>0, <1>1, <2>2 DEF Commits
  <2>3. CASE Tick \/ Look \/ LookFails \/ Settles \/ SettlesRetry
    BY <1>0, <1>1, <2>3 DEF Tick, Look, LookFails, Settles, SettlesRetry
  <2> QED
    BY <1>2, <2>1, <2>2, <2>3 DEF Resolver
<1>3. CASE User
  BY <1>0, <1>1, <1>3 DEF User, Reapply, Quits, AddEntry, RemoveEntry
<1>4. CASE World
  <2>1. CASE Stolen
    <3>1. steals' = steals + 1
      BY <2>1 DEF Stolen
    <3> QED
      BY <3>1
  <2> QED
    BY <1>0, <1>1, <1>4, <2>1 DEF World, Roams, AnswerTurns
<1>5. CASE GeoMove
  <2>1. gmove.rows \subseteq {Country} \X Gateways
    BY DEF BypassInv, Typed, Repoints
  <2>2. \A q \in table \ table' : q \in gmove.rows
    BY <1>5 DEF GeoMove, GeoMoveAdds, GeoMoveDeletes, GeoMoveClaims, GeoMoveNext,
                GeoMoveLeaves
  <2> QED
    BY <1>0, <1>1, <2>1, <2>2
<1>6. CASE GeoJob
  <2>1. CASE GeoSweeps
    BY <1>0, <1>1, <2>1 DEF GeoSweeps, CountryRows
  <2>2. CASE GeoInstalls
    <3>1. gjob.at = "install" /\ gjob.to \in Gateways /\ table \in SUBSET Rows
      BY <2>2 DEF GeoInstalls, BypassInv, Typed
    <3>2. table \cup {<<Country, gjob.to>>} \in SUBSET Rows
      BY <3>1, LinkFacts
    <3>3. CASE table' \in Reassert(table \cup {<<Country, gjob.to>>})
      BY <1>0, <1>1, <3>1, <3>2, <3>3, ReassertIs
    <3>4. CASE table' \in Reassert(table)
      BY <1>0, <1>1, <3>1, <3>4, ReassertIs
    <3> QED
      BY <2>2, <3>3, <3>4 DEF GeoInstalls
  <2>3. CASE GeoNotes
    BY <1>0, <1>1, <2>3 DEF GeoNotes
  <2> QED
    BY <1>6, <2>1, <2>2, <2>3 DEF GeoJob
<1>7. CASE Quitting
  BY <1>7 DEF Quitting, SweepsLedgers, SweepsCountry, SweepsHosts, Flushes, StopGoes
<1>8. CASE OnGatewayChanged
  BY <1>0, <1>1, <1>8 DEF OnGatewayChanged
<1>9. ASSUME NEW e \in Entries, TurnsDue(e) PROVE FALSE
  BY <1>0, <1>1, <1>9 DEF TurnsDue
<1>10. ASSUME NEW p \in Hosts, DropRuns(p) PROVE FALSE
  BY <1>10 DEF DropRuns
<1>11. ASSUME NEW k \in 1..MaxRoams, Move(k)
       PROVE  \E q \in table' : q \in Links /\ q[1] = r[1]
  <2>1. CASE MoveDeletes(k)
    <3>1. move[k].at = "delete" /\ table' = table \ move[k].rows
      BY <2>1 DEF MoveDeletes
    <3>2. /\ r \in move[k].rows /\ move[k].rows = {q \in ledger : q[2] # gateway}
          /\ <<r[1], gateway>> \in Replacements(k) /\ Replacements(k) \subseteq Links
      BY <1>0, <1>1, <3>1, MoveHolds DEF Adrift
    <3>3. <<r[1], gateway>> \in table
      BY <3>1, <3>2 DEF BypassInv, Replaced
    <3>4. <<r[1], gateway>> \in table'
      BY <3>1, <3>2, <3>3
    <3> QED
      BY <3>2, <3>4
  <2> QED
    BY <1>0, <1>1, <1>11, <2>1, CalmMeans
    DEF Move, MoveReads, MoveAdds, MoveClaims, AllPerils
<1> QED
  BY <1>2, <1>3, <1>4, <1>5, <1>6, <1>7, <1>8, <1>9, <1>10, <1>11 DEF Next

\* While nobody steals one, a route the panel shows as direct stays off the
\* tunnel: a re-point adds before it deletes, and [R] puts back what it clears
\* (_reroute_own_bypass_live, _reapply_geo_bypass).
THEOREM StaysDirect ==
    ASSUME Calm
    PROVE  Spec => NoGapOnMove
<1> DEFINE Gapless(e) ==
             steals = 0 /\ stop = "run" /\ Shown(e) /\ Direct(e)
             => \/ ~Shown(e)' \/ st[e].ip # st[e].ip' \/ Direct(e)'
                \/ steals' # steals \/ res.e = e \/ drop' # drop
<1>1. ASSUME BypassInv, [Next]_vars
      PROVE  [\A e \in Entries : Gapless(e)]_vars
  <2> SUFFICES ASSUME Next, NEW e \in Entries, steals = 0, stop = "run", Shown(e),
                      Direct(e), st[e].ip = st'[e].ip, steals' = steals,
                      res.e # e, drop' = drop
               PROVE  Direct(e)'
    BY <1>1
  <2> DEFINE p == <<e, st[e].ip>>
  <2>1. PICK g \in Gateways : <<p, g>> \in table
    BY DEF Direct, Healthy
  <2>2. st[e].ip \in Answers \cup {None}
    <3>1. st[e] \in States /\ st[e] # None
      BY <1>1 DEF Shown, BypassInv, Typed
    <3> QED
      BY <3>1 DEF States
  <2>3. p # Country /\ p \in Hosts
    <3>1. p # Country
      BY <2>2, BypassAssumption
    <3>2. <<p, g>> \in Rows
      BY <1>1, <2>1 DEF BypassInv, Typed
    <3>3. p \in Hosts \cup {Country}
      <4> HIDE DEF p
      <4> QED
        BY <3>2 DEF Rows
    <3> QED
      BY <3>1, <3>3
  <2>4. <<p, g>> \in HostRows
    BY <2>1, <2>3 DEF HostRows, Links
  <2>5. PICK q \in table' : q \in Links /\ q[1] = p
    BY <1>1, <2>4, RowsGoWhenReplaced
  <2>6. q = <<p, q[2]>> /\ q[2] \in Gateways
    BY <2>5, LinkFacts
  <2>7. <<e, st'[e].ip>> = p
    OBVIOUS
  <2> QED
    BY <2>5, <2>6, <2>7 DEF Direct, Healthy
<1> QED
  BY <1>1, BypassInvariance, PTL DEF Spec, NoGapOnMove
=============================================================================
