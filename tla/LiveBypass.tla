----------------------------- MODULE LiveBypass -----------------------------
(***************************************************************************)
(* The routes the dashboard itself puts in the table while the tunnel runs *)
(* (tuntop/ui/dashboard.py): a host route for every entry of the bypass    *)
(* list, by a resolver thread, and one for every prefix of a country, by   *)
(* [R].  Each has a ledger, and only what a ledger names is moved when the *)
(* gateway changes and swept at the end.                                   *)
(*                                                                         *)
(* Nobody holds a lock over table and ledger.  The resolver, the workers   *)
(* that delete a removed entry, re-point the entries or the country and    *)
(* re-apply it, and [Q] each go through their own steps; one action is one *)
(* round of PowerShell or netsh, or the bookkeeping between two.           *)
(***************************************************************************)
EXTENDS Naturals, Sequences

CONSTANTS
    Entries,    \* names that may be on the list
    Answers,    \* addresses a name may resolve to
    Gateways,   \* physical adapters, each with its next hop
    Country,    \* the country's prefixes, as one
    None,       \* nothing known
    MaxKeys,    \* bound: presses of [A], [X] and [R]
    MaxRoams,   \* bound: changes of the physical gateway
    MaxTurns,   \* bound: names that change their address
    MaxSteals,  \* bound: host routes another program takes
    MaxFaults,  \* bound: look-ups and additions that fail
    Perils      \* coincidences the code has no answer to; see below

AllPerils == {
    "late remove",    \* [X] while a thread has the entry in its hands
    "roam at work",   \* the gateway changes while a route is being installed
    "roam twice",     \* it changes again before all has followed
    "theft at work",  \* a route is stolen while a new one is being put beside it
    "turn first",     \* an address changes, and the gateway after it
    "quit at work",   \* [Q] while a worker, or its end while the resolver is at it
    "refused batch"}  \* netsh refuses a row of a re-point

ASSUME BypassAssumption ==
    /\ None \notin Answers \cup Gateways \cup Entries
    /\ "tun" \notin Gateways /\ Gateways # {}
    \* the country and "nothing" are no host's prefix, and no row
    /\ Country \notin Entries \X (Answers \cup {None})
    /\ None \notin (Entries \X Answers) \X Gateways
    /\ {MaxKeys, MaxRoams, MaxTurns, MaxSteals, MaxFaults} \subseteq Nat
    /\ Perils \subseteq AllPerils

VARIABLES
    table,     \* rows: a prefix and the adapter it is on
    ledger,    \* _live_bypass_added
    geo,       \* _live_geo_added
    gateway,   \* the physical gateway
    notices,   \* [GATEWAY] markers on their way to the dashboard
    list,      \* ns.bypass_ip
    st,        \* _bypass_res_state: what is known of an entry
    cache,     \* _bypass_res_cache
    answer,    \* what a name resolves to
    res,       \* the resolver
    drop,      \* prefixes a worker has yet to delete
    move,      \* the workers that re-point the entries, one per marker
    gjob,      \* [R]'s worker
    gmove,     \* the worker that re-points the country
    gnext,     \* _gw_geo_pending
    stop,      \* [Q]: "run", "ledgers", "geo", "hosts", "flush", "done"
    keys, roams, turns, steals, faults

network  == <<gateway, answer, roams, turns, steals>>
entries  == <<list, st, cache>>
geojobs  == <<gjob, gmove, gnext>>
vars == <<table, ledger, geo, network, notices, entries, res, drop, move,
          geojobs, stop, keys, faults>>

Hosts   == Entries \X Answers
Rows    == (Hosts \cup {Country}) \X (Gateways \cup {"tun"})
Pinned  == (Hosts \cup {Country}) \X Gateways
Unknown == [ip |-> None, ok |-> FALSE, routed |-> FALSE, due |-> TRUE]
Resting == [at |-> "idle", todo |-> {}, e |-> None, ip |-> None,
            why |-> None, row |-> None]
NoMove  == [at |-> "idle", rows |-> {}, to |-> None]
NoRepoint == [at |-> "idle", from |-> None, to |-> None, rows |-> {}]
NoJob   == [at |-> "idle", to |-> None, again |-> {}, put |-> FALSE]

CountryRows(t) == {r \in t : r[1] = Country}
Fault == faults < MaxFaults /\ faults' = faults + 1
Sound == UNCHANGED faults

Init ==
    /\ table = {} /\ ledger = {} /\ geo = {} /\ gateway \in Gateways
    /\ notices = <<>> /\ list \in SUBSET Entries
    /\ st = [e \in Entries |-> None] /\ cache = [e \in Entries |-> None]
    /\ answer \in [Entries -> Answers]
    /\ res = Resting /\ drop = {} /\ move = [k \in 1..MaxRoams |-> NoMove]
    /\ gjob = NoJob /\ gmove = NoRepoint /\ gnext = None
    /\ stop = "run" /\ keys = 0
    /\ roams = 0 /\ turns = 0 /\ steals = 0 /\ faults = 0

\* Has the change of gateway yet to be followed?
Following == notices # <<>> \/ gmove.at # "idle"
             \/ \E k \in 1..MaxRoams : move[k].at # "idle"

-----------------------------------------------------------------------------
(* The resolver.                                                            *)

\* Windows answers with the row it would use for the address, ours included;
\* one on a tunnel adapter is filtered out, and the default route is left.
Egress(p) ==
    LET on == {g \in Gateways : <<p, g>> \in table}
    IN IF on = {} THEN {gateway}
       ELSE on \cup IF <<p, "tun">> \in table THEN {gateway} ELSE {}

Healthy(p) == \E g \in Gateways : <<p, g>> \in table

Rest(todo) == IF todo = {} THEN Resting
              ELSE [Resting EXCEPT !.at = "look", !.todo = todo]

Tick ==
    /\ stop = "run" /\ res.at = "idle"
    /\ LET gone == {e \in Entries \ list : st[e] # None}
           due  == {e \in list : st[e] = None \/ st[e].due}
           new  == {e \in due : st[e] = None}
       IN /\ gone \cup due # {}
          /\ st' = [e \in Entries |-> IF e \in gone THEN None
                                      ELSE IF e \in new THEN Unknown ELSE st[e]]
          /\ cache' = [e \in Entries |-> IF e \in gone THEN None ELSE cache[e]]
          /\ res' = Rest(due)
    /\ UNCHANGED <<table, ledger, geo, network, notices, list, drop, move,
                   geojobs, stop, keys, faults>>

\* Faulty: a route that was there once is taken to be there still.
LookTrusts ==
    /\ stop # "done" /\ res.at = "look" /\ Sound
    /\ \E e \in res.todo :
         LET old == IF st[e] = None THEN Unknown ELSE st[e]
             why == IF old.ip # answer[e] THEN "changed" ELSE "same"
         IN /\ st' = [st EXCEPT ![e] = old]
            /\ res' = [at |-> IF why = "same" THEN "settle" ELSE "install",
                       todo |-> res.todo \ {e}, e |-> e, ip |-> answer[e],
                       why |-> why, row |-> None]
    /\ UNCHANGED <<table, ledger, geo, network, notices, list, cache, drop,
                   move, geojobs, stop, keys>>

\* The name is resolved without the lock, whatever became of the entry.
Look ==
    /\ stop # "done" /\ res.at = "look" /\ Sound
    /\ \E e \in res.todo :
         LET old == IF st[e] = None THEN Unknown ELSE st[e]
             why == IF old.ip # answer[e] THEN "changed"
                    ELSE IF old.routed /\ ~Healthy(<<e, answer[e]>>)
                         THEN "heal" ELSE "same"
         IN /\ st' = [st EXCEPT ![e] = old]
            /\ res' = [at |-> IF why = "same" THEN "settle" ELSE "install",
                       todo |-> res.todo \ {e}, e |-> e, ip |-> answer[e],
                       why |-> why, row |-> None]
    /\ UNCHANGED <<table, ledger, geo, network, notices, list, cache, drop,
                   move, geojobs, stop, keys>>

LookFails ==
    /\ stop # "done" /\ res.at = "look" /\ Fault
    /\ \E e \in res.todo :
         LET old == IF st[e] = None THEN Unknown ELSE st[e]
         IN /\ st' = [st EXCEPT ![e] = [old EXCEPT !.ok = FALSE, !.due = FALSE]]
            /\ res' = Rest(res.todo \ {e})
    /\ UNCHANGED <<table, ledger, geo, network, notices, list, cache, drop,
                   move, geojobs, stop, keys>>

\* The egress is looked up, and any row of the prefix on it or on a tunnel
\* adapter is cleared for the one to come.
PreCleans ==
    /\ stop # "done" /\ res.at = "install"
    /\ "roam at work" \in Perils \/ ~Following
    /\ LET p == <<res.e, res.ip>>
       IN \E g \in Egress(p) :
            /\ table' = table \ {<<p, g>>, <<p, "tun">>}
            /\ res' = [res EXCEPT !.at = "commit", !.row = <<p, g>>]
    /\ UNCHANGED <<ledger, geo, network, notices, entries, drop, move, geojobs,
                   stop, keys, faults>>

\* All or nothing: the transaction is RouteTransaction's.
Commits ==
    /\ stop # "done" /\ res.at = "commit"
    /\ \/ /\ Sound
          /\ table' = table \cup {res.row}
          /\ res' = [res EXCEPT !.at = "settle"]
       \/ /\ Fault
          /\ UNCHANGED table
          /\ res' = [res EXCEPT !.at = "settle", !.row = None]
    /\ UNCHANGED <<ledger, geo, network, notices, entries, drop, move, geojobs,
                   stop, keys>>

Noted == IF res.row = None THEN ledger ELSE ledger \cup {res.row}

\* What was known of the entry is written over, be it listed or not; a route
\* that is still missing although nothing changed is tried once more.
Settles ==
    /\ stop # "done" /\ res.at = "settle" /\ res.why # "retry"
    /\ LET old    == IF st[res.e] = None THEN Unknown ELSE st[res.e]
           routed == res.row # None \/ (res.why = "same" /\ old.routed)
       IN /\ st' = [st EXCEPT ![res.e] = [ip |-> res.ip, ok |-> TRUE,
                                          routed |-> routed, due |-> FALSE]]
          /\ res' = IF res.why = "changed" \/ routed THEN Rest(res.todo)
                    ELSE [res EXCEPT !.at = "install", !.why = "retry",
                                     !.row = None]
    /\ ledger' = Noted /\ cache' = [cache EXCEPT ![res.e] = res.ip]
    /\ UNCHANGED <<table, geo, network, notices, list, drop, move, geojobs,
                   stop, keys, faults>>

\* A KeyError for an entry that is gone by now ends the whole pass.
SettlesRetry ==
    /\ stop # "done" /\ res.at = "settle" /\ res.why = "retry"
    /\ IF res.row = None
       THEN UNCHANGED st /\ res' = Rest(res.todo)
       ELSE IF st[res.e] = None
       THEN UNCHANGED st /\ res' = Resting
       ELSE /\ st' = [st EXCEPT ![res.e].routed = TRUE]
            /\ res' = Rest(res.todo)
    /\ ledger' = Noted
    /\ UNCHANGED <<table, geo, network, notices, list, cache, drop, move,
                   geojobs, stop, keys, faults>>

\* _BYPASS_REFRESH, or the delay of a retry, is over.
TurnsDue(e) ==
    /\ stop = "run" /\ st[e] # None /\ ~st[e].due
    /\ st' = [st EXCEPT ![e].due = TRUE]
    /\ UNCHANGED <<table, ledger, geo, network, notices, list, cache, res, drop,
                   move, geojobs, stop, keys, faults>>

-----------------------------------------------------------------------------
(* The keys.                                                                *)

Press == stop = "run" /\ keys < MaxKeys /\ keys' = keys + 1

\* Is a thread about to put back a route of the entry?
InHand(e) ==
    \/ res.at # "idle" /\ (res.e = e \/ e \in res.todo)
    \/ Following \/ gjob.at # "idle"

AddEntry(e) ==
    /\ Press
    /\ list' = list \cup {e}
    /\ st' = [st EXCEPT ![e] = IF @ = None \/ ~@.ok THEN Unknown
                               ELSE [@ EXCEPT !.due = TRUE]]
    /\ UNCHANGED <<table, ledger, geo, network, notices, cache, res, drop, move,
                   geojobs, stop, faults>>

\* The ledger forgets the row at once, the table when the worker comes to it.
RemoveEntry(e) ==
    /\ Press /\ e \in list
    /\ "late remove" \in Perils \/ ~InHand(e)
    /\ LET known == IF st[e] # None /\ st[e].ip # None THEN st[e].ip
                    ELSE IF cache[e] # None THEN cache[e] ELSE answer[e]
       IN /\ ledger' = {r \in ledger : r[1] # <<e, known>>}
          /\ drop' = drop \cup {<<e, known>>}
    /\ list' = list \ {e}
    /\ st' = [st EXCEPT ![e] = None] /\ cache' = [cache EXCEPT ![e] = None]
    /\ UNCHANGED <<table, geo, network, notices, res, move, geojobs, stop,
                   faults>>

\* The delete looks up the egress when it runs.
DropRuns(p) ==
    /\ stop # "done" /\ p \in drop
    /\ \E g \in Egress(p) : table' = table \ {<<p, g>>}
    /\ drop' = drop \ {p}
    /\ UNCHANGED <<ledger, geo, network, notices, entries, res, move, geojobs,
                   stop, keys, faults>>

-----------------------------------------------------------------------------
(* A change of gateway: the helper's marker, a worker for the entries, and  *)
(* one for the country that serves every marker there is.                   *)

OnGatewayChanged ==
    /\ stop = "run" /\ notices # <<>>
    /\ LET k == roams - Len(notices) + 1
       IN move' = [move EXCEPT ![k].at = "read"]
    /\ LET old == Head(notices)[1]
           new == Head(notices)[2]
       IN IF gmove.at = "idle"
          THEN /\ gmove' = [NoRepoint EXCEPT !.at = "add", !.from = old, !.to = new]
               /\ UNCHANGED gnext
          ELSE gnext' = <<old, new>> /\ UNCHANGED gmove
    /\ notices' = Tail(notices)
    /\ UNCHANGED <<table, ledger, geo, network, entries, res, drop, gjob, stop,
                   keys, faults>>

\* _live_bypass_dests(): what the resolver still knows of.
Allowed ==
    {<<e, st[e].ip>> : e \in {d \in Entries : st[d] # None}} \cup
    {<<e, cache[e]>> : e \in Entries}

\* Rows of no entry are forgotten, not deleted.
MoveReads(k) ==
    /\ stop # "done" /\ move[k].at = "read"
    /\ LET kept == {r \in ledger : r[1] \in Allowed}
           rows == {r \in kept : r[2] # gateway}
       IN /\ ledger' = kept
          /\ move' = [move EXCEPT ![k] =
               IF rows = {} THEN NoMove
               ELSE [at |-> "add", rows |-> rows, to |-> gateway]]
    /\ UNCHANGED <<table, geo, network, notices, entries, res, drop, geojobs,
                   stop, keys, faults>>

Replacements(k) == {<<r[1], move[k].to>> : r \in move[k].rows}

\* Faulty: the old rows go, and nothing comes in their place.
MoveDropsFirst(k) ==
    /\ stop # "done" /\ move[k].at = "add" /\ Sound
    /\ table' = table \ move[k].rows
    /\ move' = [move EXCEPT ![k].at = "delete"]
    /\ UNCHANGED <<ledger, geo, network, notices, entries, res, drop, geojobs,
                   stop, keys>>

\* A short batch is not claimed, and what it did add is nobody's.
MoveAdds(k) ==
    /\ stop # "done" /\ move[k].at = "add"
    /\ \/ /\ Sound
          /\ table' = table \cup Replacements(k)
          /\ move' = [move EXCEPT ![k].at = "delete"]
       \/ /\ "refused batch" \in Perils /\ Fault
          /\ \E some \in SUBSET Replacements(k) \ {Replacements(k)} :
               table' = table \cup some
          /\ move' = [move EXCEPT ![k] = NoMove]
    /\ UNCHANGED <<ledger, geo, network, notices, entries, res, drop, geojobs,
                   stop, keys>>

MoveDeletes(k) ==
    /\ stop # "done" /\ move[k].at = "delete"
    /\ table' = table \ move[k].rows
    /\ move' = [move EXCEPT ![k].at = "claim"]
    /\ UNCHANGED <<ledger, geo, network, notices, entries, res, drop, geojobs,
                   stop, keys, faults>>

\* A row that left the ledger meanwhile is not claimed.
MoveClaims(k) ==
    /\ stop # "done" /\ move[k].at = "claim"
    /\ ledger' = (ledger \ move[k].rows) \cup
                 {<<r[1], move[k].to>> : r \in move[k].rows \cap ledger}
    /\ move' = [move EXCEPT ![k] = NoMove]
    /\ UNCHANGED <<table, geo, network, notices, entries, res, drop, geojobs,
                   stop, keys, faults>>

\* Only rows on the adapter the marker names move.
GeoMoveAdds ==
    /\ stop # "done" /\ gmove.at = "add"
    /\ LET rows == {r \in geo : r[2] = gmove.from}
       IN \/ /\ rows = {} /\ Sound
             /\ gmove' = [gmove EXCEPT !.at = "next"] /\ UNCHANGED table
          \/ /\ rows # {} /\ Sound
             /\ table' = table \cup {<<Country, gmove.to>>}
             /\ gmove' = [gmove EXCEPT !.at = "delete", !.rows = rows]
          \/ /\ rows # {} /\ "refused batch" \in Perils /\ Fault
             /\ gmove' = [gmove EXCEPT !.at = "next"] /\ UNCHANGED table
    /\ UNCHANGED <<ledger, geo, network, notices, entries, res, drop, move, gjob,
                   gnext, stop, keys>>

GeoMoveDeletes ==
    /\ stop # "done" /\ gmove.at = "delete"
    /\ table' = table \ gmove.rows
    /\ gmove' = [gmove EXCEPT !.at = "claim"]
    /\ UNCHANGED <<ledger, geo, network, notices, entries, res, drop, move, gjob,
                   gnext, stop, keys, faults>>

GeoMoveClaims ==
    /\ stop # "done" /\ gmove.at = "claim"
    /\ geo' = (geo \ gmove.rows) \cup
              {<<Country, gmove.to>> : r \in gmove.rows \cap geo}
    /\ gmove' = [gmove EXCEPT !.at = "next"]
    /\ UNCHANGED <<table, ledger, network, notices, entries, res, drop, move,
                   gjob, gnext, stop, keys, faults>>

\* The newest marker that came meanwhile is taken, if there is one.
GeoMoveNext ==
    /\ stop # "done" /\ gmove.at = "next"
    /\ gmove' = IF gnext = None THEN [NoRepoint EXCEPT !.at = "leaving"]
                ELSE [NoRepoint EXCEPT !.at = "add", !.from = gnext[1],
                                       !.to = gnext[2]]
    /\ gnext' = None
    /\ UNCHANGED <<table, ledger, geo, network, notices, entries, res, drop,
                   move, gjob, stop, keys, faults>>

GeoMoveLeaves ==
    /\ stop # "done" /\ gmove.at = "leaving"
    /\ gmove' = NoRepoint
    /\ UNCHANGED <<table, ledger, geo, network, notices, entries, res, drop,
                   move, gjob, gnext, stop, keys, faults>>

-----------------------------------------------------------------------------
(* [R]: the country's routes, from nothing.                                 *)

Reapply ==
    /\ Press /\ gjob.at = "idle"
    /\ "roam at work" \in Perils \/ ~Following
    /\ gjob' = [NoJob EXCEPT !.at = "sweep"]
    /\ UNCHANGED <<table, ledger, geo, network, notices, entries, res, drop,
                   move, gmove, gnext, stop, faults>>

\* Swept on any adapter, once there is an egress.  The entries' rows, as the
\* ledger has them now, are put back when the country is in.
GeoSweeps ==
    /\ stop # "done" /\ gjob.at = "sweep"
    /\ table' = table \ CountryRows(table)
    /\ geo' = {}
    /\ gjob' = [at |-> "install", to |-> gateway, again |-> ledger,
                put |-> FALSE]
    /\ UNCHANGED <<ledger, network, notices, entries, res, drop, move, gmove,
                   gnext, stop, keys, faults>>

\* One row for each prefix to put back, the last one named.
Reassert(t) ==
    {(t \ {r \in Rows : \E s \in last : s[1] = r[1]}) \cup last :
       last \in {s \in SUBSET gjob.again :
                   /\ \A r \in gjob.again : \E q \in s : q[1] = r[1]
                   /\ \A q, r \in s : q[1] = r[1] => q = r}}

GeoInstalls ==
    /\ stop # "done" /\ gjob.at = "install"
    /\ \/ /\ Sound
          /\ table' \in Reassert(table \cup {<<Country, gjob.to>>})
          /\ gjob' = [gjob EXCEPT !.at = "note", !.put = TRUE]
       \/ /\ Fault
          /\ table' \in Reassert(table)
          /\ gjob' = [gjob EXCEPT !.at = "note"]
    /\ UNCHANGED <<ledger, geo, network, notices, entries, res, drop, move,
                   gmove, gnext, stop, keys>>

GeoNotes ==
    /\ stop # "done" /\ gjob.at = "note"
    /\ geo' = IF gjob.put THEN geo \cup {<<Country, gjob.to>>} ELSE geo
    /\ gjob' = NoJob
    /\ UNCHANGED <<table, ledger, network, notices, entries, res, drop, move,
                   gmove, gnext, stop, keys, faults>>

-----------------------------------------------------------------------------
(* [Q].                                                                     *)

StopGoes(from, to) == stop = from /\ stop' = to

Quits ==
    /\ StopGoes("run", "ledgers")
    /\ "quit at work" \in Perils \/ (drop = {} /\ gjob.at = "idle" /\ ~Following)
    /\ UNCHANGED <<table, ledger, geo, network, notices, entries, res, drop,
                   move, geojobs, keys, faults>>

SweepsLedgers ==
    /\ StopGoes("ledgers", "geo")
    /\ table' = table \ (ledger \cup geo)
    /\ ledger' = {} /\ geo' = {}
    /\ UNCHANGED <<network, notices, entries, res, drop, move, geojobs, keys,
                   faults>>

SweepsCountry ==
    /\ StopGoes("geo", "hosts")
    /\ table' = table \ CountryRows(table)
    /\ UNCHANGED <<ledger, geo, network, notices, entries, res, drop, move,
                   geojobs, keys, faults>>

\* Names still on the list, at the addresses they have now, on adapters the
\* session can name: the gateway's and those of the ledgers as they are.
SweepsHosts ==
    /\ StopGoes("hosts", "flush")
    /\ LET scope == {gateway} \cup {r[2] : r \in ledger \cup geo}
       IN table' = table \ ({<<e, answer[e]>> : e \in list} \X scope)
    /\ UNCHANGED <<ledger, geo, network, notices, entries, res, drop, move,
                   geojobs, keys, faults>>

\* Faulty: the sweeps before it are taken to have caught everything.
FlushesNothing ==
    /\ StopGoes("flush", "done")
    /\ "quit at work" \in Perils \/ res.at = "idle"
    /\ UNCHANGED <<table, ledger, geo, network, notices, entries, res, drop,
                   move, geojobs, keys, faults>>

\* The ledgers once more; then the process ends, and its threads with it.
Flushes ==
    /\ StopGoes("flush", "done")
    /\ "quit at work" \in Perils \/ res.at = "idle"
    /\ table' = table \ (ledger \cup geo)
    /\ ledger' = {} /\ geo' = {}
    /\ UNCHANGED <<network, notices, entries, res, drop, move, geojobs, keys,
                   faults>>

-----------------------------------------------------------------------------
(* The world.                                                               *)

Roams ==
    /\ stop = "run" /\ roams < MaxRoams
    /\ "roam at work" \in Perils
       \/ (res.at = "idle" /\ drop = {} /\ gjob.at = "idle")
    /\ "roam twice" \in Perils \/ ~Following
    /\ "theft at work" \in Perils \/ table \subseteq Pinned
    /\ \E g \in Gateways \ {gateway} :
         gateway' = g /\ notices' = Append(notices, <<gateway, g>>)
    /\ roams' = roams + 1
    /\ UNCHANGED <<table, ledger, geo, entries, answer, res, drop, move, geojobs,
                   stop, keys, turns, steals, faults>>

AnswerTurns(e) ==
    /\ stop = "run" /\ turns < MaxTurns /\ turns' = turns + 1
    /\ "turn first" \in Perils \/ (roams = MaxRoams /\ ~Following)
    /\ \E a \in Answers \ {answer[e]} : answer' = [answer EXCEPT ![e] = a]
    /\ UNCHANGED <<table, ledger, geo, gateway, notices, entries, res, drop,
                   move, geojobs, stop, keys, roams, steals, faults>>

\* A host route is stripped, or taken to another program's tunnel adapter.
Stolen ==
    /\ stop = "run" /\ steals < MaxSteals /\ steals' = steals + 1
    /\ \E p \in Hosts, g \in Gateways :
         /\ <<p, g>> \in table
         /\ \/ table' = table \ {<<p, g>>}
            \/ /\ "theft at work" \in Perils \/ ~(Following \/ res.at = "commit")
               /\ table' = (table \ {<<p, g>>}) \cup {<<p, "tun">>}
    /\ UNCHANGED <<ledger, geo, gateway, answer, roams, turns, notices, entries,
                   res, drop, move, geojobs, stop, keys, faults>>

-----------------------------------------------------------------------------
Resolver == Tick \/ Look \/ LookFails \/ PreCleans \/ Commits
            \/ Settles \/ SettlesRetry
Move(k)  == MoveReads(k) \/ MoveAdds(k) \/ MoveDeletes(k) \/ MoveClaims(k)
GeoMove  == GeoMoveAdds \/ GeoMoveDeletes \/ GeoMoveClaims \/ GeoMoveNext
            \/ GeoMoveLeaves
GeoJob   == GeoSweeps \/ GeoInstalls \/ GeoNotes
Quitting == SweepsLedgers \/ SweepsCountry \/ SweepsHosts \/ Flushes
User     == Reapply \/ Quits \/ \E e \in Entries : AddEntry(e) \/ RemoveEntry(e)
World    == Roams \/ Stolen \/ \E e \in Entries : AnswerTurns(e)

Next ==
    \/ Resolver \/ User \/ World \/ GeoMove \/ GeoJob \/ Quitting
    \/ OnGatewayChanged
    \/ \E e \in Entries : TurnsDue(e)
    \/ \E p \in Hosts : DropRuns(p)
    \/ \E k \in 1..MaxRoams : Move(k)

\* Threads go on while they can; names come due again; markers are read.
Fairness ==
    /\ WF_vars(Resolver) /\ WF_vars(GeoMove) /\ WF_vars(GeoJob)
    /\ WF_vars(Quitting) /\ WF_vars(OnGatewayChanged)
    /\ \A e \in Entries : WF_vars(TurnsDue(e))
    /\ \A p \in Hosts : WF_vars(DropRuns(p))
    /\ \A k \in 1..MaxRoams : WF_vars(Move(k))

Spec == Init /\ [][Next]_vars /\ Fairness

-----------------------------------------------------------------------------
TypeOK ==
    /\ table \subseteq Rows /\ ledger \subseteq Hosts \X Gateways
    /\ geo \subseteq {Country} \X Gateways /\ gateway \in Gateways
    /\ list \subseteq Entries /\ drop \subseteq Hosts
    /\ \A e \in Entries :
         /\ st[e] = None \/ st[e].ip \in Answers \cup {None}
         /\ cache[e] \in Answers \cup {None} /\ answer[e] \in Answers
    /\ res.row \in (Hosts \X Gateways) \cup {None}
    /\ \A k \in 1..MaxRoams : move[k].rows \subseteq Hosts \X Gateways

\* When the process is gone no host or country route of its making is left on
\* a physical adapter, whatever was added, removed, moved and stolen before:
\* the table is cleared from ledgers that five threads write without a lock.
QuitLeavesNothing == stop = "done" => table \cap Pinned = {}

BypassInvariant == TypeOK /\ QuitLeavesNothing

\* While nobody steals one, a route the panel shows as direct stays off the
\* tunnel, except by the resolver's own repair, a delete the user asked for and
\* [Q]: a re-point adds before it deletes, and [R] puts back what it clears.
Shown(e) == e \in list /\ st[e] # None /\ st[e].routed
Direct(e) == Healthy(<<e, st[e].ip>>)
NoGapOnMove ==
    [][\A e \in Entries :
         steals = 0 /\ stop = "run" /\ Shown(e) /\ Direct(e)
         => \/ ~Shown(e)' \/ st[e].ip # st[e].ip' \/ Direct(e)'
            \/ steals' # steals \/ res.e = e \/ drop' # drop]_vars

\* Once the user, the network and the thieves are still, every listed name is
\* routed at its address, over the gateway there is and over no other; a name
\* taken off the list is not; and the country is where its ledger says, on
\* that gateway.
Settled ==
    /\ \A e \in Entries :
         LET on == {r[2] : r \in {q \in table : q[1] = <<e, answer[e]>>}}
         IN IF e \in list THEN on = {gateway} ELSE on \cap Gateways = {}
    /\ CountryRows(table) = geo /\ geo \subseteq {<<Country, gateway>>}
SettlesAsListed == <>[](stop = "run" => Settled)
=============================================================================
