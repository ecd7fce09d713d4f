--------------------------- MODULE ResidueRecord ---------------------------
(***************************************************************************)
(* What outlives the tunnel and is in no route table: the lowered metric   *)
(* of the physical adapter and the machine-wide DoH templates.  Whoever    *)
(* makes the change notes it in one file (tuntop/network/residue.py); the  *)
(* helper's cleanup, the dashboard's sweeps, startup recovery and the      *)
(* watchdog undo it from there (tuntop/tunnel/helper.py,                   *)
(* tuntop/ui/dashboard.py, tuntop/core/cleanup_watchdog.py).               *)
(*                                                                         *)
(* A process that ends is no longer the owner of the record: pid and start *)
(* time name no process.  The watchdog runs while no dashboard does;       *)
(* a marker that is taken over is module CrashRecovery's.                  *)
(***************************************************************************)
EXTENDS Naturals, Sequences

CONSTANTS Resolvers,  \* the DNS servers a user may pick
          Preset,     \* those the user had registered for DoH before
          None,
          MaxLive,    \* bound: [R]s of one dashboard
          MaxFaults,  \* bound: removals of templates that are refused
          MaxEnds,    \* bound: processes that are killed
          SetFails,   \* may Set-NetIPInterface fail, silenced as it is?
          Overlap     \* may one operation run during another's?

ASSUME ResidueAssumption ==
    /\ Preset \subseteq Resolvers
    /\ MaxLive \in Nat /\ MaxFaults \in Nat /\ MaxEnds \in Nat
    /\ SetFails \in BOOLEAN /\ Overlap \in BOOLEAN

VARIABLES
    metric,     \* the physical adapter's: "user" or "low"
    templates,  \* the resolvers the machine has a DoH template for
    file,       \* the record
    up,         \* the processes that run
    saved,      \* phys_bypass_metric_saved of each process is set
    job,        \* the steps each thread has before it
    arg,        \* the resolvers its step is about
    copy,       \* the record it has read and will write back
    sound,      \* the dashboard's sweeps have all succeeded
    live, faults, ends

machine == <<metric, templates>>
threads == <<job, arg, copy>>
counts  == <<live, faults, ends>>
vars    == <<machine, file, up, saved, threads, sound, counts>>

Procs   == {"helper", "dash", "watch"}
Threads == {"main", "geo", "ui", "live", "watch"}
Proc(t) == CASE t \in {"main", "geo"} -> "helper"
             [] t \in {"ui", "live"}  -> "dash"
             [] OTHER                 -> "watch"

Lowers   == <<"see", "keep", "set">>
Unlowers == <<"unset", "drop">>                  \* from memory
Recalls  == <<"recall", "reset", "drop">>        \* from the record
Enables  == <<"register", "note", "save">>
Disables == <<"find", "remove", "forget">>
Steps    == {"see", "keep", "set", "unset", "drop", "recall", "reset", "register",
             "note", "save", "find", "remove", "forget", "kill", "end"}
Cleanup  == Unlowers \o Disables \o <<"end">>
Sweep    == <<"kill">> \o Recalls \o Disables

TypeOK ==
    /\ metric \in {"user", "low"} /\ templates \subseteq Resolvers
    /\ file \in [metric : BOOLEAN, doh : SUBSET Resolvers, owner : Procs \cup {None}]
    /\ up \subseteq Procs /\ saved \in [Procs -> BOOLEAN]
    /\ job \in [Threads -> Seq(Steps)] /\ arg \in [Threads -> SUBSET Resolvers]
    /\ sound \in BOOLEAN
    /\ live \in 0..MaxLive /\ faults \in 0..MaxFaults /\ ends \in 0..MaxEnds

Init ==
    /\ metric = "user" /\ templates = Preset
    /\ file = [metric |-> FALSE, doh |-> {}, owner |-> None]
    /\ up = {} /\ saved = [p \in Procs |-> FALSE]
    /\ job = [t \in Threads |-> <<>>] /\ arg = [t \in Threads |-> {}]
    /\ copy = [t \in Threads |-> None] /\ sound = TRUE
    /\ live = 0 /\ faults = 0 /\ ends = 0

-----------------------------------------------------------------------------
(* Threads and their steps.                                                *)

\* A thread is given something to do.
Begins(t, steps) ==
    /\ Proc(t) \in up /\ job[t] = <<>>
    /\ Overlap \/ \A s \in Threads : job[s] = <<>>
    /\ job' = [job EXCEPT ![t] = steps]

Doing(t, step) == job[t] # <<>> /\ Head(job[t]) = step
\* The step is over, and the next n are not needed.
Skips(t, n) == job' = [job EXCEPT ![t] = SubSeq(@, n + 2, Len(@))]
Done(t)     == Skips(t, 0)

OwnerAlive(t) == file.owner \in up \ {Proc(t)}

\* merge(): the record is read, then written back with one key changed and
\* the writer as its owner.
Changed(record, t, step) ==
    [ metric |-> CASE step = "keep" -> TRUE [] step = "drop" -> FALSE
                   [] OTHER -> record.metric,
      doh    |-> CASE step = "save" -> arg[t] [] step = "forget" -> {}
                   [] OTHER -> record.doh,
      owner  |-> Proc(t) ]

MergeReads(t) == \E step \in {"keep", "drop", "save", "forget"} :
    /\ Doing(t, step) /\ copy[t] = None
    /\ copy' = [copy EXCEPT ![t] = file]
    /\ UNCHANGED <<machine, file, up, saved, job, arg, sound, counts>>

MergeWrites(t) == \E step \in {"keep", "drop", "save", "forget"} :
    /\ Doing(t, step) /\ copy[t] # None /\ Done(t)
    /\ file' = Changed(copy[t], t, step)
    /\ copy' = [copy EXCEPT ![t] = None] /\ arg' = [arg EXCEPT ![t] = {}]
    /\ UNCHANGED <<machine, up, saved, sound, counts>>

-----------------------------------------------------------------------------
(* ensure_physical_metric_below_vpn and its two undoings.                  *)

\* Faulty: the metric is noted after it was changed.
SeesSetsFirst(t) ==
    /\ Doing(t, "see")
    /\ job' = [job EXCEPT ![t] =
          IF metric = "low" THEN <<>>
          ELSE IF saved[Proc(t)] THEN <<"set">> ELSE <<"set", "keep">>]
    /\ saved' = [saved EXCEPT ![Proc(t)] = @ \/ metric = "user"]
    /\ UNCHANGED <<machine, file, up, arg, copy, sound, counts>>

\* A metric that is low already is left; what a process has saved it neither
\* saves nor notes again.
Sees(t) ==
    /\ Doing(t, "see")
    /\ IF metric = "low" THEN Skips(t, 2)
       ELSE IF saved[Proc(t)] THEN Skips(t, 1) ELSE Done(t)
    /\ saved' = [saved EXCEPT ![Proc(t)] = @ \/ metric = "user"]
    /\ UNCHANGED <<machine, file, up, arg, copy, sound, counts>>

Sets(t) ==
    /\ Doing(t, "set") /\ Done(t)
    /\ metric' = "low"
    /\ UNCHANGED <<templates, file, up, saved, arg, copy, sound, counts>>

\* restore_physical_metric
Unsets(t) ==
    /\ Doing(t, "unset")
    /\ IF saved[Proc(t)] THEN Done(t) ELSE Skips(t, 1)
    /\ metric' \in IF ~saved[Proc(t)] THEN {metric}
                   ELSE {"user"} \cup (IF SetFails THEN {metric} ELSE {})
    /\ saved' = [saved EXCEPT ![Proc(t)] = FALSE]
    /\ UNCHANGED <<templates, file, up, arg, copy, sound, counts>>

\* Faulty: only the writer itself may put back what it recorded.
RecallsOwn(t) ==
    /\ Doing(t, "recall")
    /\ IF file.owner # Proc(t) \/ ~file.metric THEN Skips(t, 2) ELSE Done(t)
    /\ UNCHANGED <<machine, file, up, saved, arg, copy, sound, counts>>

\* restore_recorded_physical_metric: not the record of another that runs.
Recall(t) ==
    /\ Doing(t, "recall")
    /\ IF OwnerAlive(t) \/ ~file.metric THEN Skips(t, 2) ELSE Done(t)
    /\ UNCHANGED <<machine, file, up, saved, arg, copy, sound, counts>>

Reset(t) ==
    /\ Doing(t, "reset") /\ Done(t)
    /\ metric' \in {"user"} \cup (IF SetFails THEN {metric} ELSE {})
    /\ UNCHANGED <<templates, file, up, saved, arg, copy, sound, counts>>

-----------------------------------------------------------------------------
(* _register_doh_server and _remove_doh_servers.                           *)

Registers(t) ==
    /\ Doing(t, "register") /\ Done(t)
    /\ templates' = templates \cup arg[t]
    /\ UNCHANGED <<metric, file, up, saved, arg, copy, sound, counts>>

\* What is recorded is appended to, whoever registered the template first.
Notes(t) ==
    /\ Doing(t, "note")
    /\ IF arg[t] \subseteq file.doh THEN Skips(t, 1) ELSE Done(t)
    /\ arg' = [arg EXCEPT ![t] = @ \cup file.doh]
    /\ UNCHANGED <<machine, file, up, saved, copy, sound, counts>>

Finds(t) ==
    /\ Doing(t, "find")
    /\ IF file.doh = {} THEN Skips(t, 2) ELSE Done(t)
    /\ arg' = [arg EXCEPT ![t] = file.doh]
    /\ UNCHANGED <<machine, file, up, saved, copy, sound, counts>>

\* Faulty: a refused removal is taken for a removal.
RemovesUnverified(t) ==
    /\ Doing(t, "remove") /\ Done(t)
    /\ \/ templates' = templates \ arg[t] /\ UNCHANGED faults
       \/ faults < MaxFaults /\ faults' = faults + 1 /\ UNCHANGED templates
    /\ UNCHANGED <<metric, file, up, saved, arg, copy, sound, live, ends>>

\* The store is enumerated again: what is still there keeps its record.
Removes(t) ==
    /\ Doing(t, "remove")
    /\ \/ templates' = templates \ arg[t] /\ Done(t) /\ UNCHANGED <<faults, sound>>
       \/ /\ faults < MaxFaults /\ faults' = faults + 1
          /\ Skips(t, 1) /\ sound' = (sound /\ t # "ui")
          /\ UNCHANGED templates
    /\ UNCHANGED <<metric, file, up, saved, arg, copy, live, ends>>

-----------------------------------------------------------------------------
(* The processes.                                                          *)

\* The end of a process: its memory and its place as an owner go with it.
Ends(procs) ==
    /\ up' = up \ procs
    /\ saved' = [p \in Procs |-> saved[p] /\ p \notin procs]
    /\ file' = IF file.owner \in procs THEN [file EXCEPT !.owner = None] ELSE file

Dropped(procs) == [t \in Threads |-> IF Proc(t) \in procs THEN <<>> ELSE job[t]]
Unread(procs)  == [t \in Threads |-> IF Proc(t) \in procs THEN None ELSE copy[t]]

\* Startup recovery runs before anything is launched.
DashStarts ==
    /\ "dash" \notin up /\ job["watch"] = <<>>
    /\ up' = (up \ {"watch"}) \cup {"dash"} /\ live' = 0 /\ sound' = TRUE
    /\ job' = [job EXCEPT !["ui"] = Sweep]
    /\ UNCHANGED <<machine, file, saved, arg, copy, faults, ends>>

HelperStarts ==
    /\ "dash" \in up /\ "helper" \notin up /\ job["ui"] = <<>>
    /\ up' = up \cup {"helper"}
    /\ UNCHANGED <<machine, file, saved, threads, sound, counts>>

\* configure_tun in DoH mode, once for each family's resolver.
HelperEnables == \E r \in Resolvers :
    /\ Begins("main", Enables)
    /\ arg' = [arg EXCEPT !["main"] = {r}]
    /\ UNCHANGED <<machine, file, up, saved, copy, sound, counts>>

\* add_geoip_bypass in the helper's geo thread.
HelperLowers ==
    /\ Begins("geo", Lowers)
    /\ UNCHANGED <<machine, file, up, saved, arg, copy, sound, counts>>

\* _check_gateway_change: put back, then lowered on the new adapter.
HelperRelowers ==
    /\ Begins("main", Unlowers \o Lowers)
    /\ UNCHANGED <<machine, file, up, saved, arg, copy, sound, counts>>

HelperCleans ==
    /\ Begins("main", Cleanup)
    /\ UNCHANGED <<machine, file, up, saved, arg, copy, sound, counts>>

HelperLeaves ==
    /\ Doing("main", "end")
    /\ Ends({"helper"})
    /\ job' = Dropped({"helper"}) /\ copy' = Unread({"helper"})
    /\ UNCHANGED <<machine, arg, sound, counts>>

\* [R]: add_geoip_bypass runs in the dashboard, with its own copy of the
\* module's globals.
DashLowers ==
    /\ live < MaxLive /\ live' = live + 1
    /\ Begins("live", Lowers)
    /\ UNCHANGED <<machine, file, up, saved, arg, copy, sound, faults, ends>>

\* [T], a restart's stop, and the clean-up after a helper's exit.
DashSweeps ==
    /\ Begins("ui", Sweep)
    /\ sound' = TRUE
    /\ UNCHANGED <<machine, file, up, saved, arg, copy, counts>>

\* [Q] and the exit handler: sweep, then leave.
DashQuits ==
    /\ Begins("ui", Sweep \o <<"end">>)
    /\ sound' = TRUE
    /\ UNCHANGED <<machine, file, up, saved, arg, copy, counts>>

\* A sweep ends the helper first.
Kills(t) ==
    /\ Doing(t, "kill")
    /\ Ends({"helper"})
    /\ job' = [Dropped({"helper"}) EXCEPT ![t] = Tail(@)]
    /\ copy' = Unread({"helper"})
    /\ UNCHANGED <<machine, arg, sound, counts>>

\* A clean exit takes the marker along and leaves the watchdog nothing to do.
DashLeaves ==
    /\ Doing("ui", "end")
    /\ Ends({"dash"})
    /\ job' = [Dropped({"dash"}) EXCEPT !["watch"] = IF sound THEN <<>> ELSE Sweep]
    /\ copy' = Unread({"dash"})
    /\ UNCHANGED <<machine, arg, sound, counts>>

\* Killed between any two steps, one or both.
Killed == \E procs \in {{"helper"}, {"dash"}, {"helper", "dash"}} :
    /\ procs \subseteq up
    /\ ends < MaxEnds /\ ends' = ends + 1
    /\ Ends(procs)
    /\ job' = IF "dash" \in procs
              THEN [Dropped(procs) EXCEPT !["watch"] = Sweep] ELSE Dropped(procs)
    /\ copy' = Unread(procs)
    /\ UNCHANGED <<machine, arg, sound, live, faults>>

Works(t) ==
    \/ MergeReads(t) \/ MergeWrites(t)
    \/ Sees(t) \/ Sets(t) \/ Unsets(t) \/ Recall(t) \/ Reset(t)
    \/ Registers(t) \/ Notes(t) \/ Finds(t) \/ Removes(t) \/ Kills(t)

Next ==
    \/ \E t \in Threads : Works(t)
    \/ DashStarts \/ HelperStarts \/ HelperEnables \/ HelperLowers \/ HelperRelowers
    \/ HelperCleans \/ HelperLeaves \/ DashLowers \/ DashSweeps \/ DashQuits
    \/ DashLeaves \/ Killed

Spec == Init /\ [][Next]_vars

\* Threads go on; nobody has to start, sweep or quit.
FairSpec ==
    /\ Spec
    /\ \A t \in Threads : WF_vars(Works(t))
    /\ WF_vars(HelperLeaves) /\ WF_vars(DashLeaves)

-----------------------------------------------------------------------------
(* Properties.                                                             *)

\* residue.py: a metric that is not the user's can be put back by whoever
\* comes next, wherever the process that lowered it was killed.
MetricAccounted == TypeOK /\ (metric = "low" => file.metric)

\* helper.py, "keep the record: a later owner retries": the record of a
\* template is not dropped while the template is registered.
RecordOutlivesTemplate ==
    [][\A r \in file.doh \ file'.doh : r \notin templates]_vars

\* The owners together: a dashboard that has ended, however it did, is
\* followed by the user's own metric or by the next dashboard.
MetricComesBack == ("dash" \notin up) ~> (metric = "user" \/ "dash" \in up)

\* _register_doh_server: "A user's own pre-existing mapping for the same
\* address is not in the record, so it is never touched".
PresetKept == Preset \subseteq templates
=============================================================================
