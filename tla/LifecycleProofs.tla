-------------------------- MODULE LifecycleProofs --------------------------
(***************************************************************************)
(* Theorems about the dashboard's lifecycle, for any number of helpers and *)
(* so of readers and clean-up threads.                                     *)
(*                                                                         *)
(* That sweeps under the lock exclude one another follows from who holds   *)
(* the lock: a thread that sweeps, or has swept and not yet unlocked, is   *)
(* its holder.  That in turn needs the UI thread, which sweeps without the *)
(* lock, never to be on the path that releases it.                         *)
(***************************************************************************)
EXTENDS Lifecycle, TLAPS

Locked(t) == pc[t] \in {"end helper", "wipe", "unlock"}

\* The labels the UI thread goes through: its [Q] has a sweep of its own.
UiLabels == {"idle", "start", "request", "refused", "launch", "spawn", "quit",
             "end helper", "wipe", "quit done", "exit", "gone", "poll"}

UiNeverUnlocks == pc[Ui] \in UiLabels

SweeperHoldsLock == \A t \in Threads \ {Ui} : Locked(t) => lock = t

\* The threads and the readers end with the process.
AllGone ==
    ~Running => /\ \A t \in Threads : pc[t] = "gone"
                /\ \A h \in Helpers : reader[h] = "done"

LifecycleInv ==
    /\ TypeOK
    /\ AllGone
    /\ UiNeverUnlocks
    /\ SweeperHoldsLock
    /\ StopClaimTracksWorker

-----------------------------------------------------------------------------
(* Facts about the threads and the operators the actions are built from. *)

\* The threads that are not clean-ups are three different ones, none of them
\* nobody.
LEMMA ThreadsDiffer ==
    /\ Ui \in Threads /\ Stopper \in Threads /\ Restarter \in Threads
    /\ Ui # Stopper /\ Ui # Restarter /\ Stopper # Restarter
    /\ \A h \in Helpers : Cleaner(h) \in Threads \ {Ui, Stopper, Restarter}
    /\ Nobody \notin Threads
BY DEF Threads, Ui, Stopper, Restarter, Cleaners, Cleaner, Nobody

\* A request to the machine, granted or refused, leaves it in a state it has.
LEMMA TryMoveType ==
    ASSUME NEW source \in TunnelStates, NEW target \in TunnelStates
    PROVE  TryMove(source, target) \in TunnelStates
BY DEF TryMove

\* The states the dashboard asks for exist.
LEMMA StatesAskedFor ==
    {"STOPPED", "STOPPING", "STARTING", "FAILED", "VERIFYING", "RUNNING"}
        \subseteq TunnelStates
BY DEF TunnelStates, StartPhases, StartSeq, Health, Operational, Terminal

\* A step of one thread moves that thread only.
LEMMA GotoMoves ==
    ASSUME pc \in [Threads -> Labels], NEW t \in Threads, NEW label \in Labels,
           Goto(t, label)
    PROVE  /\ pc' \in [Threads -> Labels]
           /\ pc'[t] = label
           /\ \A u \in Threads \ {t} : pc'[u] = pc[u]
BY DEF Goto

-----------------------------------------------------------------------------
\* The invariant holds at the start.
LEMMA InitEstablishes == Init => LifecycleInv
<1> SUFFICES ASSUME Init PROVE LifecycleInv
    OBVIOUS
<1>1. TypeOK
  <2>1. pc \in [Threads -> Labels]
    BY DEF Init, Labels
  <2>2. machine \in TunnelStates
    BY StatesAskedFor DEF Init
  <2>3. proc \in 0..MaxHelpers
    BY MaxHelpersAssumption DEF Init
  <2>4. helper \in [Helpers -> {"none", "alive", "dead"}]
    BY DEF Init
  <2>5. reader \in [Helpers -> {"none", "reading", "publish", "spawn", "done"}]
    BY DEF Init
  <2> QED
    BY <2>1, <2>2, <2>3, <2>4, <2>5 DEF Init, TypeOK
<1>2. AllGone /\ UiNeverUnlocks /\ SweeperHoldsLock
    BY ThreadsDiffer DEF Init, AllGone, Running, UiNeverUnlocks, UiLabels,
                         SweeperHoldsLock, Locked
<1>3. StopClaimTracksWorker
    BY ThreadsDiffer DEF Init, StopClaimTracksWorker, StopLabels
<1> QED
    BY <1>1, <1>2, <1>3 DEF LifecycleInv

-----------------------------------------------------------------------------
(* The inductive step.  What the invariant says of the threads together is  *)
(* kept by any step of one thread that deals with the lock as the code      *)
(* does; what is left of each action is to see that it does, and the types. *)

ThreadsInv == AllGone /\ UiNeverUnlocks /\ SweeperHoldsLock /\ StopClaimTracksWorker

\* One thread moves: it takes the lock only when it is free, and gives it up
\* only if it is its own; it is inside only with the lock; and only the [T]
\* worker's moves are followed by the claim.
LEMMA OneThreadMoves ==
    ASSUME LifecycleInv,
           NEW t \in Threads, NEW label \in Labels, Goto(t, label),
           Running, label # "gone",
           t = Ui => label \in UiLabels,
           t # Ui /\ label \in {"end helper", "wipe", "unlock"} => lock' = t,
           lock' = lock \/ lock = Nobody \/ (lock = t /\ t # Ui),
           stopRequested' <=> IF t = Stopper THEN label \in StopLabels
                              ELSE stopRequested
    PROVE  pc' \in [Threads -> Labels] /\ ThreadsInv'
<1>1. /\ pc' \in [Threads -> Labels]
      /\ pc'[t] = label
      /\ \A u \in Threads \ {t} : pc'[u] = pc[u]
    BY GotoMoves DEF LifecycleInv, TypeOK
<1>0. Running /\ Running' /\ AllGone'
    BY <1>1, ThreadsDiffer DEF LifecycleInv, AllGone, Running
<1>2. UiNeverUnlocks'
    BY <1>1, ThreadsDiffer DEF LifecycleInv, UiNeverUnlocks
<1>3. SweeperHoldsLock'
  <2> SUFFICES ASSUME NEW u \in Threads \ {Ui}, Locked(u)' PROVE lock' = u
    BY DEF SweeperHoldsLock
  <2>1. CASE u = t
    BY <2>1, <1>1 DEF Locked
  <2>2. CASE u # t
    <3>1. lock = u
      BY <2>2, <1>1 DEF Locked, LifecycleInv, SweeperHoldsLock
    <3> QED
      BY <3>1, <2>2, ThreadsDiffer
  <2> QED
    BY <2>1, <2>2
<1>4. StopClaimTracksWorker'
  <2>1. CASE t = Stopper
    BY <2>1, <1>1 DEF StopClaimTracksWorker
  <2>2. CASE t # Stopper
    BY <2>2, <1>0, <1>1, ThreadsDiffer DEF LifecycleInv, StopClaimTracksWorker
  <2> QED
    BY <2>1, <2>2
<1> QED
    BY <1>0, <1>1, <1>2, <1>3, <1>4 DEF ThreadsInv

\* No thread moves.
LEMMA NoThreadMoves ==
    ASSUME LifecycleInv, UNCHANGED <<pc, lock, stopRequested>>,
           Running \/ UNCHANGED reader
    PROVE  pc' \in [Threads -> Labels] /\ ThreadsInv'
BY DEF LifecycleInv, ThreadsInv, TypeOK, AllGone, UiNeverUnlocks, SweeperHoldsLock,
       Locked, StopClaimTracksWorker, Running

\* Where a thread goes on after its stop() is a label of its path.
LEMMA AfterStopLabel ==
    ASSUME NEW t \in Threads
    PROVE  /\ AfterStop(t) \in Labels
           /\ AfterStop(t) \notin {"end helper", "wipe", "unlock", "gone"}
           /\ t = Stopper => AfterStop(t) \in StopLabels
BY ThreadsDiffer DEF AfterStop, Labels, StopLabels

\* What the invariant says of one thread.
LEMMA OfOneThread ==
    ASSUME LifecycleInv, NEW t \in Threads, pc[t] # "gone"
    PROVE  /\ TypeOK /\ Running
           /\ t = Ui => pc[t] \in UiLabels
           /\ t = Stopper => (stopRequested <=> pc[t] \in StopLabels)
           /\ t # Ui /\ Locked(t) => lock = t
BY DEF LifecycleInv, AllGone, UiNeverUnlocks, StopClaimTracksWorker,
   SweeperHoldsLock

\* A reader that is not done is part of a process that is there.
LEMMA OfOneReader ==
    ASSUME LifecycleInv, NEW h \in Helpers, reader[h] # "done"
    PROVE  Running
BY DEF LifecycleInv, AllGone

\* The next helper, while there is one, is a helper.
LEMMA NextHelper ==
    ASSUME NEW p \in 0..MaxHelpers, p < MaxHelpers
    PROVE  p + 1 \in 0..MaxHelpers /\ p + 1 \in Helpers
BY MaxHelpersAssumption DEF Helpers

\* The parts make the whole.
LEMMA Together == (TypeOK /\ ThreadsInv <=> LifecycleInv)'
BY DEF LifecycleInv, ThreadsInv

\* A teardown, whosever: the lock is taken free, kept through the sweep, and
\* given up by its holder.
LEMMA TeardownPreserves ==
    ASSUME LifecycleInv, NEW t \in Threads, Teardown(t)
    PROVE  LifecycleInv'
<1> USE DEF At, Locked, Labels, UiLabels, StopLabels, procs, flags
<1>0. TypeOK
    BY DEF LifecycleInv
<1>1. CASE StopChecks(t)
  <2>0. /\ t # Ui /\ Running /\ lock' = lock
        /\ stopRequested' = stopRequested
        /\ t = Stopper => stopRequested
    BY <1>1, ThreadsDiffer, OfOneThread DEF StopChecks
  <2>1. pc' \in [Threads -> Labels] /\ ThreadsInv'
    <3>1. CASE cleanupDone
      <4>1. Goto(t, AfterStop(t))
        BY <3>1, <1>1 DEF StopChecks
      <4> QED
        BY <4>1, <2>0, AfterStopLabel, OneThreadMoves
    <3>2. CASE ~cleanupDone /\ stopping
      <4>1. Goto(t, "wait")
        BY <3>2, <1>1 DEF StopChecks
      <4> QED
        BY <4>1, <2>0, OneThreadMoves
    <3>3. CASE ~cleanupDone /\ ~stopping
      <4>1. Goto(t, "claim")
        BY <3>3, <1>1 DEF StopChecks
      <4> QED
        BY <4>1, <2>0, OneThreadMoves
    <3> QED
      BY <3>1, <3>2, <3>3
  <2>2. TypeOK'
    BY <2>1, <1>0, <1>1 DEF StopChecks, TypeOK
  <2> QED
    BY <2>1, <2>2, Together
<1>2. CASE StopWaits(t)
  <2>1. pc' \in [Threads -> Labels] /\ ThreadsInv'
    BY <1>2, ThreadsDiffer, OfOneThread, AfterStopLabel, OneThreadMoves
       DEF StopWaits
  <2>2. TypeOK'
    BY <2>1, <1>0, <1>2 DEF StopWaits, TypeOK
  <2> QED
    BY <2>1, <2>2, Together
<1>3. CASE StopClaims(t)
  <2>1. pc' \in [Threads -> Labels] /\ ThreadsInv'
    BY <1>3, ThreadsDiffer, OfOneThread, OneThreadMoves DEF StopClaims
  <2>2. TypeOK'
    BY <2>1, <1>0, <1>3 DEF StopClaims, TypeOK
  <2> QED
    BY <2>1, <2>2, Together
<1>4. CASE StopLocks(t)
  <2>1. pc' \in [Threads -> Labels] /\ ThreadsInv'
    BY <1>4, ThreadsDiffer, OfOneThread, OneThreadMoves DEF StopLocks
  <2>2. TypeOK'
    <3>1. machine' \in TunnelStates /\ paused' \in BOOLEAN
      BY <1>0, <1>4, TryMoveType, StatesAskedFor DEF StopLocks, TypeOK
    <3> QED
      BY <2>1, <3>1, <1>0, <1>4, ThreadsDiffer DEF StopLocks, TypeOK
  <2> QED
    BY <2>1, <2>2, Together
<1>5. CASE SweepEndsHelper(t)
  <2>1. pc' \in [Threads -> Labels] /\ ThreadsInv'
    BY <1>5, ThreadsDiffer, OfOneThread, OneThreadMoves DEF SweepEndsHelper
  <2>2. TypeOK'
    <3>1. helper' \in [Helpers -> {"none", "alive", "dead"}]
      BY <1>0, <1>5 DEF SweepEndsHelper, TypeOK
    <3> QED
      BY <2>1, <3>1, <1>0, <1>5, ThreadsDiffer DEF SweepEndsHelper, TypeOK
  <2> QED
    BY <2>1, <2>2, Together
<1>6. CASE SweepWipes(t)
  <2>1. pc' \in [Threads -> Labels] /\ ThreadsInv'
    <3>1. CASE t = Ui
      BY <3>1, <1>6, ThreadsDiffer, OfOneThread, OneThreadMoves DEF SweepWipes
    <3>2. CASE t # Ui
      BY <3>2, <1>6, ThreadsDiffer, OfOneThread, OneThreadMoves DEF SweepWipes
    <3> QED
      BY <3>1, <3>2, <1>6 DEF SweepWipes
  <2>2. TypeOK'
    BY <2>1, <1>0, <1>6 DEF SweepWipes, TypeOK
  <2> QED
    BY <2>1, <2>2, Together
<1>7. CASE StopUnlocks(t)
  <2>1. pc' \in [Threads -> Labels] /\ ThreadsInv'
    BY <1>7, ThreadsDiffer, OfOneThread, OneThreadMoves DEF StopUnlocks
  <2>2. TypeOK'
    <3>1. machine' \in TunnelStates
      BY <1>0, <1>7, TryMoveType, StatesAskedFor DEF StopUnlocks, TypeOK
    <3> QED
      BY <2>1, <3>1, <1>0, <1>7, ThreadsDiffer DEF StopUnlocks, TypeOK
  <2> QED
    BY <2>1, <2>2, Together
<1>8. CASE StopReleases(t)
  <2>1. pc' \in [Threads -> Labels] /\ ThreadsInv'
    BY <1>8, ThreadsDiffer, OfOneThread, AfterStopLabel, OneThreadMoves
       DEF StopReleases
  <2>2. TypeOK'
    BY <2>1, <1>0, <1>8 DEF StopReleases, TypeOK
  <2> QED
    BY <2>1, <2>2, Together
<1> QED
    BY <1>1, <1>2, <1>3, <1>4, <1>5, <1>6, <1>7, <1>8 DEF Teardown

\* A start, whosever, leaves the lock alone.
LEMMA StartPreserves ==
    ASSUME LifecycleInv, NEW t \in Threads, Start(t)
    PROVE  LifecycleInv'
<1> USE DEF At, Locked, Labels, UiLabels, StopLabels, procs, flags
<1>0. TypeOK
    BY DEF LifecycleInv
<1>1. CASE StartChecks(t)
  <2>1. pc' \in [Threads -> Labels] /\ ThreadsInv'
    <3>1. CASE StartBlocked
      BY <3>1, <1>1, ThreadsDiffer, OfOneThread, OneThreadMoves DEF StartChecks
    <3>2. CASE ~StartBlocked
      BY <3>2, <1>1, ThreadsDiffer, OfOneThread, OneThreadMoves DEF StartChecks
    <3> QED
      BY <3>1, <3>2, <1>1 DEF StartChecks
  <2>2. TypeOK'
    BY <2>1, <1>0, <1>1 DEF StartChecks, TypeOK
  <2> QED
    BY <2>1, <2>2, Together
<1>2. CASE StartRequested(t)
  <2>1. pc' \in [Threads -> Labels] /\ ThreadsInv'
    <3>1. CASE CanMove(machine, "STARTING")
      BY <3>1, <1>2, ThreadsDiffer, OfOneThread, OneThreadMoves DEF StartRequested
    <3>2. CASE ~CanMove(machine, "STARTING")
      BY <3>2, <1>2, ThreadsDiffer, OfOneThread, OneThreadMoves DEF StartRequested
    <3> QED
      BY <3>1, <3>2, <1>2 DEF StartRequested
  <2>2. TypeOK'
    <3>1. machine' \in TunnelStates
      BY <1>0, <1>2, TryMoveType, StatesAskedFor DEF StartRequested, TypeOK
    <3> QED
      BY <2>1, <3>1, <1>0, <1>2, ThreadsDiffer DEF StartRequested, TypeOK
  <2> QED
    BY <2>1, <2>2, Together
<1>3. CASE StartForced(t)
  <2>1. pc' \in [Threads -> Labels] /\ ThreadsInv'
    <3>1. CASE machine = "STOPPING" \/ stopping
      BY <3>1, <1>3, ThreadsDiffer, OfOneThread, OneThreadMoves DEF StartForced
    <3>2. CASE ~(machine = "STOPPING" \/ stopping)
      BY <3>2, <1>3, ThreadsDiffer, OfOneThread, OneThreadMoves DEF StartForced
    <3> QED
      BY <3>1, <3>2, <1>3 DEF StartForced
  <2>2. TypeOK'
    <3>1. machine' \in TunnelStates
      BY <1>0, <1>3, TryMoveType, StatesAskedFor DEF StartForced, TypeOK
    <3> QED
      BY <2>1, <3>1, <1>0, <1>3, ThreadsDiffer DEF StartForced, TypeOK
  <2> QED
    BY <2>1, <2>2, Together
<1>4. CASE LaunchRearms(t)
  <2>1. pc' \in [Threads -> Labels] /\ ThreadsInv'
    BY <1>4, ThreadsDiffer, OfOneThread, OneThreadMoves DEF LaunchRearms
  <2>2. TypeOK'
    BY <2>1, <1>0, <1>4 DEF LaunchRearms, TypeOK
  <2> QED
    BY <2>1, <2>2, Together
<1>5. CASE LaunchSpawns(t)
  <2>1. pc' \in [Threads -> Labels] /\ ThreadsInv'
    BY <1>5, ThreadsDiffer, OfOneThread, OneThreadMoves DEF LaunchSpawns
  <2>2. TypeOK'
    <3>1. helper' \in [Helpers -> {"none", "alive", "dead"}]
      BY <1>0, <1>5 DEF LaunchSpawns, TypeOK
    <3>2. reader' \in [Helpers -> {"none", "reading", "publish", "spawn", "done"}]
      BY <1>0, <1>5 DEF LaunchSpawns, TypeOK
    <3>3. proc' \in 0..MaxHelpers
      BY <1>0, <1>5, NextHelper DEF LaunchSpawns, TypeOK
    <3>4. installed' \subseteq Helpers
      BY <1>0, <1>5, NextHelper DEF LaunchSpawns, TypeOK
    <3>5. machine' \in TunnelStates
      BY <1>0, <1>5, TryMoveType, StatesAskedFor DEF LaunchSpawns, TypeOK
    <3> QED
      BY <2>1, <3>1, <3>2, <3>3, <3>4, <3>5, <1>0, <1>5, ThreadsDiffer
         DEF LaunchSpawns, TypeOK
  <2> QED
    BY <2>1, <2>2, Together
<1>6. CASE LaunchFails(t)
  <2>1. pc' \in [Threads -> Labels] /\ ThreadsInv'
    BY <1>6, ThreadsDiffer, OfOneThread, OneThreadMoves DEF LaunchFails
  <2>2. TypeOK'
    <3>1. machine' \in TunnelStates
      BY <1>0, <1>6, TryMoveType, StatesAskedFor DEF LaunchFails, TypeOK
    <3> QED
      BY <2>1, <3>1, <1>0, <1>6, ThreadsDiffer DEF LaunchFails, TypeOK
  <2> QED
    BY <2>1, <2>2, Together
<1> QED
    BY <1>1, <1>2, <1>3, <1>4, <1>5, <1>6 DEF Start

\* A helper and its reader move no thread, until the reader starts a clean-up.
LEMMA HelperPreserves ==
    ASSUME LifecycleInv, NEW h \in Helpers,
           HelperDies(h) \/ ReaderMoves(h) \/ Reader(h)
    PROVE  LifecycleInv'
<1> USE DEF At, Locked, Labels, UiLabels, StopLabels, procs, flags
<1>0. TypeOK
    BY DEF LifecycleInv
<1>1. CASE HelperDies(h)
  <2>1. pc' \in [Threads -> Labels] /\ ThreadsInv'
    BY <1>1, NoThreadMoves, OfOneReader DEF HelperDies
  <2>2. TypeOK'
    <3>1. helper' \in [Helpers -> {"none", "alive", "dead"}]
      BY <1>0, <1>1 DEF HelperDies, TypeOK
    <3> QED
      BY <2>1, <3>1, <1>0, <1>1, ThreadsDiffer DEF HelperDies, TypeOK
  <2> QED
    BY <2>1, <2>2, Together
<1>2. CASE ReaderMoves(h)
  <2>1. pc' \in [Threads -> Labels] /\ ThreadsInv'
    BY <1>2, NoThreadMoves, OfOneReader DEF ReaderMoves
  <2>2. TypeOK'
    <3>1. machine' \in TunnelStates
      BY <1>0, <1>2, TryMoveType, StatesAskedFor DEF ReaderMoves, TypeOK
    <3> QED
      BY <2>1, <3>1, <1>0, <1>2, ThreadsDiffer DEF ReaderMoves, TypeOK
  <2> QED
    BY <2>1, <2>2, Together
<1>3. CASE ReaderEnds(h)
  <2>1. pc' \in [Threads -> Labels] /\ ThreadsInv'
    BY <1>3, NoThreadMoves, OfOneReader DEF ReaderEnds
  <2>2. TypeOK'
    <3>1. reader' \in [Helpers -> {"none", "reading", "publish", "spawn", "done"}]
      BY <1>0, <1>3 DEF ReaderEnds, TypeOK
    <3> QED
      BY <2>1, <3>1, <1>0, <1>3, ThreadsDiffer DEF ReaderEnds, TypeOK
  <2> QED
    BY <2>1, <2>2, Together
<1>4. CASE ReaderPublishes(h)
  <2>1. pc' \in [Threads -> Labels] /\ ThreadsInv'
    BY <1>4, NoThreadMoves, OfOneReader DEF ReaderPublishes
  <2>2. TypeOK'
    <3>1. machine' \in TunnelStates
      BY <1>0, <1>4, TryMoveType, StatesAskedFor DEF ReaderPublishes, TypeOK
    <3>2. reader' \in [Helpers -> {"none", "reading", "publish", "spawn", "done"}]
      BY <1>0, <1>4 DEF ReaderPublishes, TypeOK
    <3> QED
      BY <2>1, <3>1, <3>2, <1>0, <1>4, ThreadsDiffer DEF ReaderPublishes, TypeOK
  <2> QED
    BY <2>1, <2>2, Together
<1>5. CASE ReaderCleans(h)
  <2>1. pc' \in [Threads -> Labels] /\ ThreadsInv'
    <3>1. CASE shuttingDown
      BY <3>1, <1>5, ThreadsDiffer, OfOneThread, OfOneReader, NoThreadMoves
         DEF ReaderCleans
    <3>2. CASE ~shuttingDown
      BY <3>2, <1>5, ThreadsDiffer, OfOneThread, OfOneReader, OneThreadMoves
         DEF ReaderCleans
    <3> QED
      BY <3>1, <3>2, <1>5 DEF ReaderCleans
  <2>2. TypeOK'
    <3>1. reader' \in [Helpers -> {"none", "reading", "publish", "spawn", "done"}]
      BY <1>0, <1>5 DEF ReaderCleans, TypeOK
    <3> QED
      BY <2>1, <3>1, <1>0, <1>5, ThreadsDiffer DEF ReaderCleans, TypeOK
  <2> QED
    BY <2>1, <2>2, Together
<1> QED
    BY <1>1, <1>2, <1>3, <1>4, <1>5 DEF Reader

\* The keys.  [T] moves the worker, from its rest, together with the claim.
LEMMA KeysPreserve ==
    ASSUME LifecycleInv, UiKeys
    PROVE  LifecycleInv'
<1> USE DEF At, Locked, Labels, UiLabels, StopLabels, procs, flags
<1>0. TypeOK
    BY DEF LifecycleInv
<1>1. CASE PressS
  <2>1. pc' \in [Threads -> Labels] /\ ThreadsInv'
    <3>1. CASE pc' = pc
      BY <3>1, <1>1, ThreadsDiffer, OfOneThread, NoThreadMoves DEF PressS
    <3>2. CASE Goto(Ui, "start")
      BY <3>2, <1>1, ThreadsDiffer, OfOneThread, OneThreadMoves DEF PressS
    <3> QED
      BY <3>1, <3>2, <1>1 DEF PressS
  <2>2. TypeOK'
    BY <2>1, <1>0, <1>1 DEF PressS, TypeOK
  <2> QED
    BY <2>1, <2>2, Together
<1>2. CASE PressT
  <2>1. pc' \in [Threads -> Labels] /\ ThreadsInv'
    BY <1>2, ThreadsDiffer, OfOneThread, OneThreadMoves DEF PressT
  <2>2. TypeOK'
    BY <2>1, <1>0, <1>2 DEF PressT, TypeOK
  <2> QED
    BY <2>1, <2>2, Together
<1>3. CASE PressQ
  <2>1. pc' \in [Threads -> Labels] /\ ThreadsInv'
    BY <1>3, ThreadsDiffer, OfOneThread, OneThreadMoves DEF PressQ
  <2>2. TypeOK'
    BY <2>1, <1>0, <1>3 DEF PressQ, TypeOK
  <2> QED
    BY <2>1, <2>2, Together
<1> QED
    BY <1>1, <1>2, <1>3 DEF UiKeys

\* The [T] worker drops the claim as it leaves its stop(); a restart begins.
LEMMA WorkersPreserve ==
    ASSUME LifecycleInv, StopperEnds \/ RestartBegins
    PROVE  LifecycleInv'
<1> USE DEF At, Locked, Labels, UiLabels, StopLabels, procs, flags
<1>0. TypeOK
    BY DEF LifecycleInv
<1>1. CASE StopperEnds
  <2>1. pc' \in [Threads -> Labels] /\ ThreadsInv'
    <3>1. CASE queued /\ ~shuttingDown /\ ~Alive
      BY <3>1, <1>1, ThreadsDiffer, OfOneThread, OneThreadMoves DEF StopperEnds
    <3>2. CASE ~(queued /\ ~shuttingDown /\ ~Alive)
      BY <3>2, <1>1, ThreadsDiffer, OfOneThread, OneThreadMoves DEF StopperEnds
    <3> QED
      BY <3>1, <3>2, <1>1 DEF StopperEnds
  <2>2. TypeOK'
    BY <2>1, <1>0, <1>1 DEF StopperEnds, TypeOK
  <2> QED
    BY <2>1, <2>2, Together
<1>2. CASE RestartBegins
  <2>1. pc' \in [Threads -> Labels] /\ ThreadsInv'
    BY <1>2, ThreadsDiffer, OfOneThread, OneThreadMoves DEF RestartBegins
  <2>2. TypeOK'
    BY <2>1, <1>0, <1>2 DEF RestartBegins, TypeOK
  <2> QED
    BY <2>1, <2>2, Together
<1> QED
    BY <1>1, <1>2

\* [Q], the end of the process, and the frames.
LEMMA UiStepsPreserve ==
    ASSUME LifecycleInv, UiSteps
    PROVE  LifecycleInv'
<1> USE DEF At, Locked, Labels, UiLabels, StopLabels, procs, flags
<1>0. TypeOK
    BY DEF LifecycleInv
<1>1. CASE QuitBegins
  <2>1. pc' \in [Threads -> Labels] /\ ThreadsInv'
    BY <1>1, ThreadsDiffer, OfOneThread, OneThreadMoves DEF QuitBegins
  <2>2. TypeOK'
    <3>1. machine' \in TunnelStates
      BY <1>0, <1>1, TryMoveType, StatesAskedFor DEF QuitBegins, TypeOK
    <3> QED
      BY <2>1, <3>1, <1>0, <1>1, ThreadsDiffer DEF QuitBegins, TypeOK
  <2> QED
    BY <2>1, <2>2, Together
<1>2. CASE QuitEnds
  <2>1. pc' \in [Threads -> Labels] /\ ThreadsInv'
    BY <1>2, ThreadsDiffer, OfOneThread, OneThreadMoves DEF QuitEnds
  <2>2. TypeOK'
    <3>1. machine' \in TunnelStates
      BY <1>0, <1>2, TryMoveType, StatesAskedFor DEF QuitEnds, TypeOK
    <3> QED
      BY <2>1, <3>1, <1>0, <1>2, ThreadsDiffer DEF QuitEnds, TypeOK
  <2> QED
    BY <2>1, <2>2, Together
<1>3. CASE ProcessExits
  <2>1. /\ pc' = [u \in Threads |-> "gone"]
        /\ reader' = [h \in Helpers |-> "done"]
    BY <1>3 DEF ProcessExits
  <2>2. pc' \in [Threads -> Labels] /\ ThreadsInv'
    BY <2>1, ThreadsDiffer DEF ThreadsInv, AllGone, UiNeverUnlocks,
       SweeperHoldsLock,
                               StopClaimTracksWorker, Running
  <2>3. helper' \in [Helpers -> {"none", "alive", "dead"}]
    BY <1>3 DEF ProcessExits
  <2>4. reader' \in [Helpers -> {"none", "reading", "publish", "spawn", "done"}]
    BY <2>1
  <2>5. TypeOK'
    BY <2>2, <2>3, <2>4, <1>0, <1>3 DEF ProcessExits, TypeOK
  <2> QED
    BY <2>2, <2>5, Together
<1>4. CASE PollFindsHelperGone
  <2>1. pc' \in [Threads -> Labels] /\ ThreadsInv'
    BY <1>4, ThreadsDiffer, OfOneThread, OneThreadMoves DEF PollFindsHelperGone
  <2>2. TypeOK'
    <3>1. machine' \in TunnelStates
      BY <1>0, <1>4, TryMoveType, StatesAskedFor DEF PollFindsHelperGone, TypeOK
    <3> QED
      BY <2>1, <3>1, <1>0, <1>4, ThreadsDiffer DEF PollFindsHelperGone, TypeOK
  <2> QED
    BY <2>1, <2>2, Together
<1>5. CASE PollPublishes
  <2>1. pc' \in [Threads -> Labels] /\ ThreadsInv'
    BY <1>5, ThreadsDiffer, OfOneThread, OneThreadMoves DEF PollPublishes
  <2>2. TypeOK'
    <3>1. machine' \in TunnelStates
      BY <1>0, <1>5, TryMoveType, StatesAskedFor DEF PollPublishes, TypeOK
    <3> QED
      BY <2>1, <3>1, <1>0, <1>5, ThreadsDiffer DEF PollPublishes, TypeOK
  <2> QED
    BY <2>1, <2>2, Together
<1> QED
    BY <1>1, <1>2, <1>3, <1>4, <1>5 DEF UiSteps

-----------------------------------------------------------------------------
(* The theorems. *)

\* The invariant is inductive: every reachable state of the lifecycle has it.
THEOREM LifecycleInvariant == Spec => []LifecycleInv
<1>1. Init => LifecycleInv
    BY InitEstablishes
<1>2. LifecycleInv /\ [Next]_vars => LifecycleInv'
  <2> SUFFICES ASSUME LifecycleInv, [Next]_vars PROVE LifecycleInv'
    OBVIOUS
  <2>1. CASE UNCHANGED vars
    <3>1. pc' \in [Threads -> Labels] /\ ThreadsInv'
      BY <2>1, NoThreadMoves DEF vars, flags, procs
    <3>2. TypeOK'
      BY <2>1 DEF LifecycleInv, TypeOK, vars, flags, procs
    <3> QED
      BY <3>1, <3>2, Together
  <2>2. CASE \E t \in Threads : Steps(t)
    BY <2>2, TeardownPreserves, StartPreserves DEF Steps
  <2>3. CASE \E h \in Helpers : HelperDies(h) \/ ReaderMoves(h) \/ Reader(h)
    BY <2>3, HelperPreserves
  <2>4. CASE UiKeys \/ UiSteps
    BY <2>4, KeysPreserve, UiStepsPreserve
  <2>5. CASE StopperEnds \/ RestartBegins
    BY <2>5, WorkersPreserve
  <2> QED
    BY <2>1, <2>2, <2>3, <2>4, <2>5 DEF Next, Exited
<1> QED
    BY <1>1, <1>2, PTL DEF Spec

\* Every variable keeps its type.
THEOREM TypesHold == Spec => []TypeOK
<1>1. LifecycleInv => TypeOK
    BY DEF LifecycleInv
<1> QED
    BY <1>1, LifecycleInvariant, PTL

\* [T], a restart's own stop() and the post-exit clean-ups, of any number of
\* helpers, never sweep together.
THEOREM SweepsExclude == Spec => []LockedSweepsExclude
<1>1. LifecycleInv => LockedSweepsExclude
    BY DEF LifecycleInv, SweeperHoldsLock, Locked, LockedSweepsExclude, Sweeping
<1> QED
    BY <1>1, LifecycleInvariant, PTL

\* The claim on [T] is set exactly while its worker is stopping.
THEOREM ClaimTracksWorker == Spec => []StopClaimTracksWorker
<1>1. LifecycleInv => StopClaimTracksWorker
    BY DEF LifecycleInv
<1> QED
    BY <1>1, LifecycleInvariant, PTL
=============================================================================
