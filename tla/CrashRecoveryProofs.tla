------------------------ MODULE CrashRecoveryProofs ------------------------
(***************************************************************************)
(* Theorems about what a session leaves behind and who removes it, for any *)
(* sessions and any number of removals that fail, with a kill or a power   *)
(* loss between any two tasks: a marker is retired only over a system that *)
(* holds nothing of its session but what the one who retires it has no     *)
(* verdict on, and nothing is swept from under a session that is up.       *)
(*                                                                         *)
(* Both rest on who is at work: at most one dashboard lives, a watchdog    *)
(* that has read the marker twice is the only one and no dashboard lives,  *)
(* and each of them knows what the tasks before have done.                 *)
(***************************************************************************)
EXTENDS CrashRecovery, TLAPS

\* Sessions do not overlap, and a helper is recorded before it can outlive its
\* dashboard: nothing of this holds otherwise.
InTurn == ~Overlap /\ ~Gap

StartTasks == Kinds \cup {"scan", "mark", "watchdog", "launch", "record"}
ExitTasks  == Kinds \cup {"stop", "atexit", "verify", "restore", "clear"}
WatchTasks == Kinds \cup {"check", "recheck", "kill", "scan", "retire"}

\* The task of a program with d tasks after it.
At(p, d) == p[Len(p) - d]

\* Which task stands where, counted from the end of what is left of a program.
StartAt(task, d) ==
    /\ (task = "mark") <=> (d = 4)
    /\ (task = "launch") <=> (d = 1)
    /\ (task = "record") <=> (d = 0)
    /\ (task = "scan") => (d > 4)

\* The exit handler's tasks are the last of their program, unless the system
\* ends the process first.
ExitAt(task, d, handled) ==
    /\ (task \in {"atexit", "clear"}) => handled
    /\ (task = "clear") => (d = 0)
    /\ (task = "atexit") => (d = 8)
    /\ (handled /\ d = 7) => (task = "stop")
    /\ (handled /\ d = 5) => (task = "host")
    /\ (handled /\ d = 4) => (task = "verify")
    /\ (handled /\ d = 2) => (task = "residue")

WatchAt(task, d) ==
    /\ (task = "check") <=> (d = 10)
    /\ (task = "recheck") <=> (d = 9)
    /\ (task = "kill") <=> (d = 8)
    /\ (task = "scan") <=> (d = 7)
    /\ (task = "retire") <=> (d = 0)

Handled(p)    == Len(p) > 0 /\ At(p, 0) = "clear"
StartShape(p) == /\ p \in Seq(StartTasks)
                 /\ \A d \in 0..(Len(p) - 1) : StartAt(At(p, d), d)
ExitShape(p)  == /\ p \in Seq(ExitTasks)
                 /\ \A d \in 0..(Len(p) - 1) : ExitAt(At(p, d), d, Handled(p))
WatchShape(p) == /\ p \in Seq(WatchTasks) /\ Len(p) <= 11
                 /\ \A d \in 0..(Len(p) - 1) : WatchAt(At(p, d), d)

Planned ==
    \A s \in Sessions :
        /\ dash[s] = "starting" => StartShape(todo[s])
        /\ dash[s] = "up" => todo[s] = <<>>
        /\ dash[s] = "leaving" => ExitShape(todo[s])
        /\ watch[s] = "watching" => WatchShape(wtodo[s])

OneLive == \A s, t \in Sessions : Lives(s) /\ Lives(t) => s = t

\* The marker is the live session's from the moment it is written, and never
\* that of one that has not written it.
Owned ==
    /\ marker.owner = None => marker = NoMarker
    /\ \A s \in Sessions :
         /\ Lives(s) /\ ~Unmarked(s) => marker.owner = s
         /\ dash[s] = "new" \/ Unmarked(s) => marker.owner # s

\* A helper that outlives its dashboard is the one the marker records.
Recorded ==
    \A s \in Sessions :
        dash[s] = "gone" /\ helper[s] = "alive" /\ marker.owner = s => marker.helper = s

\* A session has nothing in the system before its helper runs, and no session
\* takes that of its own for the user's.
Unused ==
    \A s \in Sessions :
        /\ dash[s] = "new" \/ (dash[s] = "starting" /\ Len(todo[s]) >= 2)
              => helper[s] = "none"
        /\ helper[s] = "none" =>
              left[s] = {} /\ \A t \in Sessions : snap[t][s] = {}
        /\ snap[s][s] = {}

\* What the exit handler has done, if its verdict is good.
ExitKnows ==
    \A s \in Sessions :
        LET n == Len(todo[s])
        IN dash[s] = "leaving" /\ Handled(todo[s]) /\ n <= 7 =>
            /\ helper[s] # "alive"
            /\ sound[s] => /\ n <= 5 => "host" \notin left[s]
                           /\ n <= 4 => left[s] \cap {"adapter", "geo"} = {}
                           /\ n <= 2 => "residue" \notin left[s]

\* A watchdog that has read the marker twice, killed the helper and swept.
WatchKnows ==
    \A s \in Sessions :
        LET n == Len(wtodo[s])
        IN watch[s] = "watching" /\ n <= 9 =>
            /\ dash[s] = "gone" /\ marker.owner = s /\ \A t \in Sessions : ~Lives(t)
            /\ n <= 8 => helper[s] # "alive"
            /\ n <= 7 /\ wsound[s] => \A k \in HeardByWatchdog :
                  k \notin left[s] \/ \E d \in 0..(n - 1) : At(wtodo[s], d) = k

Typed ==
    TypeOK /\ DOMAIN todo = Sessions /\ DOMAIN wtodo = Sessions

CrashInv ==
    /\ Typed /\ Planned /\ OneLive /\ Owned /\ Recorded /\ Unused
    /\ ExitKnows /\ WatchKnows
-----------------------------------------------------------------------------
(* Programs.                                                                *)

LEMMA KindsAre == Kinds = {"residue", "host", "adapter", "guard", "geo"}
BY DEF Kinds, ToSet, HelperInstalls

\* A step of a program takes its first task off and moves no other.
LEMMA TailAt ==
    ASSUME NEW S, NEW p \in Seq(S), p # <<>>
    PROVE  /\ Len(p) \in Nat /\ Len(p) >= 1
           /\ Tail(p) \in Seq(S) /\ Len(Tail(p)) = Len(p) - 1
           /\ Head(p) = At(p, Len(p) - 1) /\ Head(p) \in S
           /\ \A d \in 0..(Len(p) - 2) : At(Tail(p), d) = At(p, d)
<1>1. /\ Len(p) \in Nat /\ Len(p) >= 1
      /\ Tail(p) \in Seq(S) /\ Len(Tail(p)) = Len(p) - 1
      /\ \A i \in 1..(Len(p) - 1) : Tail(p)[i] = p[i + 1]
      /\ Head(p) = p[1] /\ p[1] \in S
  OBVIOUS
<1>2. ASSUME NEW d \in 0..(Len(p) - 2)
      PROVE  At(Tail(p), d) = At(p, d)
  <2>1. /\ (Len(p) - 1) - d \in 1..(Len(p) - 1)
        /\ ((Len(p) - 1) - d) + 1 = Len(p) - d
    BY <1>1
  <2>2. Tail(p)[(Len(p) - 1) - d] = p[((Len(p) - 1) - d) + 1]
    BY <1>1, <2>1
  <2> QED
    BY <1>1, <2>1, <2>2 DEF At
<1>3. Head(p) = At(p, Len(p) - 1)
  <2>1. Len(p) - (Len(p) - 1) = 1
    BY <1>1
  <2> QED
    BY <1>1, <2>1 DEF At
<1> QED
  BY <1>1, <1>2, <1>3

LEMMA StartTail ==
    ASSUME NEW p, StartShape(p), p # <<>>
    PROVE  /\ StartShape(Tail(p)) /\ Len(Tail(p)) = Len(p) - 1
           /\ Len(p) \in Nat /\ Len(p) >= 1
           /\ Head(p) \in StartTasks /\ StartAt(Head(p), Len(p) - 1)
<1>1. /\ Len(p) \in Nat /\ Len(p) >= 1
      /\ Tail(p) \in Seq(StartTasks) /\ Len(Tail(p)) = Len(p) - 1
      /\ Head(p) = At(p, Len(p) - 1) /\ Head(p) \in StartTasks
      /\ \A d \in 0..(Len(p) - 2) : At(Tail(p), d) = At(p, d)
  BY TailAt DEF StartShape
<1>2. ASSUME NEW d \in 0..(Len(Tail(p)) - 1)
      PROVE  StartAt(At(Tail(p), d), d)
  <2>1. d \in 0..(Len(p) - 2) /\ d \in 0..(Len(p) - 1)
    BY <1>1
  <2> QED
    BY <1>1, <2>1 DEF StartShape
<1>3. Len(p) - 1 \in 0..(Len(p) - 1)
  BY <1>1
<1> QED
  BY <1>1, <1>2, <1>3 DEF StartShape

LEMMA ExitTail ==
    ASSUME NEW p, ExitShape(p), p # <<>>
    PROVE  /\ ExitShape(Tail(p)) /\ Len(Tail(p)) = Len(p) - 1
           /\ Len(p) \in Nat /\ Len(p) >= 1
           /\ Handled(Tail(p)) => Handled(p)
           /\ Head(p) \in ExitTasks /\ ExitAt(Head(p), Len(p) - 1, Handled(p))
<1>1. /\ Len(p) \in Nat /\ Len(p) >= 1
      /\ Tail(p) \in Seq(ExitTasks) /\ Len(Tail(p)) = Len(p) - 1
      /\ Head(p) = At(p, Len(p) - 1) /\ Head(p) \in ExitTasks
      /\ \A d \in 0..(Len(p) - 2) : At(Tail(p), d) = At(p, d)
  BY TailAt DEF ExitShape
<1>3. Len(p) >= 2 => 0 \in 0..(Len(p) - 2)
  BY <1>1
<1>4. Len(p) >= 2 => (Handled(Tail(p)) <=> Handled(p))
  BY <1>1, <1>3 DEF Handled
<1>5. ASSUME NEW d \in 0..(Len(Tail(p)) - 1)
      PROVE  ExitAt(At(Tail(p), d), d, Handled(Tail(p)))
  <2>1. d \in 0..(Len(p) - 2) /\ d \in 0..(Len(p) - 1) /\ Len(p) >= 2
    BY <1>1
  <2>2. ExitAt(At(p, d), d, Handled(p)) /\ At(Tail(p), d) = At(p, d)
    BY <1>1, <2>1 DEF ExitShape
  <2>3. Handled(Tail(p)) <=> Handled(p)
    BY <1>4, <2>1
  <2> QED
    BY <2>2, <2>3 DEF ExitAt
<1>6. Len(p) - 1 \in 0..(Len(p) - 1)
  BY <1>1
<1>7. ExitShape(Tail(p))
  BY <1>1, <1>5 DEF ExitShape
<1>8. ExitAt(Head(p), Len(p) - 1, Handled(p))
  BY <1>1, <1>6 DEF ExitShape
<1>9. Handled(Tail(p)) => Handled(p)
  BY <1>1, <1>4 DEF Handled
<1> QED
  BY <1>1, <1>7, <1>8, <1>9

LEMMA WatchTail ==
    ASSUME NEW p, WatchShape(p), p # <<>>
    PROVE  /\ WatchShape(Tail(p)) /\ Len(Tail(p)) = Len(p) - 1
           /\ Len(p) \in Nat /\ Len(p) >= 1 /\ Len(p) <= 11
           /\ Head(p) \in WatchTasks /\ WatchAt(Head(p), Len(p) - 1)
           /\ Head(p) = At(p, Len(p) - 1)
           /\ \A d \in 0..(Len(p) - 2) : At(Tail(p), d) = At(p, d)
<1>1. /\ Len(p) \in Nat /\ Len(p) >= 1 /\ Len(p) <= 11
      /\ Tail(p) \in Seq(WatchTasks) /\ Len(Tail(p)) = Len(p) - 1
      /\ Head(p) = At(p, Len(p) - 1) /\ Head(p) \in WatchTasks
      /\ \A d \in 0..(Len(p) - 2) : At(Tail(p), d) = At(p, d)
  BY TailAt DEF WatchShape
<1>2. ASSUME NEW d \in 0..(Len(Tail(p)) - 1)
      PROVE  WatchAt(At(Tail(p), d), d)
  <2>1. d \in 0..(Len(p) - 2) /\ d \in 0..(Len(p) - 1)
    BY <1>1
  <2> QED
    BY <1>1, <2>1 DEF WatchShape
<1>3. Len(p) - 1 \in 0..(Len(p) - 1) /\ Len(Tail(p)) <= 11
  BY <1>1
<1>4. WatchShape(Tail(p))
  BY <1>1, <1>2, <1>3 DEF WatchShape
<1>5. WatchAt(Head(p), Len(p) - 1)
  BY <1>1, <1>3 DEF WatchShape
<1> QED
  BY <1>1, <1>4, <1>5

\* What comes after a program stands where it stood alone.
LEMMA JoinAt ==
    ASSUME NEW S, NEW T, NEW r \in Seq(S), NEW q \in Seq(T)
    PROVE  /\ r \o q \in Seq(S \cup T)
           /\ Len(r) \in Nat /\ Len(q) \in Nat /\ Len(r \o q) = Len(r) + Len(q)
           /\ \A d \in 0..(Len(q) - 1) : At(r \o q, d) = At(q, d)
           /\ \A d \in 0..(Len(r) - 1) : At(r \o q, d + Len(q)) = At(r, d)
           /\ \A d \in 0..(Len(r) - 1) : At(r, d) \in S
<1>1. /\ r \o q \in Seq(S \cup T)
      /\ Len(r) \in Nat /\ Len(q) \in Nat /\ Len(r \o q) = Len(r) + Len(q)
      /\ \A i \in 1..Len(r) : (r \o q)[i] = r[i] /\ r[i] \in S
      /\ \A i \in (Len(r) + 1)..(Len(r) + Len(q)) : (r \o q)[i] = q[i - Len(r)]
  <2>1. r \in Seq(S \cup T) /\ q \in Seq(S \cup T)
    OBVIOUS
  <2>2. r \o q \in Seq(S \cup T)
    BY <2>1
  <2> QED
    BY <2>2
<1>2. ASSUME NEW d \in 0..(Len(q) - 1)
      PROVE  At(r \o q, d) = At(q, d)
  <2>1. /\ (Len(r) + Len(q)) - d \in (Len(r) + 1)..(Len(r) + Len(q))
        /\ ((Len(r) + Len(q)) - d) - Len(r) = Len(q) - d
    BY <1>1
  <2>2. (r \o q)[(Len(r) + Len(q)) - d] = q[((Len(r) + Len(q)) - d) - Len(r)]
    BY <1>1, <2>1
  <2> QED
    BY <1>1, <2>1, <2>2 DEF At
<1>3. ASSUME NEW d \in 0..(Len(r) - 1)
      PROVE  At(r \o q, d + Len(q)) = At(r, d) /\ At(r, d) \in S
  <2>1. /\ Len(r) - d \in 1..Len(r)
        /\ (Len(r) + Len(q)) - (d + Len(q)) = Len(r) - d
    BY <1>1
  <2> QED
    BY <1>1, <2>1 DEF At
<1> QED
  BY <1>1, <1>2, <1>3

RecoveryTasks == {"guard", "residue", "adapter", "host"}

LEMMA JoinSame ==
    ASSUME NEW S, NEW r \in Seq(S), NEW q \in Seq(S)
    PROVE  /\ r \o q \in Seq(S) /\ Len(r \o q) = Len(r) + Len(q)
           /\ \A d \in 0..(Len(q) - 1) : At(r \o q, d) = At(q, d)
           /\ \A d \in 0..(Len(r) - 1) : At(r \o q, d + Len(q)) = At(r, d)
<1>1. r \o q \in Seq(S)
  OBVIOUS
<1> QED
  BY <1>1, JoinAt

LEMMA OnceIs ==
    ASSUME NEW task \in RecoveryTasks
    PROVE  /\ Once(task) \in Seq(RecoveryTasks)
           /\ Len(Once(task)) \in {0, 1}
           /\ task \in Present(Kinds) => (Len(Once(task)) = 1 /\ At(Once(task), 0) = task)
<1>1. CASE Needed(task)
  <2>1. Once(task) = <<task>>
    BY <1>1 DEF Once
  <2>2. <<task>> \in Seq(RecoveryTasks) /\ Len(<<task>>) = 1 /\ <<task>>[1] = task
    OBVIOUS
  <2>3. At(<<task>>, 0) = task
    BY <2>2 DEF At
  <2> QED
    BY <2>1, <2>2, <2>3
<1>2. CASE ~Needed(task)
  <2>1. Once(task) = <<>> /\ task \notin Present(Kinds)
    BY <1>2 DEF Once, Needed
  <2>2. <<>> \in Seq(RecoveryTasks) /\ Len(<<>>) = 0
    OBVIOUS
  <2> QED
    BY <2>1, <2>2
<1> QED
  BY <1>1, <1>2

\* The sweeps of a recovery, however many it finds a reason for.
LEMMA RecoveryIs ==
    /\ RecoveryNow \in Seq(RecoveryTasks)
    /\ Len(RecoveryNow) <= 4
    /\ "guard" \in Present(Kinds) =>
          \E d \in 0..(Len(RecoveryNow) - 1) : At(RecoveryNow, d) = "guard"
<1> DEFINE g   == Once("guard")
           r   == Once("residue")
           a   == Once("adapter")
           h   == Once("host")
           gr  == g \o r
           gra == gr \o a
<1>1. /\ g \in Seq(RecoveryTasks) /\ Len(g) \in {0, 1}
      /\ r \in Seq(RecoveryTasks) /\ Len(r) \in {0, 1}
      /\ a \in Seq(RecoveryTasks) /\ Len(a) \in {0, 1}
      /\ h \in Seq(RecoveryTasks) /\ Len(h) \in {0, 1}
  BY OnceIs DEF RecoveryTasks
<1>2. "guard" \in Present(Kinds) => Len(g) = 1 /\ At(g, 0) = "guard"
  BY OnceIs DEF RecoveryTasks
<1>3. RecoveryNow = gra \o h
  BY DEF RecoveryNow
<1> HIDE DEF g, r, a, h
<1>4. /\ gr \in Seq(RecoveryTasks) /\ Len(gr) = Len(g) + Len(r)
      /\ \A d \in 0..(Len(g) - 1) : At(gr, d + Len(r)) = At(g, d)
  BY <1>1, JoinSame
<1> HIDE DEF gr
<1>5. /\ gra \in Seq(RecoveryTasks) /\ Len(gra) = Len(gr) + Len(a)
      /\ \A d \in 0..(Len(gr) - 1) : At(gra, d + Len(a)) = At(gr, d)
  <2>1. gr \in Seq(RecoveryTasks) /\ a \in Seq(RecoveryTasks)
    BY <1>1, <1>4
  <2> QED
    BY <2>1, JoinSame
<1> HIDE DEF gra
<1>6. /\ RecoveryNow \in Seq(RecoveryTasks)
      /\ Len(RecoveryNow) = Len(gra) + Len(h)
      /\ \A d \in 0..(Len(gra) - 1) : At(RecoveryNow, d + Len(h)) = At(gra, d)
  <2>1. gra \in Seq(RecoveryTasks) /\ h \in Seq(RecoveryTasks)
    BY <1>1, <1>5
  <2> QED
    BY <1>3, <2>1, JoinSame
<1>7. Len(RecoveryNow) = ((Len(g) + Len(r)) + Len(a)) + Len(h)
  BY <1>4, <1>5, <1>6
<1>8. ASSUME Len(g) = 1
      PROVE  At(RecoveryNow, (Len(r) + Len(a)) + Len(h)) = At(g, 0)
  <2>1. At(gr, Len(r)) = At(g, 0)
    BY <1>1, <1>4, <1>8
  <2>2. At(gra, Len(r) + Len(a)) = At(gr, Len(r))
    BY <1>1, <1>4, <1>5, <1>8
  <2>3. At(RecoveryNow, (Len(r) + Len(a)) + Len(h)) = At(gra, Len(r) + Len(a))
    BY <1>1, <1>4, <1>5, <1>6, <1>8
  <2> QED
    BY <2>1, <2>2, <2>3
<1>9. Len(g) = 1 => (Len(r) + Len(a)) + Len(h) \in 0..(Len(RecoveryNow) - 1)
  BY <1>1, <1>7
<1>10. Len(RecoveryNow) <= 4
  <2>1. \A n \in {0, 1} : n \in 0..1
    OBVIOUS
  <2>2. Len(g) \in 0..1 /\ Len(r) \in 0..1 /\ Len(a) \in 0..1 /\ Len(h) \in 0..1
    BY <1>1, <2>1
  <2>3. \A i, j, k, l \in 0..1 : ((i + j) + k) + l <= 4
    OBVIOUS
  <2> QED
    BY <1>7, <2>2, <2>3
<1>11. ASSUME "guard" \in Present(Kinds)
       PROVE  \E d \in 0..(Len(RecoveryNow) - 1) : At(RecoveryNow, d) = "guard"
  BY <1>2, <1>8, <1>9, <1>11
<1> QED
  BY <1>6, <1>10, <1>11

LEMMA StartProgramShape == StartShape(StartProgram) /\ Len(StartProgram) = 10
<1>1. StartProgram \in Seq(StartTasks) /\ Len(StartProgram) = 10
  BY KindsAre DEF StartTasks, StartProgram
<1>2. \A d \in 0..9 : StartAt(At(StartProgram, d), d)
  BY DEF At, StartAt, StartProgram
<1> QED
  BY <1>1, <1>2 DEF StartShape

LEMMA WatchProgramShape == WatchShape(WatchProgram) /\ Len(WatchProgram) = 11
<1>1. WatchProgram \in Seq(WatchTasks) /\ Len(WatchProgram) = 11
  BY KindsAre DEF WatchTasks, WatchProgram
<1>2. \A d \in 0..10 : WatchAt(At(WatchProgram, d), d)
  BY DEF At, WatchAt, WatchProgram
<1> QED
  BY <1>1, <1>2 DEF WatchShape

LEMMA AtExitProgramShape ==
    ExitShape(AtExitProgram) /\ Len(AtExitProgram) = 9 /\ Handled(AtExitProgram)
<1>1. AtExitProgram \in Seq(ExitTasks) /\ Len(AtExitProgram) = 9
  BY KindsAre DEF ExitTasks, AtExitProgram
<1>2. Handled(AtExitProgram)
  BY <1>1 DEF Handled, At, AtExitProgram
<1>3. \A d \in 0..8 : ExitAt(At(AtExitProgram, d), d, TRUE)
  BY DEF At, ExitAt, AtExitProgram
<1>4. \A d \in 0..8 : ExitAt(At(AtExitProgram, d), d, Handled(AtExitProgram))
  BY <1>2, <1>3 DEF ExitAt
<1>5. \A d \in 0..(Len(AtExitProgram) - 1) :
            ExitAt(At(AtExitProgram, d), d, Handled(AtExitProgram))
  BY <1>1, <1>4
<1> QED
  BY <1>1, <1>2, <1>5 DEF ExitShape

LEMMA CloseProgramShape ==
    ExitShape(CloseProgram) /\ Len(CloseProgram) = 7 /\ ~Handled(CloseProgram)
<1>1. CloseProgram \in Seq(ExitTasks) /\ Len(CloseProgram) = 7
  BY KindsAre DEF ExitTasks, CloseProgram
<1>2. ~Handled(CloseProgram)
  BY <1>1 DEF Handled, At, CloseProgram
<1>3. \A d \in 0..6 : ExitAt(At(CloseProgram, d), d, FALSE)
  BY DEF At, ExitAt, CloseProgram
<1>4. \A d \in 0..6 : ExitAt(At(CloseProgram, d), d, Handled(CloseProgram))
  BY <1>2, <1>3 DEF ExitAt
<1> QED
  BY <1>1, <1>2, <1>4 DEF ExitShape

LEMMA QuitProgramShape ==
    ExitShape(QuitProgram) /\ Len(QuitProgram) = 16
<1> DEFINE list == <<"stop", "adapter", "guard", "geo", "host", "restore", "residue">>
           rest == AtExitProgram
<1>1. list \in Seq(ExitTasks) /\ Len(list) = 7 /\ QuitProgram = list \o rest
  BY KindsAre DEF QuitProgram, ExitTasks
<1>2. rest \in Seq(ExitTasks) /\ Len(rest) = 9 /\ Handled(rest) /\ ExitShape(rest)
  BY AtExitProgramShape DEF ExitShape
<1>3. \A d \in 0..6 : ExitAt(At(list, d), d + 9, TRUE)
  BY DEF ExitAt, At
<1> HIDE DEF list, rest
<1>4. /\ list \o rest \in Seq(ExitTasks) /\ Len(list \o rest) = Len(list) + Len(rest)
      /\ \A d \in 0..(Len(rest) - 1) : At(list \o rest, d) = At(rest, d)
      /\ \A d \in 0..(Len(list) - 1) : At(list \o rest, d + Len(rest)) = At(list, d)
  BY <1>1, <1>2, JoinSame
<1>5. /\ QuitProgram \in Seq(ExitTasks) /\ Len(QuitProgram) = 16
      /\ \A d \in 0..8 : At(QuitProgram, d) = At(rest, d)
      /\ \A d \in 0..6 : At(QuitProgram, d + 9) = At(list, d)
  <2>1. Len(rest) - 1 = 8 /\ Len(list) - 1 = 6 /\ Len(list) + Len(rest) = 16
    BY <1>1, <1>2
  <2> QED
    BY <1>1, <1>2, <1>4, <2>1
<1>6. Handled(QuitProgram)
  BY <1>2, <1>5 DEF Handled
<1>7. \A d \in 0..8 : ExitAt(At(QuitProgram, d), d, Handled(QuitProgram))
  BY <1>2, <1>5, <1>6 DEF ExitShape, ExitAt
<1>8. ASSUME NEW d \in 9..15
      PROVE  ExitAt(At(QuitProgram, d), d, Handled(QuitProgram))
  <2>1. d - 9 \in 0..6 /\ (d - 9) + 9 = d
    OBVIOUS
  <2>2. ExitAt(At(QuitProgram, d), d, TRUE)
    BY <1>3, <1>5, <2>1
  <2> QED
    BY <1>6, <2>2 DEF ExitAt
<1>9. \A d \in 0..(Len(QuitProgram) - 1) : d \in 0..8 \/ d \in 9..15
  BY <1>5
<1> QED
  BY <1>5, <1>7, <1>8, <1>9 DEF ExitShape

\* What a launch does after its scan, and a watchdog after its own.
AfterScan    == RecoveryNow \o <<"mark", "watchdog", "geo", "launch", "record">>
AfterRescan  == RecoveryNow \o <<"geo", "residue", "retire">>

LEMMA AfterScanShape == StartShape(AfterScan) /\ Len(AfterScan) >= 5
<1> DEFINE list == <<"mark", "watchdog", "geo", "launch", "record">>
<1>1. list \in Seq(StartTasks) /\ Len(list) = 5
  BY KindsAre DEF StartTasks
<1>2. \A d \in 0..4 : StartAt(At(list, d), d)
  BY DEF StartAt, At
<1>3. AfterScan = RecoveryNow \o list
  BY DEF AfterScan
<1>4. RecoveryNow \in Seq(RecoveryTasks) /\ Len(RecoveryNow) \in Nat
  BY RecoveryIs
<1>5. RecoveryNow \in Seq(StartTasks)
  BY <1>4, KindsAre DEF StartTasks, RecoveryTasks
<1> HIDE DEF list
<1>6. /\ RecoveryNow \o list \in Seq(StartTasks)
      /\ Len(RecoveryNow \o list) = Len(RecoveryNow) + Len(list)
      /\ \A d \in 0..(Len(list) - 1) : At(RecoveryNow \o list, d) = At(list, d)
      /\ \A d \in 0..(Len(RecoveryNow) - 1) :
            At(RecoveryNow \o list, d + Len(list)) = At(RecoveryNow, d)
  <2>1. list \in Seq(StartTasks)
    BY <1>1
  <2> QED
    BY <1>5, <2>1, JoinSame
<1>7. /\ AfterScan \in Seq(StartTasks) /\ Len(AfterScan) = Len(RecoveryNow) + 5
      /\ \A d \in 0..4 : At(AfterScan, d) = At(list, d)
      /\ \A d \in 0..(Len(RecoveryNow) - 1) : At(AfterScan, d + 5) = At(RecoveryNow, d)
  BY <1>1, <1>3, <1>6
<1>8. ASSUME NEW d \in 0..(Len(AfterScan) - 1)
      PROVE  StartAt(At(AfterScan, d), d)
  <2>1. CASE d \in 0..4
    BY <1>2, <1>7, <2>1
  <2>2. CASE d \notin 0..4
    <3>1. d - 5 \in 0..(Len(RecoveryNow) - 1) /\ (d - 5) + 5 = d /\ d > 4
      BY <1>4, <1>7, <2>2
    <3>2. At(AfterScan, d) = At(RecoveryNow, d - 5)
      BY <1>7, <3>1
    <3>3. Len(RecoveryNow) - (d - 5) \in 1..Len(RecoveryNow)
      BY <1>4, <3>1
    <3>4. At(AfterScan, d) \in RecoveryTasks
      BY <1>4, <3>2, <3>3 DEF At
    <3> QED
      BY <3>1, <3>4 DEF StartAt, RecoveryTasks
  <2> QED
    BY <2>1, <2>2
<1> QED
  BY <1>4, <1>7, <1>8 DEF StartShape

LEMMA AfterRescanShape ==
    /\ WatchShape(AfterRescan) /\ Len(AfterRescan) \in 1..7
    /\ \A k \in HeardByWatchdog : k \in Present(Kinds) =>
          \E d \in 0..(Len(AfterRescan) - 1) : At(AfterRescan, d) = k
<1> DEFINE list == <<"geo", "residue", "retire">>
<1>1. list \in Seq(WatchTasks) /\ Len(list) = 3
  BY KindsAre DEF WatchTasks
<1>2. /\ \A d \in 0..2 : WatchAt(At(list, d), d)
      /\ At(list, 1) = "residue" /\ At(list, 2) = "geo"
  BY DEF WatchAt, At
<1>3. AfterRescan = RecoveryNow \o list
  BY DEF AfterRescan
<1>4. RecoveryNow \in Seq(RecoveryTasks) /\ Len(RecoveryNow) \in Nat
  BY RecoveryIs
<1>5. RecoveryNow \in Seq(WatchTasks)
  BY <1>4, KindsAre DEF WatchTasks, RecoveryTasks
<1> HIDE DEF list
<1>6. /\ RecoveryNow \o list \in Seq(WatchTasks)
      /\ Len(RecoveryNow \o list) = Len(RecoveryNow) + Len(list)
      /\ \A d \in 0..(Len(list) - 1) : At(RecoveryNow \o list, d) = At(list, d)
      /\ \A d \in 0..(Len(RecoveryNow) - 1) :
            At(RecoveryNow \o list, d + Len(list)) = At(RecoveryNow, d)
  <2>1. list \in Seq(WatchTasks)
    BY <1>1
  <2> QED
    BY <1>5, <2>1, JoinSame
<1>7. /\ AfterRescan \in Seq(WatchTasks) /\ Len(AfterRescan) = Len(RecoveryNow) + 3
      /\ \A d \in 0..2 : At(AfterRescan, d) = At(list, d)
      /\ \A d \in 0..(Len(RecoveryNow) - 1) : At(AfterRescan, d + 3) = At(RecoveryNow, d)
  BY <1>1, <1>3, <1>6
<1>8. Len(RecoveryNow) \in 0..4 /\ Len(AfterRescan) \in 1..7 /\ Len(AfterRescan) >= 3
  <2>1. Len(RecoveryNow) \in Nat /\ Len(RecoveryNow) <= 4
    BY <1>4, RecoveryIs
  <2>2. Len(AfterRescan) = Len(RecoveryNow) + 3
    BY <1>7
  <2>3. \A m \in Nat : m <= 4 => (m \in 0..4 /\ m + 3 \in 1..7 /\ m + 3 >= 3)
    OBVIOUS
  <2> QED
    BY <2>1, <2>2, <2>3
<1>9. ASSUME NEW d \in 0..(Len(AfterRescan) - 1)
      PROVE  WatchAt(At(AfterRescan, d), d)
  <2>1. CASE d \in 0..2
    BY <1>2, <1>7, <2>1
  <2>2. CASE d \notin 0..2
    <3>1. d - 3 \in 0..(Len(RecoveryNow) - 1) /\ (d - 3) + 3 = d /\ d > 2 /\ d < 7
      BY <1>7, <1>8, <2>2
    <3>2. At(AfterRescan, d) = At(RecoveryNow, d - 3)
      BY <1>7, <3>1
    <3>3. Len(RecoveryNow) - (d - 3) \in 1..Len(RecoveryNow)
      BY <1>4, <3>1
    <3>4. At(AfterRescan, d) \in RecoveryTasks
      BY <1>4, <3>2, <3>3 DEF At
    <3> QED
      BY <3>1, <3>4 DEF WatchAt, RecoveryTasks
  <2> QED
    BY <2>1, <2>2
<1>10. ASSUME NEW k \in HeardByWatchdog, k \in Present(Kinds)
       PROVE  \E d \in 0..(Len(AfterRescan) - 1) : At(AfterRescan, d) = k
  <2>1. /\ At(AfterRescan, 1) = "residue" /\ 1 \in 0..(Len(AfterRescan) - 1)
        /\ At(AfterRescan, 2) = "geo" /\ 2 \in 0..(Len(AfterRescan) - 1)
    BY <1>2, <1>7, <1>8
  <2>2. CASE k = "guard"
    <3>1. PICK d \in 0..(Len(RecoveryNow) - 1) : At(RecoveryNow, d) = "guard"
      BY <1>10, <2>2, RecoveryIs
    <3>2. d + 3 \in 0..(Len(AfterRescan) - 1) /\ At(AfterRescan, d + 3) = "guard"
      BY <1>7, <1>8, <3>1
    <3> QED
      BY <2>2, <3>2
  <2> QED
    BY <1>10, <2>1, <2>2 DEF HeardByWatchdog
<1> QED
  BY <1>7, <1>8, <1>9, <1>10 DEF WatchShape

\* A launch has written its marker when four tasks are left.
LEMMA UnmarkedIs ==
    ASSUME NEW p, StartShape(p)
    PROVE  ("mark" \in ToSet(p)) <=> (Len(p) >= 5)
<1>1. Len(p) \in Nat
  BY DEF StartShape
<1>2. ASSUME "mark" \in ToSet(p)
      PROVE  Len(p) >= 5
  <2>1. PICK i \in 1..Len(p) : p[i] = "mark"
    BY <1>2 DEF ToSet
  <2>2. /\ Len(p) - i \in 0..(Len(p) - 1)
        /\ Len(p) - (Len(p) - i) = i
    BY <1>1
  <2>3. StartAt("mark", Len(p) - i)
    BY <2>1, <2>2 DEF StartShape, At
  <2> QED
    BY <1>1, <2>2, <2>3 DEF StartAt
<1>3. ASSUME Len(p) >= 5
      PROVE  "mark" \in ToSet(p)
  <2>1. 4 \in 0..(Len(p) - 1) /\ Len(p) - 4 \in 1..Len(p)
    BY <1>1, <1>3
  <2>2. StartAt(At(p, 4), 4)
    BY <2>1 DEF StartShape
  <2>3. p[Len(p) - 4] = "mark"
    BY <2>2 DEF StartAt, At
  <2> QED
    BY <2>1, <2>3 DEF ToSet
<1> QED
  BY <1>2, <1>3

-----------------------------------------------------------------------------
(* What a step at one place leaves alone elsewhere.                         *)

\* While a dashboard lives no watchdog has read the marker twice.
LEMMA WatchWaits ==
    ASSUME CrashInv, NEW s \in Sessions, Lives(s),
           NEW t \in Sessions, watch[t] = "watching"
    PROVE  Len(wtodo[t]) \in Nat /\ Len(wtodo[t]) >= 10
<1>1. WatchShape(wtodo[t])
  BY DEF CrashInv, Planned
<1>2. Len(wtodo[t]) \in Nat
  BY <1>1 DEF WatchShape
<1>3. ~(Len(wtodo[t]) <= 9)
  BY DEF CrashInv, WatchKnows
<1> QED
  BY <1>2, <1>3

LEMMA OthersAreOver ==
    ASSUME CrashInv, NEW s \in Sessions, Lives(s), NEW t \in Sessions, t # s
    PROVE  ~Lives(t)
BY DEF CrashInv, OneLive

\* A watchdog past its second reading is the watchdog of a dead session, and
\* no dashboard lives.
LEMMA NobodyLives ==
    ASSUME CrashInv, NEW s \in Sessions, watch[s] = "watching",
           Len(wtodo[s]) <= 9
    PROVE  /\ marker.owner = s /\ dash[s] = "gone"
           /\ \A t \in Sessions : ~Lives(t)
           /\ Len(wtodo[s]) <= 8 => helper[s] # "alive"
BY DEF CrashInv, WatchKnows

\* And the only one.
LEMMA OneWatcher ==
    ASSUME CrashInv,
           NEW s \in Sessions, watch[s] = "watching", Len(wtodo[s]) <= 9,
           NEW t \in Sessions, watch[t] = "watching", Len(wtodo[t]) <= 9
    PROVE  s = t
BY NobodyLives

LEMMA DoingIs ==
    ASSUME CrashInv, NEW s \in Sessions, NEW task, Doing(s, task)
    PROVE  /\ Len(todo[s]) \in Nat /\ Len(todo[s]) >= 1
           /\ Len(Tail(todo[s])) = Len(todo[s]) - 1
           /\ \/ /\ dash[s] = "starting" /\ StartShape(todo[s])
                 /\ StartAt(task, Len(todo[s]) - 1) /\ task \in StartTasks
                 /\ StartShape(Tail(todo[s]))
              \/ /\ dash[s] = "leaving" /\ ExitShape(todo[s])
                 /\ ExitAt(task, Len(todo[s]) - 1, Handled(todo[s])) /\ task \in ExitTasks
                 /\ ExitShape(Tail(todo[s]))
                 /\ Handled(Tail(todo[s])) => Handled(todo[s])
<1>1. Lives(s) /\ todo[s] # <<>> /\ task = Head(todo[s])
  BY DEF Doing
<1>2. CASE dash[s] = "starting"
  <2>1. StartShape(todo[s])
    BY <1>2 DEF CrashInv, Planned
  <2> QED
    BY <1>1, <1>2, <2>1, StartTail
<1>3. CASE dash[s] = "leaving"
  <2>1. ExitShape(todo[s])
    BY <1>3 DEF CrashInv, Planned
  <2> QED
    BY <1>1, <1>3, <2>1, ExitTail
<1>4. dash[s] # "up"
  BY <1>1 DEF CrashInv, Planned
<1> QED
  BY <1>1, <1>2, <1>3, <1>4 DEF Lives

\* A step that takes a task off moves no process and no watchdog.
LEMMA DoneKeeps ==
    ASSUME CrashInv, NEW s \in Sessions, NEW task, Doing(s, task), Done(s),
           UNCHANGED <<dash, watchers>>
    PROVE  /\ DOMAIN todo' = Sessions /\ DOMAIN wtodo' = Sessions
           /\ todo'[s] = Tail(todo[s])
           /\ \A t \in Sessions : t # s => todo'[t] = todo[t]
           /\ Planned' /\ OneLive' /\ WatchKnows'
<1>1. /\ DOMAIN todo' = Sessions /\ DOMAIN wtodo' = Sessions
      /\ todo'[s] = Tail(todo[s])
      /\ \A t \in Sessions : t # s => todo'[t] = todo[t]
  BY DEF Done, CrashInv, Typed, watchers
<1>2. Planned'
  <2>1. /\ dash[s] = "starting" => StartShape(Tail(todo[s]))
        /\ dash[s] = "leaving" => ExitShape(Tail(todo[s]))
        /\ dash[s] # "up"
    BY DoingIs
  <2> SUFFICES ASSUME NEW t \in Sessions
               PROVE  /\ dash[t] = "starting" => StartShape(todo'[t])
                      /\ dash[t] = "up" => todo'[t] = <<>>
                      /\ dash[t] = "leaving" => ExitShape(todo'[t])
                      /\ watch[t] = "watching" => WatchShape(wtodo[t])
    BY DEF Planned, watchers, StartShape, ExitShape, WatchShape, At, Handled
  <2> QED
    BY <1>1, <2>1 DEF CrashInv, Planned
<1>3. OneLive'
  BY DEF CrashInv, OneLive, Lives
<1>4. WatchKnows'
  <2>1. ASSUME NEW t \in Sessions, watch[t] = "watching"
        PROVE  ~(Len(wtodo[t]) <= 9)
    BY <2>1, WatchWaits DEF Doing
  <2> QED
    BY <2>1 DEF WatchKnows, watchers
<1> QED
  BY <1>1, <1>2, <1>3, <1>4

LEMMA OwnedKeeps ==
    ASSUME CrashInv, NEW s \in Sessions, NEW task, Doing(s, task), Done(s),
           task # "mark", UNCHANGED <<dash, watchers, marker>>
    PROVE  Owned'
<1>1. ASSUME NEW t \in Sessions
      PROVE  Unmarked(t)' <=> Unmarked(t)
  <2>1. CASE t # s
    BY <2>1, DoneKeeps DEF Unmarked
  <2>2. CASE t = s /\ dash[s] = "starting"
    <3>1. /\ StartShape(todo[s]) /\ StartShape(todo'[s])
          /\ StartAt(task, Len(todo[s]) - 1)
      BY <2>2, DoingIs, DoneKeeps
    <3>2. PICK n \in Nat : Len(todo[s]) = n /\ Len(todo'[s]) = n - 1
      BY DoingIs, DoneKeeps
    <3>3. n # 5 /\ ((n >= 5) <=> (n - 1 >= 5))
      BY <3>1, <3>2 DEF StartAt
    <3>4. /\ ("mark" \in ToSet(todo[s])) <=> (n >= 5)
          /\ ("mark" \in ToSet(todo'[s])) <=> (n - 1 >= 5)
      BY <3>1, <3>2, UnmarkedIs
    <3> QED
      BY <2>2, <3>3, <3>4 DEF Unmarked
  <2>3. CASE t = s /\ dash[s] # "starting"
    BY <2>3 DEF Unmarked
  <2> QED
    BY <2>1, <2>2, <2>3
<1> QED
  BY <1>1 DEF CrashInv, Owned, Lives, NoMarker

LEMMA UnusedKeeps ==
    ASSUME CrashInv, NEW s \in Sessions, NEW task, Doing(s, task), Done(s),
           UNCHANGED <<dash, watchers, helper, snap>>,
           \A t \in Sessions : helper[t] = "none" => left'[t] = {}
    PROVE  Unused'
<1>1. ASSUME NEW t \in Sessions, dash[t] = "starting", Len(todo'[t]) >= 2
      PROVE  Len(todo[t]) >= 2
  <2>1. CASE t = s
    <3>1. PICK n \in Nat : Len(todo[s]) = n /\ Len(todo'[s]) = n - 1
      BY DoingIs, DoneKeeps
    <3>2. n - 1 >= 2
      BY <1>1, <2>1, <3>1
    <3> QED
      BY <2>1, <3>1, <3>2
  <2>2. CASE t # s
    BY <1>1, <2>2, DoneKeeps
  <2> QED
    BY <2>1, <2>2
<1> QED
  BY <1>1 DEF CrashInv, Unused

\* What the exit handler knows after its next task.
LEMMA ExitLearns ==
    ASSUME CrashInv, NEW s \in Sessions, NEW task, Doing(s, task), Done(s),
           UNCHANGED <<dash, watchers>>,
           (helper[s] # "alive" \/ task = "stop") => helper'[s] # "alive",
           (dash[s] = "leaving" /\ sound'[s]) => (sound[s] \/ task = "atexit"),
           left'[s] \subseteq left[s],
           (dash[s] = "leaving" /\ sound'[s]) =>
              /\ task = "host" => "host" \notin left'[s]
              /\ task = "verify" => left'[s] \cap {"adapter", "geo"} = {}
              /\ task = "residue" => "residue" \notin left'[s]
    PROVE  ExitKnows'
<1> SUFFICES ASSUME NEW t \in Sessions, dash[t] = "leaving",
                    Handled(todo'[t]), Len(todo'[t]) <= 7
             PROVE  /\ helper'[t] # "alive"
                    /\ sound'[t] =>
                          /\ Len(todo'[t]) <= 5 => "host" \notin left'[t]
                          /\ Len(todo'[t]) <= 4 => left'[t] \cap {"adapter", "geo"} = {}
                          /\ Len(todo'[t]) <= 2 => "residue" \notin left'[t]
  BY DEF ExitKnows, Handled, At
<1>1. t = s /\ todo'[s] = Tail(todo[s])
  BY OthersAreOver, DoneKeeps DEF Lives, Doing
<1>2. /\ dash[s] = "leaving" /\ Handled(todo[s])
      /\ ExitAt(task, Len(todo[s]) - 1, Handled(todo[s]))
  BY <1>1, DoingIs
<1>3. PICK n \in Nat : Len(todo[s]) = n /\ Len(todo'[s]) = n - 1 /\ n >= 1
  BY <1>1, DoingIs
<1>4. n - 1 <= 7
  BY <1>1, <1>3
<1>5. /\ n = 8 => task = "stop"
      /\ n = 6 => task = "host"
      /\ n = 5 => task = "verify"
      /\ n = 3 => task = "residue"
      /\ task = "atexit" => n = 9
  BY <1>2, <1>3 DEF ExitAt
<1>6. n <= 7 => /\ helper[s] # "alive"
                /\ sound[s] => /\ n <= 5 => "host" \notin left[s]
                               /\ n <= 4 => left[s] \cap {"adapter", "geo"} = {}
                               /\ n <= 2 => "residue" \notin left[s]
  BY <1>2, <1>3 DEF CrashInv, ExitKnows
<1>7. helper'[s] # "alive"
  <2>1. n <= 7 \/ n = 8
    BY <1>4
  <2> QED
    BY <1>5, <1>6, <2>1
<1>8. ASSUME sound'[s]
      PROVE  /\ n - 1 <= 5 => "host" \notin left'[s]
             /\ n - 1 <= 4 => left'[s] \cap {"adapter", "geo"} = {}
             /\ n - 1 <= 2 => "residue" \notin left'[s]
  <2>1. sound[s] /\ task # "atexit"
    BY <1>2, <1>4, <1>5, <1>8
  <2>2. /\ n - 1 <= 5 => n <= 5 \/ n = 6
        /\ n - 1 <= 4 => n <= 4 \/ n = 5
        /\ n - 1 <= 2 => n <= 2 \/ n = 3
        /\ n <= 5 => n <= 7
        /\ n <= 4 => n <= 7
        /\ n <= 2 => n <= 7
    OBVIOUS
  <2>3. n - 1 <= 5 => "host" \notin left'[s]
    <3>1. CASE n <= 5
      BY <1>6, <2>1, <2>2, <3>1
    <3>2. CASE n = 6
      BY <1>2, <1>5, <1>8, <3>2
    <3> QED
      BY <2>2, <3>1, <3>2
  <2>4. n - 1 <= 4 => left'[s] \cap {"adapter", "geo"} = {}
    <3>1. CASE n <= 4
      BY <1>6, <2>1, <2>2, <3>1
    <3>2. CASE n = 5
      BY <1>2, <1>5, <1>8, <3>2
    <3> QED
      BY <2>2, <3>1, <3>2
  <2>5. n - 1 <= 2 => "residue" \notin left'[s]
    <3>1. CASE n <= 2
      BY <1>6, <2>1, <2>2, <3>1
    <3>2. CASE n = 3
      BY <1>2, <1>5, <1>8, <3>2
    <3> QED
      BY <2>2, <3>1, <3>2
  <2> QED
    BY <2>3, <2>4, <2>5
<1> QED
  BY <1>1, <1>3, <1>7, <1>8

-----------------------------------------------------------------------------
(* The dashboard.                                                           *)

LEMMA LaunchKeeps ==
    ASSUME CrashInv, InTurn, NEW s \in Sessions, Launch(s)
    PROVE  CrashInv'
<1>1. /\ \A t \in Sessions : ~Lives(t)
      /\ \A t \in Sessions : watch[t] = "watching" => Len(wtodo[t]) + 1 >= 11
      /\ dash[s] = "new"
  BY WatchProgramShape DEF Launch, CanLaunch, InTurn
<1>2. /\ TypeOK' /\ DOMAIN todo' = Sessions /\ DOMAIN wtodo' = Sessions
      /\ todo'[s] = StartProgram /\ dash'[s] = "starting"
      /\ \A t \in Sessions : t # s => (todo'[t] = todo[t] /\ dash'[t] = dash[t])
  BY DEF Launch, CrashInv, Typed, TypeOK, watchers
<1>3. Typed'
  BY <1>2 DEF Typed
<1>4. Planned'
  <2> SUFFICES ASSUME NEW t \in Sessions
               PROVE  /\ dash'[t] = "starting" => StartShape(todo'[t])
                      /\ dash'[t] = "up" => todo'[t] = <<>>
                      /\ dash'[t] = "leaving" => ExitShape(todo'[t])
                      /\ watch[t] = "watching" => WatchShape(wtodo[t])
    BY DEF Planned, Launch, watchers, StartShape, ExitShape, WatchShape, At, Handled
  <2> QED
    BY <1>2, StartProgramShape DEF CrashInv, Planned
<1>5. OneLive'
  BY <1>1, <1>2 DEF OneLive, Lives
<1>6. Unmarked(s)' /\ \A t \in Sessions : t # s => (Unmarked(t)' <=> Unmarked(t))
  <2>1. "mark" \in ToSet(StartProgram)
    BY StartProgramShape, UnmarkedIs
  <2> QED
    BY <1>2, <2>1 DEF Unmarked
<1>7. Owned'
  <2>1. marker' = marker
    BY DEF Launch
  <2>2. marker.owner # s
    BY <1>1 DEF CrashInv, Owned
  <2> QED
    BY <1>1, <1>2, <1>6, <2>1, <2>2 DEF CrashInv, Owned, Lives, NoMarker
<1>8. Recorded'
  BY <1>2 DEF CrashInv, Recorded, Launch
<1>9. Unused'
  BY <1>1, <1>2 DEF CrashInv, Unused, Launch
<1>10. ExitKnows'
  BY <1>1, <1>2 DEF ExitKnows, Lives
<1>11. WatchKnows'
  <2>1. ASSUME NEW t \in Sessions, watch[t] = "watching"
        PROVE  ~(Len(wtodo[t]) <= 9)
    <3>1. WatchShape(wtodo[t])
      BY <2>1 DEF CrashInv, Planned
    <3>2. PICK n \in Nat : n = Len(wtodo[t])
      BY <3>1 DEF WatchShape
    <3> QED
      BY <1>1, <2>1, <3>2
  <2> QED
    BY <2>1 DEF WatchKnows, Launch, watchers
<1> QED
  BY <1>3, <1>4, <1>5, <1>7, <1>8, <1>9, <1>10, <1>11 DEF CrashInv

LEMMA DashScansKeeps ==
    ASSUME CrashInv, NEW s \in Sessions, DashScans(s)
    PROVE  CrashInv'
<1>1. Doing(s, "scan")
  BY DEF DashScans
<1>2. /\ dash[s] = "starting" /\ StartShape(todo[s]) /\ Lives(s)
      /\ StartAt("scan", Len(todo[s]) - 1)
  BY <1>1, KindsAre, DoingIs DEF ExitTasks, Doing
<1>3. PICK n \in Nat : Len(todo[s]) = n
  BY <1>1, DoingIs
<1>4. n > 5
  BY <1>2, <1>3 DEF StartAt
<1>5. Unmarked(s)
  BY <1>2, <1>3, <1>4, UnmarkedIs DEF Unmarked
<1>6. ~(marker # NoMarker /\ Lives(marker.owner))
  <2>1. marker.owner # s
    BY <1>5 DEF CrashInv, Owned
  <2>2. ASSUME marker # NoMarker
        PROVE  marker.owner \in Sessions
    BY <2>2 DEF CrashInv, Owned, Typed, TypeOK
  <2> QED
    BY <1>2, <2>1, <2>2, OthersAreOver
<1>7. /\ DOMAIN todo' = Sessions /\ todo'[s] = AfterScan
      /\ \A t \in Sessions : t # s => todo'[t] = todo[t]
  BY <1>6 DEF DashScans, AfterScan, CrashInv, Typed
<1>8. UNCHANGED <<dash, sound, wtodo, watch, wsound, helper, marker, left, snap, faults>>
  BY DEF DashScans, watchers
<1>10. Typed'
  BY <1>7, <1>8 DEF CrashInv, Typed, TypeOK
<1>11. Planned'
  <2> SUFFICES ASSUME NEW t \in Sessions
               PROVE  /\ dash[t] = "starting" => StartShape(todo'[t])
                      /\ dash[t] = "up" => todo'[t] = <<>>
                      /\ dash[t] = "leaving" => ExitShape(todo'[t])
                      /\ watch[t] = "watching" => WatchShape(wtodo[t])
    BY <1>8 DEF Planned, StartShape, ExitShape, WatchShape, At, Handled
  <2> QED
    BY <1>2, <1>7, AfterScanShape DEF CrashInv, Planned
<1>12. OneLive' /\ Recorded'
  BY <1>8 DEF CrashInv, OneLive, Lives, Recorded
<1>13. Unmarked(s)' /\ \A t \in Sessions : t # s => (Unmarked(t)' <=> Unmarked(t))
  <2>1. "mark" \in ToSet(AfterScan)
    BY AfterScanShape, UnmarkedIs
  <2> QED
    BY <1>2, <1>7, <1>8, <2>1 DEF Unmarked
<1>14. Owned'
  BY <1>5, <1>8, <1>13 DEF CrashInv, Owned, Lives, NoMarker
<1>15. Unused'
  <2>1. Len(todo[s]) >= 2
    BY <1>3, <1>4
  <2> QED
    BY <1>2, <1>7, <1>8, <2>1 DEF CrashInv, Unused
<1>16. ExitKnows'
  BY <1>2, <1>7, <1>8 DEF CrashInv, ExitKnows, Handled, At
<1>17. WatchKnows'
  BY <1>8 DEF CrashInv, WatchKnows, At, Lives
<1> QED
  BY <1>10, <1>11, <1>12, <1>14, <1>15, <1>16, <1>17 DEF CrashInv

LEMMA DashSweepsKeeps ==
    ASSUME CrashInv, NEW s \in Sessions, DashSweeps(s)
    PROVE  CrashInv'
<1>1. PICK k \in Kinds :
        /\ Doing(s, k) /\ Done(s) /\ left' = Swept(k)
        /\ UNCHANGED <<dash, sound, watchers, helper, marker, snap, faults>>
  BY DEF DashSweeps
<1>2. /\ left \in [Sessions -> SUBSET Kinds] /\ left' \in [Sessions -> SUBSET Kinds]
      /\ \A t \in Sessions : left'[t] = left[t] \ {k}
  BY <1>1 DEF Swept, CrashInv, Typed, TypeOK
<1>3. k \notin {"mark", "stop", "verify", "atexit"}
  BY KindsAre
<1>4. DOMAIN todo' = Sessions /\ DOMAIN wtodo' = Sessions
      /\ Planned' /\ OneLive' /\ WatchKnows'
  BY <1>1, DoneKeeps
<1>5. Typed'
  BY <1>1, <1>2, <1>4 DEF CrashInv, Typed, TypeOK, watchers
<1>6. Owned'
  BY <1>1, <1>3, OwnedKeeps
<1>7. Recorded'
  BY <1>1 DEF CrashInv, Recorded
<1>8. Unused'
  <2>1. \A t \in Sessions : helper[t] = "none" => left'[t] = {}
    BY <1>2 DEF CrashInv, Unused
  <2> QED
    BY <1>1, <2>1, UnusedKeeps
<1>9. ExitKnows'
  <2>1. /\ left'[s] \subseteq left[s]
        /\ k = "host" => "host" \notin left'[s]
        /\ k = "residue" => "residue" \notin left'[s]
    BY <1>2
  <2> QED
    BY <1>1, <1>3, <2>1, ExitLearns
<1> QED
  BY <1>4, <1>5, <1>6, <1>7, <1>8, <1>9 DEF CrashInv

LEMMA DashSweepFailsKeeps ==
    ASSUME CrashInv, NEW s \in Sessions, DashSweepFails(s)
    PROVE  CrashInv'
<1>1. PICK k \in Present(Kinds) :
        /\ Doing(s, k) /\ Done(s) /\ faults < MaxFaults /\ faults' = faults + 1
        /\ sound' = [sound EXCEPT ![s] = @ /\ (dash[s] = "leaving" => k \notin HeardByDashboard)]
        /\ UNCHANGED <<dash, watchers, helper, marker, left, snap>>
  BY DEF DashSweepFails
<1>2. k \in Kinds
  BY DEF Present
<1>3. k \notin {"mark", "stop", "verify", "atexit"}
  BY <1>2, KindsAre
<1>4. DOMAIN todo' = Sessions /\ DOMAIN wtodo' = Sessions
      /\ Planned' /\ OneLive' /\ WatchKnows'
  BY <1>1, DoneKeeps
<1>5. Typed'
  <2>1. faults' \in 0..MaxFaults
    BY <1>1, CrashAssumption DEF CrashInv, Typed, TypeOK
  <2>2. sound' \in [Sessions -> BOOLEAN]
    BY <1>1 DEF CrashInv, Typed, TypeOK
  <2> QED
    BY <1>1, <1>4, <2>1, <2>2 DEF CrashInv, Typed, TypeOK, watchers
<1>6. Owned'
  BY <1>1, <1>3, OwnedKeeps
<1>7. Recorded'
  BY <1>1 DEF CrashInv, Recorded
<1>8. Unused'
  <2>1. \A t \in Sessions : helper[t] = "none" => left'[t] = {}
    BY <1>1 DEF CrashInv, Unused
  <2> QED
    BY <1>1, <2>1, UnusedKeeps
<1>9. ExitKnows'
  <2>1. left'[s] \subseteq left[s] /\ (helper[s] # "alive" => helper'[s] # "alive")
    BY <1>1
  <2>2. sound'[s] = (sound[s] /\ (dash[s] = "leaving" => k \notin HeardByDashboard))
    BY <1>1 DEF CrashInv, Typed, TypeOK
  <2>3. (dash[s] = "leaving" /\ sound'[s]) => (sound[s] /\ k \notin {"host", "residue"})
    BY <2>2 DEF HeardByDashboard
  <2> QED
    BY <1>1, <1>3, <2>1, <2>3, ExitLearns
<1> QED
  BY <1>4, <1>5, <1>6, <1>7, <1>8, <1>9 DEF CrashInv

LEMMA DashMarksKeeps ==
    ASSUME CrashInv, NEW s \in Sessions, DashMarks(s)
    PROVE  CrashInv'
<1>1. /\ Doing(s, "mark") /\ Done(s) /\ marker' = [owner |-> s, helper |-> None]
      /\ UNCHANGED <<dash, sound, watchers, helper, left, snap, faults>>
  BY DEF DashMarks
<1>2. /\ DOMAIN todo' = Sessions /\ DOMAIN wtodo' = Sessions
      /\ todo'[s] = Tail(todo[s])
      /\ \A t \in Sessions : t # s => todo'[t] = todo[t]
      /\ Planned' /\ OneLive' /\ WatchKnows'
  BY <1>1, DoneKeeps
<1>3. /\ dash[s] = "starting" /\ StartShape(Tail(todo[s]))
      /\ StartAt("mark", Len(todo[s]) - 1)
  BY <1>1, KindsAre, DoingIs DEF ExitTasks
<1>4. PICK n \in Nat : Len(todo[s]) = n /\ Len(todo'[s]) = n - 1
  BY <1>1, <1>2, DoingIs
<1>5. n = 5
  BY <1>3, <1>4 DEF StartAt
<1>6. marker'.owner = s /\ marker'.helper = None
      /\ marker' \in [owner : Sessions \cup {None}, helper : Sessions \cup {None}]
  BY <1>1
<1>7. Typed'
  BY <1>1, <1>2, <1>6 DEF CrashInv, Typed, TypeOK, watchers
<1>8. Owned'
  <2>1. ~Unmarked(s)'
    <3>1. ("mark" \in ToSet(todo'[s])) <=> (n - 1 >= 5)
      BY <1>2, <1>3, <1>4, UnmarkedIs
    <3> QED
      BY <1>5, <3>1 DEF Unmarked
  <2>2. \A t \in Sessions : t # s => ~Lives(t)
    BY <1>1, OthersAreOver DEF Doing
  <2>3. \A t \in Sessions : t # s => ~Lives(t)' /\ ~Unmarked(t)'
    BY <1>1, <2>2 DEF Lives, Unmarked
  <2>4. marker'.owner # None
    BY <1>6, CrashAssumption
  <2>5. ASSUME NEW t \in Sessions
        PROVE  /\ Lives(t)' /\ ~Unmarked(t)' => marker'.owner = t
               /\ dash'[t] = "new" \/ Unmarked(t)' => marker'.owner # t
    BY <1>1, <1>3, <1>6, <2>1, <2>3
  <2> QED
    BY <2>4, <2>5 DEF Owned
<1>9. Recorded'
  BY <1>1, <1>3, <1>6 DEF Recorded
<1>10. Unused'
  <2>1. \A t \in Sessions : helper[t] = "none" => left'[t] = {}
    BY <1>1 DEF CrashInv, Unused
  <2> QED
    BY <1>1, <2>1, UnusedKeeps
<1>11. ExitKnows'
  BY <1>1, ExitLearns
<1> QED
  BY <1>2, <1>7, <1>8, <1>9, <1>10, <1>11 DEF CrashInv

LEMMA DashSpawnsWatchdogKeeps ==
    ASSUME CrashInv, NEW s \in Sessions, DashSpawnsWatchdog(s)
    PROVE  CrashInv'
<1>1. /\ Doing(s, "watchdog") /\ Done(s) /\ Lives(s)
      /\ UNCHANGED <<dash, sound, wsound, helper, marker, left, snap, faults>>
  BY DEF DashSpawnsWatchdog, Doing
<1>2. /\ DOMAIN todo' = Sessions /\ todo'[s] = Tail(todo[s])
      /\ \A t \in Sessions : t # s => todo'[t] = todo[t]
  BY <1>1 DEF Done, CrashInv, Typed
<1>3. /\ DOMAIN wtodo' = Sessions /\ wtodo'[s] = WatchProgram
      /\ \A t \in Sessions : t # s => (wtodo'[t] = wtodo[t] /\ watch'[t] = watch[t])
      /\ watch' \in [Sessions -> {"none", "watching", "gone"}]
  BY DEF DashSpawnsWatchdog, CrashInv, Typed, TypeOK
<1>4. /\ dash[s] = "starting" /\ StartShape(todo[s]) /\ StartShape(Tail(todo[s]))
      /\ StartAt("watchdog", Len(todo[s]) - 1)
  BY <1>1, KindsAre, DoingIs DEF ExitTasks
<1>5. PICK n \in Nat : Len(todo[s]) = n /\ Len(todo'[s]) = n - 1
  BY <1>1, <1>2, DoingIs
<1>6. n # 5
  BY <1>4, <1>5 DEF StartAt
<1>7. Typed'
  BY <1>1, <1>2, <1>3 DEF CrashInv, Typed, TypeOK
<1>8. Planned'
  <2> SUFFICES ASSUME NEW t \in Sessions
               PROVE  /\ dash[t] = "starting" => StartShape(todo'[t])
                      /\ dash[t] = "up" => todo'[t] = <<>>
                      /\ dash[t] = "leaving" => ExitShape(todo'[t])
                      /\ watch'[t] = "watching" => WatchShape(wtodo'[t])
    BY <1>1 DEF Planned, StartShape, ExitShape, WatchShape, At, Handled
  <2> QED
    BY <1>2, <1>3, <1>4, WatchProgramShape DEF CrashInv, Planned
<1>9. OneLive' /\ Recorded'
  BY <1>1 DEF CrashInv, OneLive, Lives, Recorded
<1>10. Owned'
  <2>1. Unmarked(s)' <=> Unmarked(s)
    <3>1. /\ ("mark" \in ToSet(todo[s])) <=> (n >= 5)
          /\ ("mark" \in ToSet(todo'[s])) <=> (n - 1 >= 5)
      BY <1>2, <1>4, <1>5, UnmarkedIs
    <3>2. (n >= 5) <=> (n - 1 >= 5)
      BY <1>6
    <3> QED
      BY <1>1, <3>1, <3>2 DEF Unmarked
  <2>2. \A t \in Sessions : t # s => (Unmarked(t)' <=> Unmarked(t))
    BY <1>1, <1>2 DEF Unmarked
  <2> QED
    BY <1>1, <2>1, <2>2 DEF CrashInv, Owned, Lives, NoMarker
<1>11. Unused'
  <2>1. n - 1 >= 2 => n >= 2
    OBVIOUS
  <2>2. \A t \in Sessions : Len(todo'[t]) >= 2 => Len(todo[t]) >= 2
    BY <1>2, <1>5, <2>1
  <2> QED
    BY <1>1, <2>2 DEF CrashInv, Unused
<1>12. ExitKnows'
  BY <1>1, <1>2, <1>4 DEF CrashInv, ExitKnows, Handled, At
<1>13. WatchKnows'
  <2>1. ASSUME NEW t \in Sessions, watch'[t] = "watching"
        PROVE  ~(Len(wtodo'[t]) <= 9)
    <3>1. CASE t = s
      <4>1. ~(Len(WatchProgram) <= 9)
        BY WatchProgramShape
      <4> QED
        BY <1>3, <3>1, <4>1
    <3>2. CASE t # s
      <4>1. PICK m \in Nat : Len(wtodo[t]) = m /\ m >= 10
        BY <1>1, <1>3, <2>1, <3>2, WatchWaits
      <4> QED
        BY <1>3, <3>2, <4>1
    <3> QED
      BY <3>1, <3>2
  <2> QED
    BY <2>1 DEF WatchKnows
<1> QED
  BY <1>7, <1>8, <1>9, <1>10, <1>11, <1>12, <1>13 DEF CrashInv

LEMMA DashLaunchesHelperKeeps ==
    ASSUME CrashInv, NEW s \in Sessions, DashLaunchesHelper(s)
    PROVE  CrashInv'
<1>1. /\ Doing(s, "launch") /\ Done(s)
      /\ UNCHANGED <<dash, sound, watchers, marker, left, faults>>
  BY DEF DashLaunchesHelper
<1>2. /\ helper'[s] = "alive" /\ \A t \in Sessions : t # s => helper'[t] = helper[t]
      /\ helper' \in [Sessions -> {"none", "alive", "dead"}]
      /\ \A t \in Sessions : t # s => snap'[t] = snap[t]
      /\ \A o \in Sessions : snap'[s][o] = left[o] \cap Routes
      /\ snap' \in [Sessions -> [Sessions -> SUBSET Routes]]
  BY DEF DashLaunchesHelper, CrashInv, Typed, TypeOK
<1>3. /\ DOMAIN todo' = Sessions /\ DOMAIN wtodo' = Sessions
      /\ todo'[s] = Tail(todo[s])
      /\ \A t \in Sessions : t # s => todo'[t] = todo[t]
      /\ Planned' /\ OneLive' /\ WatchKnows'
  BY <1>1, DoneKeeps
<1>4. dash[s] = "starting" /\ StartAt("launch", Len(todo[s]) - 1)
  BY <1>1, KindsAre, DoingIs DEF ExitTasks
<1>5. PICK n \in Nat : Len(todo[s]) = n /\ Len(todo'[s]) = n - 1
  BY <1>1, <1>3, DoingIs
<1>6. n = 2
  BY <1>4, <1>5 DEF StartAt
<1>7. helper[s] = "none" /\ left[s] = {}
  BY <1>4, <1>5, <1>6 DEF CrashInv, Unused
<1>8. Typed'
  BY <1>1, <1>2, <1>3 DEF CrashInv, Typed, TypeOK, watchers
<1>9. Owned'
  BY <1>1, OwnedKeeps
<1>10. Recorded'
  BY <1>1, <1>2, <1>4 DEF CrashInv, Recorded
<1>11. Unused'
  <2>1. ASSUME NEW t \in Sessions,
               dash[t] = "new" \/ (dash[t] = "starting" /\ Len(todo'[t]) >= 2)
        PROVE  helper'[t] = "none"
    <3>1. t # s
      <4>1. ~(Len(todo'[s]) >= 2)
        BY <1>5, <1>6
      <4> QED
        BY <1>4, <2>1, <4>1
    <3> QED
      BY <1>2, <1>3, <2>1, <3>1 DEF CrashInv, Unused
  <2>2. ASSUME NEW t \in Sessions, helper'[t] = "none"
        PROVE  left[t] = {} /\ \A o \in Sessions : snap'[o][t] = {}
    <3>1. t # s /\ left[t] = {} /\ \A o \in Sessions : snap[o][t] = {}
      BY <1>2, <2>2 DEF CrashInv, Unused
    <3> QED
      BY <1>2, <3>1
  <2>3. ASSUME NEW t \in Sessions
        PROVE  snap'[t][t] = {}
    <3>1. snap[t][t] = {}
      BY DEF CrashInv, Unused
    <3> QED
      BY <1>2, <1>7, <3>1
  <2> QED
    BY <1>1, <2>1, <2>2, <2>3 DEF Unused
<1>12. ExitKnows'
  <2>1. \A t \in Sessions : dash'[t] # "leaving"
    BY <1>1, <1>4, OthersAreOver DEF Doing, Lives
  <2> QED
    BY <2>1 DEF ExitKnows
<1> QED
  BY <1>3, <1>8, <1>9, <1>10, <1>11, <1>12 DEF CrashInv

LEMMA DashRecordsHelperKeeps ==
    ASSUME CrashInv, NEW s \in Sessions, DashRecordsHelper(s)
    PROVE  CrashInv'
<1>1. /\ Doing(s, "record") /\ Done(s) /\ Lives(s)
      /\ UNCHANGED <<sound, watchers, helper, left, snap, faults>>
  BY DEF DashRecordsHelper, Doing
<1>2. /\ DOMAIN todo' = Sessions /\ todo'[s] = Tail(todo[s])
      /\ \A t \in Sessions : t # s => (todo'[t] = todo[t] /\ dash'[t] = dash[t])
      /\ dash'[s] = "up"
      /\ dash' \in [Sessions -> {"new", "starting", "up", "leaving", "gone"}]
  BY <1>1 DEF DashRecordsHelper, Done, CrashInv, Typed, TypeOK
<1>3. /\ dash[s] = "starting" /\ StartShape(todo[s]) /\ StartShape(Tail(todo[s]))
      /\ StartAt("record", Len(todo[s]) - 1)
  BY <1>1, KindsAre, DoingIs DEF ExitTasks
<1>4. PICK n \in Nat : Len(todo[s]) = n /\ Len(todo'[s]) = n - 1
  BY <1>1, <1>2, DoingIs
<1>5. n = 1
  BY <1>3, <1>4 DEF StartAt
<1>6. todo'[s] = <<>>
  BY <1>2, <1>3, <1>4, <1>5 DEF StartShape
<1>7. ~Unmarked(s) /\ marker.owner = s
  <2>1. ~Unmarked(s)
    <3>1. ("mark" \in ToSet(todo[s])) <=> (n >= 5)
      BY <1>3, <1>4, UnmarkedIs
    <3> QED
      BY <1>5, <3>1 DEF Unmarked
  <2> QED
    BY <1>1, <2>1 DEF CrashInv, Owned
<1>8. /\ marker'.owner = s
      /\ marker' \in [owner : Sessions \cup {None}, helper : Sessions \cup {None}]
  <2>1. marker \in [owner : Sessions \cup {None}, helper : Sessions \cup {None}]
    BY DEF CrashInv, Typed, TypeOK
  <2>2. marker' = [marker EXCEPT !.helper = s] \/ marker' = marker
    BY DEF DashRecordsHelper
  <2> QED
    BY <1>7, <2>1, <2>2
<1>9. Typed'
  BY <1>1, <1>2, <1>8 DEF CrashInv, Typed, TypeOK, watchers
<1>10. \A t \in Sessions : t # s => ~Lives(t)
  BY <1>1, OthersAreOver
<1>11. Planned'
  <2> SUFFICES ASSUME NEW t \in Sessions
               PROVE  /\ dash'[t] = "starting" => StartShape(todo'[t])
                      /\ dash'[t] = "up" => todo'[t] = <<>>
                      /\ dash'[t] = "leaving" => ExitShape(todo'[t])
                      /\ watch[t] = "watching" => WatchShape(wtodo[t])
    BY <1>1 DEF Planned, watchers, StartShape, ExitShape, WatchShape, At, Handled
  <2> QED
    BY <1>2, <1>6 DEF CrashInv, Planned
<1>12. OneLive'
  BY <1>2, <1>10 DEF OneLive, Lives
<1>13. Owned'
  <2>1. ASSUME NEW t \in Sessions
        PROVE  /\ Lives(t)' => marker'.owner = t
               /\ dash'[t] # "new" \/ marker'.owner # t
               /\ ~Unmarked(t)'
    BY <1>2, <1>8, <1>10 DEF Lives, Unmarked
  <2>2. marker'.owner # None
    BY <1>8, CrashAssumption
  <2> QED
    BY <2>1, <2>2 DEF Owned
<1>14. Recorded'
  BY <1>2, <1>8 DEF Recorded
<1>15. Unused'
  BY <1>1, <1>2 DEF CrashInv, Unused
<1>16. ExitKnows'
  BY <1>2, <1>10 DEF ExitKnows, Lives
<1>17. WatchKnows'
  <2>1. ASSUME NEW t \in Sessions, watch[t] = "watching"
        PROVE  ~(Len(wtodo[t]) <= 9)
    BY <1>1, <2>1, WatchWaits
  <2> QED
    BY <1>1, <2>1 DEF WatchKnows, watchers
<1> QED
  BY <1>9, <1>11, <1>12, <1>13, <1>14, <1>15, <1>16, <1>17 DEF CrashInv

LEMMA LeaveKeeps ==
    ASSUME CrashInv, NEW s \in Sessions, Quit(s) \/ Abort(s) \/ Close(s)
    PROVE  CrashInv'
<1>1. PICK program \in {QuitProgram, AtExitProgram, CloseProgram} : Leave(s, program)
  BY DEF Quit, Abort, Close
<1>2. ExitShape(program) /\ (Handled(program) => Len(program) \in {9, 16})
  BY QuitProgramShape, AtExitProgramShape, CloseProgramShape
<1>3. /\ dash[s] = "up"
      /\ dash' = [dash EXCEPT ![s] = "leaving"] /\ todo' = [todo EXCEPT ![s] = program]
      /\ UNCHANGED <<sound, watchers, helper, marker, left, snap, faults>>
  BY <1>1 DEF Leave
<1>4. /\ DOMAIN todo' = Sessions /\ todo'[s] = program /\ dash'[s] = "leaving"
      /\ \A t \in Sessions : t # s => (todo'[t] = todo[t] /\ dash'[t] = dash[t])
      /\ dash' \in [Sessions -> {"new", "starting", "up", "leaving", "gone"}]
  BY <1>3 DEF CrashInv, Typed, TypeOK
<1>5. Lives(s) /\ \A t \in Sessions : t # s => ~Lives(t)
  BY <1>3, OthersAreOver DEF Lives
<1>6. Typed'
  BY <1>3, <1>4 DEF CrashInv, Typed, TypeOK, watchers
<1>7. Planned'
  <2> SUFFICES ASSUME NEW t \in Sessions
               PROVE  /\ dash'[t] = "starting" => StartShape(todo'[t])
                      /\ dash'[t] = "up" => todo'[t] = <<>>
                      /\ dash'[t] = "leaving" => ExitShape(todo'[t])
                      /\ watch[t] = "watching" => WatchShape(wtodo[t])
    BY <1>3 DEF Planned, watchers, StartShape, ExitShape, WatchShape, At, Handled
  <2> QED
    BY <1>2, <1>4 DEF CrashInv, Planned
<1>8. OneLive'
  BY <1>4, <1>5 DEF OneLive, Lives
<1>9. Owned'
  <2>1. marker.owner = s
    BY <1>3, <1>5 DEF CrashInv, Owned, Unmarked
  <2>2. ASSUME NEW t \in Sessions
        PROVE  /\ Lives(t)' => marker.owner = t
               /\ dash'[t] # "new" \/ marker.owner # t
               /\ ~Unmarked(t)'
    BY <1>4, <1>5, <2>1 DEF Lives, Unmarked
  <2> QED
    BY <1>3, <2>1, <2>2, CrashAssumption DEF Owned
<1>10. Recorded'
  BY <1>3, <1>4 DEF CrashInv, Recorded
<1>11. Unused'
  BY <1>3, <1>4 DEF CrashInv, Unused
<1>12. ExitKnows'
  <2>1. Handled(program) => ~(Len(program) <= 7)
    <3>1. \A m \in {9, 16} : ~(m <= 7)
      OBVIOUS
    <3> QED
      BY <1>2, <3>1
  <2>2. ASSUME NEW t \in Sessions, dash'[t] = "leaving"
        PROVE  ~(Handled(todo'[t]) /\ Len(todo'[t]) <= 7)
    BY <1>4, <1>5, <2>1, <2>2 DEF Lives
  <2> QED
    BY <2>2 DEF ExitKnows, Handled, At
<1>13. WatchKnows'
  <2>1. ASSUME NEW t \in Sessions, watch[t] = "watching"
        PROVE  ~(Len(wtodo[t]) <= 9)
    BY <1>5, <2>1, WatchWaits
  <2> QED
    BY <1>3, <2>1 DEF WatchKnows, watchers
<1> QED
  BY <1>6, <1>7, <1>8, <1>9, <1>10, <1>11, <1>12, <1>13 DEF CrashInv

LEMMA DashStopsHelperKeeps ==
    ASSUME CrashInv, NEW s \in Sessions, DashStopsHelper(s)
    PROVE  CrashInv'
<1>1. /\ Doing(s, "stop") /\ Done(s)
      /\ UNCHANGED <<dash, sound, watchers, marker, left, snap, faults>>
  BY DEF DashStopsHelper
<1>2. /\ helper' \in [Sessions -> {"none", "alive", "dead"}]
      /\ helper'[s] # "alive" /\ (helper'[s] = "none" <=> helper[s] = "none")
      /\ \A t \in Sessions : t # s => helper'[t] = helper[t]
  BY DEF DashStopsHelper, CrashInv, Typed, TypeOK
<1>3. /\ DOMAIN todo' = Sessions /\ DOMAIN wtodo' = Sessions
      /\ todo'[s] = Tail(todo[s])
      /\ \A t \in Sessions : t # s => todo'[t] = todo[t]
      /\ Planned' /\ OneLive' /\ WatchKnows'
  BY <1>1, DoneKeeps
<1>4. dash[s] = "leaving"
  BY <1>1, KindsAre, DoingIs DEF StartTasks
<1>5. Typed'
  BY <1>1, <1>2, <1>3 DEF CrashInv, Typed, TypeOK, watchers
<1>6. Owned'
  BY <1>1, OwnedKeeps
<1>7. Recorded'
  BY <1>1, <1>2 DEF CrashInv, Recorded
<1>8. Unused'
  BY <1>1, <1>2, <1>3, <1>4 DEF CrashInv, Unused
<1>9. ExitKnows'
  BY <1>1, <1>2, ExitLearns
<1> QED
  BY <1>3, <1>5, <1>6, <1>7, <1>8, <1>9 DEF CrashInv

LEMMA AtExitKeeps ==
    ASSUME CrashInv, NEW s \in Sessions, AtExit(s)
    PROVE  CrashInv'
<1>1. /\ Doing(s, "atexit") /\ Done(s)
      /\ UNCHANGED <<dash, watchers, helper, marker, left, snap, faults>>
      /\ sound' \in [Sessions -> BOOLEAN]
  BY DEF AtExit, CrashInv, Typed, TypeOK
<1>2. /\ DOMAIN todo' = Sessions /\ DOMAIN wtodo' = Sessions
      /\ Planned' /\ OneLive' /\ WatchKnows'
  BY <1>1, DoneKeeps
<1>3. Typed'
  BY <1>1, <1>2 DEF CrashInv, Typed, TypeOK, watchers
<1>4. Owned'
  BY <1>1, OwnedKeeps
<1>5. Recorded'
  BY <1>1 DEF CrashInv, Recorded
<1>6. Unused'
  <2>1. \A t \in Sessions : helper[t] = "none" => left'[t] = {}
    BY <1>1 DEF CrashInv, Unused
  <2> QED
    BY <1>1, <2>1, UnusedKeeps
<1>7. ExitKnows'
  BY <1>1, ExitLearns
<1> QED
  BY <1>2, <1>3, <1>4, <1>5, <1>6, <1>7 DEF CrashInv

LEMMA DashVerifiesKeeps ==
    ASSUME CrashInv, NEW s \in Sessions, DashVerifies(s)
    PROVE  CrashInv'
<1>1. /\ Doing(s, "verify") /\ Done(s)
      /\ UNCHANGED <<dash, watchers, helper, marker, left, snap, faults>>
  BY DEF DashVerifies
<1>2. /\ sound' \in [Sessions -> BOOLEAN]
      /\ sound'[s] => (sound[s] /\ Present(VerifiedRows) = {})
  BY DEF DashVerifies, CrashInv, Typed, TypeOK
<1>3. /\ DOMAIN todo' = Sessions /\ DOMAIN wtodo' = Sessions
      /\ Planned' /\ OneLive' /\ WatchKnows'
  BY <1>1, DoneKeeps
<1>4. Typed'
  BY <1>1, <1>2, <1>3 DEF CrashInv, Typed, TypeOK, watchers
<1>5. Owned'
  BY <1>1, OwnedKeeps
<1>6. Recorded'
  BY <1>1 DEF CrashInv, Recorded
<1>7. Unused'
  <2>1. \A t \in Sessions : helper[t] = "none" => left'[t] = {}
    BY <1>1 DEF CrashInv, Unused
  <2> QED
    BY <1>1, <2>1, UnusedKeeps
<1>8. ExitKnows'
  <2>1. sound'[s] => left'[s] \cap {"adapter", "geo"} = {}
    BY <1>1, <1>2 DEF Present, VerifiedRows
  <2> QED
    BY <1>1, <1>2, <2>1, ExitLearns
<1> QED
  BY <1>3, <1>4, <1>5, <1>6, <1>7, <1>8 DEF CrashInv

\* A session's own rows are not in the snapshot it restores.
LEMMA DashRestoresKeeps ==
    ASSUME CrashInv, NEW s \in Sessions, DashRestores(s)
    PROVE  CrashInv'
<1>1. /\ Doing(s, "restore") /\ Done(s)
      /\ UNCHANGED <<dash, sound, watchers, helper, marker, snap, faults>>
      /\ left' = [o \in Sessions |-> left[o] \cup snap[s][o]]
  BY DEF DashRestores
<1>2. /\ left' \in [Sessions -> SUBSET Kinds]
      /\ \A t \in Sessions : left'[t] = left[t] \cup snap[s][t]
  BY <1>1, KindsAre DEF CrashInv, Typed, TypeOK, Routes
<1>3. /\ DOMAIN todo' = Sessions /\ DOMAIN wtodo' = Sessions
      /\ Planned' /\ OneLive' /\ WatchKnows'
  BY <1>1, DoneKeeps
<1>4. Typed'
  BY <1>1, <1>2, <1>3 DEF CrashInv, Typed, TypeOK, watchers
<1>5. Owned'
  BY <1>1, OwnedKeeps
<1>6. Recorded'
  BY <1>1 DEF CrashInv, Recorded
<1>7. Unused'
  <2>1. \A t \in Sessions : helper[t] = "none" => left'[t] = {}
    BY <1>2 DEF CrashInv, Unused
  <2> QED
    BY <1>1, <2>1, UnusedKeeps
<1>8. ExitKnows'
  <2>1. left'[s] \subseteq left[s]
    BY <1>2 DEF CrashInv, Unused
  <2> QED
    BY <1>1, <2>1, ExitLearns
<1> QED
  BY <1>3, <1>4, <1>5, <1>6, <1>7, <1>8 DEF CrashInv

\* The exit handler at its last task: what its verdict stands for.
LEMMA ClearingKnows ==
    ASSUME CrashInv, NEW s \in Sessions, Doing(s, "clear")
    PROVE  /\ dash[s] = "leaving" /\ marker.owner = s /\ helper[s] # "alive"
           /\ sound[s] => left[s] \subseteq {"guard"}
<1>1. /\ dash[s] = "leaving" /\ Handled(todo[s])
      /\ ExitAt("clear", Len(todo[s]) - 1, Handled(todo[s]))
  BY KindsAre, DoingIs DEF StartTasks, ExitAt
<1>2. PICK n \in Nat : Len(todo[s]) = n
  BY DoingIs
<1>3. n = 1
  BY <1>1, <1>2 DEF ExitAt
<1>4. /\ helper[s] # "alive"
      /\ sound[s] => /\ "host" \notin left[s]
                     /\ left[s] \cap {"adapter", "geo"} = {}
                     /\ "residue" \notin left[s]
  <2>1. Len(todo[s]) = 1 /\ 1 <= 7 /\ 1 <= 5 /\ 1 <= 4 /\ 1 <= 2
    BY <1>2, <1>3
  <2> QED
    BY <1>1, <2>1 DEF CrashInv, ExitKnows
<1>5. left[s] \subseteq Kinds
  BY DEF CrashInv, Typed, TypeOK
<1>6. marker.owner = s
  BY <1>1 DEF CrashInv, Owned, Lives, Unmarked
<1> QED
  BY <1>1, <1>4, <1>5, <1>6, KindsAre

\* The end of a process that is not followed by another.
LEMMA GoneKeeps ==
    ASSUME CrashInv, NEW s \in Sessions, Lives(s), Gone(s),
           DOMAIN todo' = Sessions,
           \A t \in Sessions : t # s => todo'[t] = todo[t],
           UNCHANGED <<watchers, left, faults>>,
           helper' \in [Sessions -> {"none", "alive", "dead"}],
           \A t \in Sessions : helper'[t] = "none" => helper[t] = "none",
           \A t \in Sessions : t # s => helper'[t] = helper[t],
           marker' = marker \/ marker' = NoMarker,
           \A t \in Sessions :
              dash'[t] = "gone" /\ helper'[t] = "alive" /\ marker'.owner = t
                 => marker'.helper = t
    PROVE  CrashInv'
<1>1. /\ dash'[s] = "gone" /\ \A t \in Sessions : t # s => dash'[t] = dash[t]
      /\ dash' \in [Sessions -> {"new", "starting", "up", "leaving", "gone"}]
      /\ sound' \in [Sessions -> BOOLEAN]
      /\ \A t \in Sessions : t # s => snap'[t] = snap[t]
      /\ snap'[s] = NoRows
      /\ snap' \in [Sessions -> [Sessions -> SUBSET Routes]]
  BY DEF Gone, NoRows, CrashInv, Typed, TypeOK
<1>2. \A t \in Sessions : ~Lives(t)'
  BY <1>1, OthersAreOver DEF Lives
<1>3. marker' \in [owner : Sessions \cup {None}, helper : Sessions \cup {None}]
  BY DEF NoMarker, CrashInv, Typed, TypeOK
<1>4. Typed'
  BY <1>1, <1>3 DEF CrashInv, Typed, TypeOK, watchers
<1>5. Planned'
  <2> SUFFICES ASSUME NEW t \in Sessions
               PROVE  watch[t] = "watching" => WatchShape(wtodo[t])
    BY <1>2 DEF Lives, Planned, watchers, StartShape, ExitShape, WatchShape, At, Handled
  <2> QED
    BY DEF CrashInv, Planned
<1>6. OneLive'
  BY <1>2 DEF OneLive
<1>7. Owned'
  <2>1. marker'.owner = None => marker' = NoMarker
    BY DEF CrashInv, Owned, NoMarker
  <2>2. ASSUME NEW t \in Sessions
        PROVE  ~Unmarked(t)' /\ (dash'[t] = "new" => marker'.owner # t)
    BY <1>1, <1>2, CrashAssumption DEF Lives, Unmarked, CrashInv, Owned, NoMarker
  <2>3. NoMarker' = NoMarker
    BY DEF NoMarker
  <2> QED
    BY <1>2, <2>1, <2>2, <2>3 DEF Owned
<1>8. Recorded'
  BY DEF Recorded
<1>9. Unused'
  <2>1. ASSUME NEW t \in Sessions
        PROVE  snap'[t][t] = {} /\ (helper'[t] = "none" =>
                  left[t] = {} /\ \A o \in Sessions : snap'[o][t] = {})
    BY <1>1 DEF NoRows, CrashInv, Unused
  <2>2. ASSUME NEW t \in Sessions, dash'[t] = "new"
        PROVE  helper'[t] = "none"
    BY <1>1, <2>2 DEF CrashInv, Unused
  <2> QED
    BY <1>2, <2>1, <2>2 DEF Lives, Unused
<1>10. ExitKnows'
  BY <1>2 DEF Lives, ExitKnows
<1>11. WatchKnows'
  <2>1. ASSUME NEW t \in Sessions, watch[t] = "watching"
        PROVE  ~(Len(wtodo[t]) <= 9)
    BY <2>1, WatchWaits
  <2> QED
    BY <2>1 DEF WatchKnows, watchers
<1> QED
  BY <1>4, <1>5, <1>6, <1>7, <1>8, <1>9, <1>10, <1>11 DEF CrashInv

LEMMA DashClearsKeeps ==
    ASSUME CrashInv, NEW s \in Sessions, DashClears(s)
    PROVE  CrashInv'
<1>1. /\ Doing(s, "clear") /\ Done(s) /\ Gone(s) /\ Lives(s)
      /\ marker' = (IF sound[s] THEN NoMarker ELSE marker)
      /\ UNCHANGED <<watchers, helper, left, faults>>
  BY DEF DashClears, Doing
<1>2. DOMAIN todo' = Sessions /\ \A t \in Sessions : t # s => todo'[t] = todo[t]
  BY <1>1 DEF Done, CrashInv, Typed
<1>3. ASSUME NEW t \in Sessions,
             dash'[t] = "gone" /\ helper'[t] = "alive" /\ marker'.owner = t
      PROVE  marker'.helper = t
  <2>1. t # s
    BY <1>1, <1>3, ClearingKnows
  <2>2. dash[t] = "gone"
    BY <1>1, <1>3, <2>1 DEF Gone, CrashInv, Typed, TypeOK
  <2>3. marker' = marker
    BY <1>1, <1>3, CrashAssumption DEF NoMarker
  <2> QED
    BY <1>1, <1>3, <2>2, <2>3 DEF CrashInv, Recorded
<1>4. helper' \in [Sessions -> {"none", "alive", "dead"}]
  BY <1>1 DEF CrashInv, Typed, TypeOK
<1> QED
  BY <1>1, <1>2, <1>3, <1>4, GoneKeeps

LEMMA CrashKeeps ==
    ASSUME CrashInv, InTurn, NEW s \in Sessions, Crash(s)
    PROVE  CrashInv'
<1>1. /\ Lives(s) /\ Gone(s) /\ todo' = [todo EXCEPT ![s] = <<>>]
      /\ UNCHANGED <<watchers, marker, left, faults>>
  BY DEF Crash
<1>2. PICK reaped \in BOOLEAN :
        /\ helper[s] = "alive" /\ ~Gap /\ marker.helper # s => reaped
        /\ helper' = IF reaped THEN [helper EXCEPT ![s] = "dead"] ELSE helper
  BY DEF Crash
<1>3. DOMAIN todo' = Sessions /\ \A t \in Sessions : t # s => todo'[t] = todo[t]
  BY <1>1 DEF CrashInv, Typed
<1>4. /\ helper' \in [Sessions -> {"none", "alive", "dead"}]
      /\ \A t \in Sessions : helper'[t] = "none" => helper[t] = "none"
      /\ \A t \in Sessions : t # s => helper'[t] = helper[t]
      /\ helper'[s] = "alive" => (helper[s] = "alive" /\ ~reaped)
  BY <1>2 DEF CrashInv, Typed, TypeOK
<1>5. ASSUME NEW t \in Sessions,
             dash'[t] = "gone" /\ helper'[t] = "alive" /\ marker'.owner = t
      PROVE  marker'.helper = t
  <2>1. CASE t = s
    BY <1>1, <1>2, <1>4, <1>5, <2>1 DEF InTurn
  <2>2. CASE t # s
    <3>1. dash[t] = "gone"
      BY <1>1, <1>5, <2>2 DEF Gone, CrashInv, Typed, TypeOK
    <3> QED
      BY <1>1, <1>4, <1>5, <2>2, <3>1 DEF CrashInv, Recorded
  <2> QED
    BY <2>1, <2>2
<1> QED
  BY <1>1, <1>3, <1>4, <1>5, GoneKeeps

-----------------------------------------------------------------------------
(* The helper.                                                              *)

\* What a helper does while it runs disturbs no verdict: whoever has one has
\* ended it first.
LEMMA HelperKeeps ==
    ASSUME CrashInv, NEW s \in Sessions, helper[s] = "alive",
           UNCHANGED <<dashes, watchers, marker, snap>>,
           helper' \in [Sessions -> {"none", "alive", "dead"}],
           helper'[s] # "none",
           \A t \in Sessions : t # s => helper'[t] = helper[t],
           left' \in [Sessions -> SUBSET Kinds],
           \A t \in Sessions : t # s => left'[t] = left[t],
           faults' \in 0..MaxFaults
    PROVE  CrashInv'
<1>1. UNCHANGED <<todo, dash, sound, wtodo, watch, wsound, marker, snap>>
  BY DEF dashes, watchers
<1>2. Typed'
  BY <1>1 DEF CrashInv, Typed, TypeOK
<1>3. Planned' /\ OneLive' /\ Owned'
  BY <1>1 DEF CrashInv, Planned, StartShape, ExitShape, WatchShape, At, Handled,
              OneLive, Lives, Owned, Unmarked, NoMarker
<1>4. Recorded'
  BY <1>1 DEF CrashInv, Recorded
<1>5. Unused'
  <2>1. ASSUME NEW t \in Sessions
        PROVE  /\ dash[t] = "new" \/ (dash[t] = "starting" /\ Len(todo[t]) >= 2)
                     => helper'[t] = "none"
               /\ helper'[t] = "none" =>
                     left'[t] = {} /\ \A o \in Sessions : snap[o][t] = {}
               /\ snap[t][t] = {}
    BY DEF CrashInv, Unused
  <2> QED
    BY <1>1, <2>1 DEF Unused
<1>6. ExitKnows'
  <2>1. ASSUME NEW t \in Sessions, dash[t] = "leaving", Handled(todo[t]),
               Len(todo[t]) <= 7
        PROVE  t # s
    BY <2>1 DEF CrashInv, ExitKnows
  <2>2. ExitKnows
    BY DEF CrashInv
  <2> QED
    BY <1>1, <2>1, <2>2 DEF ExitKnows, Handled, At
<1>7. WatchKnows'
  <2> SUFFICES ASSUME NEW t \in Sessions, watch[t] = "watching", Len(wtodo[t]) <= 9
               PROVE  /\ dash[t] = "gone" /\ marker.owner = t /\ \A o \in Sessions : ~Lives(o)
                      /\ Len(wtodo[t]) <= 8 => helper'[t] # "alive"
                      /\ Len(wtodo[t]) <= 7 /\ wsound[t] => \A k \in HeardByWatchdog :
                            k \notin left'[t] \/ \E d \in 0..(Len(wtodo[t]) - 1) : At(wtodo[t], d) = k
    BY <1>1 DEF WatchKnows, At, Lives
  <2>1. /\ dash[t] = "gone" /\ marker.owner = t /\ \A o \in Sessions : ~Lives(o)
        /\ Len(wtodo[t]) <= 8 => helper[t] # "alive"
        /\ Len(wtodo[t]) <= 7 /\ wsound[t] => \A k \in HeardByWatchdog :
              k \notin left[t] \/ \E d \in 0..(Len(wtodo[t]) - 1) : At(wtodo[t], d) = k
    BY DEF CrashInv, WatchKnows
  <2>2. CASE t # s
    BY <2>1, <2>2
  <2>3. CASE t = s
    <3>1. PICK n \in Nat : Len(wtodo[t]) = n
      BY DEF CrashInv, Planned, WatchShape
    <3>2. ~(n <= 8) /\ ~(n <= 7)
      BY <2>1, <2>3, <3>1
    <3> QED
      BY <2>1, <3>1, <3>2
  <2> QED
    BY <2>2, <2>3
<1> QED
  BY <1>2, <1>3, <1>4, <1>5, <1>6, <1>7 DEF CrashInv

LEMMA HelperActsKeeps ==
    ASSUME CrashInv, NEW s \in Sessions, HelperActs(s)
    PROVE  CrashInv'
<1>1. PICK i \in 1..Len(HelperInstalls) :
        left' = [left EXCEPT ![s] = @ \cup {HelperInstalls[i]}]
  BY DEF HelperActs
<1>2. helper[s] = "alive" /\ UNCHANGED <<dashes, watchers, helper, marker, snap, faults>>
  BY DEF HelperActs
<1>3. HelperInstalls[i] \in Kinds
  BY DEF Kinds, ToSet
<1>4. left' \in [Sessions -> SUBSET Kinds] /\ \A t \in Sessions : t # s => left'[t] = left[t]
  BY <1>1, <1>3 DEF CrashInv, Typed, TypeOK
<1>5. helper' \in [Sessions -> {"none", "alive", "dead"}] /\ faults' \in 0..MaxFaults
  BY <1>2 DEF CrashInv, Typed, TypeOK
<1> QED
  BY <1>2, <1>4, <1>5, HelperKeeps

LEMMA HelperEndsKeeps ==
    ASSUME CrashInv, NEW s \in Sessions, HelperEnds(s)
    PROVE  CrashInv'
<1>1. /\ helper[s] = "alive" /\ helper' = [helper EXCEPT ![s] = "dead"]
      /\ UNCHANGED <<dashes, watchers, marker, snap>>
  BY DEF HelperEnds
<1>2. /\ helper' \in [Sessions -> {"none", "alive", "dead"}] /\ helper'[s] = "dead"
      /\ \A t \in Sessions : t # s => helper'[t] = helper[t]
  BY <1>1 DEF CrashInv, Typed, TypeOK
<1>3. /\ left' \in [Sessions -> SUBSET Kinds] /\ faults' \in 0..MaxFaults
      /\ \A t \in Sessions : t # s => left'[t] = left[t]
  <2>1. left \in [Sessions -> SUBSET Kinds] /\ faults \in 0..MaxFaults
    BY DEF CrashInv, Typed, TypeOK
  <2>2. CASE left' = [left EXCEPT ![s] = {}] /\ UNCHANGED faults
    BY <2>1, <2>2
  <2>3. CASE /\ faults < MaxFaults /\ faults' = faults + 1
             /\ \E i \in 1..Len(HelperRemoves) :
                  left' = [left EXCEPT ![s] = @ \cap
                      ToSet(SubSeq(HelperRemoves, i, Len(HelperRemoves)))]
    <3>1. PICK rest : left' = [left EXCEPT ![s] = @ \cap rest]
      BY <2>3
    <3>2. faults' \in 0..MaxFaults
      BY <2>1, <2>3, CrashAssumption
    <3> QED
      BY <2>1, <3>1, <3>2
  <2> QED
    BY <2>2, <2>3 DEF HelperEnds
<1> QED
  BY <1>1, <1>2, <1>3, HelperKeeps

-----------------------------------------------------------------------------
(* The watchdog.                                                            *)

LEMMA WatchingIs ==
    ASSUME CrashInv, NEW s \in Sessions, NEW task, Watching(s, task)
    PROVE  /\ watch[s] = "watching" /\ dash[s] = "gone"
           /\ WatchShape(wtodo[s]) /\ WatchShape(Tail(wtodo[s]))
           /\ \E n \in 1..11 : /\ Len(wtodo[s]) = n /\ Len(Tail(wtodo[s])) = n - 1
                               /\ WatchAt(task, n - 1) /\ At(wtodo[s], n - 1) = task
                               /\ \A d \in 0..(n - 2) : At(Tail(wtodo[s]), d) = At(wtodo[s], d)
           /\ task \in WatchTasks
<1>1. /\ watch[s] = "watching" /\ dash[s] = "gone"
      /\ wtodo[s] # <<>> /\ Head(wtodo[s]) = task
  BY DEF Watching
<1>2. WatchShape(wtodo[s])
  BY <1>1 DEF CrashInv, Planned
<1>3. /\ WatchShape(Tail(wtodo[s])) /\ Len(Tail(wtodo[s])) = Len(wtodo[s]) - 1
      /\ Len(wtodo[s]) \in Nat /\ Len(wtodo[s]) >= 1 /\ Len(wtodo[s]) <= 11
      /\ task \in WatchTasks /\ WatchAt(task, Len(wtodo[s]) - 1)
      /\ task = At(wtodo[s], Len(wtodo[s]) - 1)
      /\ \A d \in 0..(Len(wtodo[s]) - 2) : At(Tail(wtodo[s]), d) = At(wtodo[s], d)
  BY <1>1, <1>2, WatchTail
<1>4. \A n \in Nat : (n >= 1 /\ n <= 11) => n \in 1..11
  OBVIOUS
<1>5. Len(wtodo[s]) \in 1..11
  BY <1>3, <1>4
<1> QED
  BY <1>1, <1>2, <1>3, <1>5

\* A watchdog adds nothing: only what it knows itself is to be shown.
LEMMA WatchKeeps ==
    ASSUME CrashInv, NEW s \in Sessions,
           UNCHANGED <<dashes, watch, marker, snap>>,
           DOMAIN wtodo' = Sessions, WatchShape(wtodo'[s]),
           \A t \in Sessions : t # s => wtodo'[t] = wtodo[t],
           wsound' \in [Sessions -> BOOLEAN], faults' \in 0..MaxFaults,
           helper' \in [Sessions -> {"none", "alive", "dead"}],
           \A t \in Sessions : (helper'[t] = "none") <=> (helper[t] = "none"),
           \A t \in Sessions : helper'[t] = "alive" => helper[t] = "alive",
           left' \in [Sessions -> SUBSET Kinds],
           \A t \in Sessions : left'[t] \subseteq left[t],
           WatchKnows'
    PROVE  CrashInv'
<1>1. UNCHANGED <<todo, dash, sound, watch, marker, snap>>
  BY DEF dashes
<1>2. Typed'
  BY <1>1 DEF CrashInv, Typed, TypeOK
<1>3. Planned'
  <2> SUFFICES ASSUME NEW t \in Sessions
               PROVE  /\ dash[t] = "starting" => StartShape(todo[t])
                      /\ dash[t] = "up" => todo[t] = <<>>
                      /\ dash[t] = "leaving" => ExitShape(todo[t])
                      /\ watch[t] = "watching" => WatchShape(wtodo'[t])
    BY <1>1 DEF Planned, StartShape, ExitShape, WatchShape, At, Handled
  <2> QED
    BY DEF CrashInv, Planned
<1>4. OneLive' /\ Owned'
  BY <1>1 DEF CrashInv, OneLive, Lives, Owned, Unmarked, NoMarker
<1>5. Recorded'
  BY <1>1 DEF CrashInv, Recorded
<1>6. Unused'
  BY <1>1 DEF CrashInv, Unused
<1>7. ExitKnows'
  <2> SUFFICES ASSUME NEW t \in Sessions, dash[t] = "leaving",
                      Handled(todo[t]), Len(todo[t]) <= 7
               PROVE  /\ helper'[t] # "alive"
                      /\ sound[t] =>
                            /\ Len(todo[t]) <= 5 => "host" \notin left'[t]
                            /\ Len(todo[t]) <= 4 => left'[t] \cap {"adapter", "geo"} = {}
                            /\ Len(todo[t]) <= 2 => "residue" \notin left'[t]
    BY <1>1 DEF ExitKnows, Handled, At
  <2>1. /\ helper[t] # "alive"
        /\ sound[t] => /\ Len(todo[t]) <= 5 => "host" \notin left[t]
                       /\ Len(todo[t]) <= 4 => left[t] \cap {"adapter", "geo"} = {}
                       /\ Len(todo[t]) <= 2 => "residue" \notin left[t]
    BY DEF CrashInv, ExitKnows
  <2>2. left'[t] \subseteq left[t] /\ helper'[t] # "alive"
    BY <2>1
  <2> QED
    BY <2>1, <2>2
<1> QED
  BY <1>2, <1>3, <1>4, <1>5, <1>6, <1>7 DEF CrashInv

\* The end of a watchdog that has kept the marker, or that retires its own.
LEMMA WatchGoneKeeps ==
    ASSUME CrashInv, NEW s \in Sessions, watch[s] = "watching", WatchGone(s),
           UNCHANGED <<dashes, helper, left, snap, faults>>,
           marker' = marker \/ (marker' = NoMarker /\ Len(wtodo[s]) <= 9)
    PROVE  CrashInv'
<1>1. UNCHANGED <<todo, dash, sound, helper, left, snap, faults>>
  BY DEF dashes
<1>2. /\ DOMAIN wtodo' = Sessions
      /\ \A t \in Sessions : t # s => (wtodo'[t] = wtodo[t] /\ watch'[t] = watch[t]
                                       /\ wsound'[t] = wsound[t])
      /\ watch'[s] = "gone" /\ wsound' \in [Sessions -> BOOLEAN]
      /\ watch' \in [Sessions -> {"none", "watching", "gone"}]
  BY DEF WatchGone, CrashInv, Typed, TypeOK
<1>3. Typed'
  <2>1. marker' \in [owner : Sessions \cup {None}, helper : Sessions \cup {None}]
    BY DEF NoMarker, CrashInv, Typed, TypeOK
  <2> QED
    BY <1>1, <1>2, <2>1 DEF CrashInv, Typed, TypeOK
<1>4. Planned'
  <2> SUFFICES ASSUME NEW t \in Sessions
               PROVE  /\ dash[t] = "starting" => StartShape(todo[t])
                      /\ dash[t] = "up" => todo[t] = <<>>
                      /\ dash[t] = "leaving" => ExitShape(todo[t])
                      /\ watch'[t] = "watching" => WatchShape(wtodo'[t])
    BY <1>1 DEF Planned, StartShape, ExitShape, WatchShape, At, Handled
  <2> QED
    BY <1>2 DEF CrashInv, Planned
<1>5. OneLive'
  BY <1>1 DEF CrashInv, OneLive, Lives
<1>6. Owned'
  <2>1. CASE marker' = marker
    BY <1>1, <2>1 DEF CrashInv, Owned, Lives, Unmarked, NoMarker
  <2>2. CASE marker' = NoMarker /\ Len(wtodo[s]) <= 9
    <3>1. \A t \in Sessions : ~Lives(t)
      BY <2>2, NobodyLives
    <3>2. \A t \in Sessions : ~Lives(t)' /\ marker'.owner # t
      BY <1>1, <2>2, <3>1, CrashAssumption DEF Lives, NoMarker
    <3>3. marker'.owner = None => marker' = NoMarker'
      BY <2>2 DEF NoMarker
    <3> QED
      BY <3>2, <3>3 DEF Owned
  <2> QED
    BY <2>1, <2>2
<1>7. Recorded'
  <2>1. CASE marker' = marker
    BY <1>1, <2>1 DEF CrashInv, Recorded
  <2>2. CASE marker' = NoMarker
    BY <2>2, CrashAssumption DEF Recorded, NoMarker
  <2> QED
    BY <2>1, <2>2
<1>8. Unused'
  BY <1>1 DEF CrashInv, Unused
<1>9. ExitKnows'
  BY <1>1 DEF CrashInv, ExitKnows, Handled, At
<1>10. WatchKnows'
  <2> SUFFICES ASSUME NEW t \in Sessions, watch'[t] = "watching", Len(wtodo'[t]) <= 9
               PROVE  /\ dash[t] = "gone" /\ marker'.owner = t /\ \A o \in Sessions : ~Lives(o)
                      /\ Len(wtodo'[t]) <= 8 => helper[t] # "alive"
                      /\ Len(wtodo'[t]) <= 7 /\ wsound'[t] => \A k \in HeardByWatchdog :
                            k \notin left[t] \/ \E d \in 0..(Len(wtodo'[t]) - 1) : At(wtodo'[t], d) = k
    BY <1>1 DEF WatchKnows, At, Lives
  <2>1. t # s /\ watch[t] = "watching" /\ wtodo'[t] = wtodo[t] /\ wsound'[t] = wsound[t]
    BY <1>2
  <2>2. /\ dash[t] = "gone" /\ marker.owner = t /\ \A o \in Sessions : ~Lives(o)
        /\ Len(wtodo[t]) <= 8 => helper[t] # "alive"
        /\ Len(wtodo[t]) <= 7 /\ wsound[t] => \A k \in HeardByWatchdog :
              k \notin left[t] \/ \E d \in 0..(Len(wtodo[t]) - 1) : At(wtodo[t], d) = k
    BY <2>1 DEF CrashInv, WatchKnows
  <2>3. marker' = marker
    BY <2>1, OneWatcher
  <2> QED
    BY <2>1, <2>2, <2>3
<1> QED
  BY <1>3, <1>4, <1>5, <1>6, <1>7, <1>8, <1>9, <1>10 DEF CrashInv

LEMMA WatchChecksKeeps ==
    ASSUME CrashInv, InTurn, NEW s \in Sessions, WatchChecks(s)
    PROVE  CrashInv'
<1>1. PICK task \in {"check", "recheck"} :
        /\ Watching(s, task)
        /\ task = "recheck" /\ ~Overlap => \A n \in Sessions : ~Unmarked(n)
        /\ IF marker.owner = s THEN WatchDone(s) /\ UNCHANGED <<watch, wsound>>
           ELSE WatchGone(s)
        /\ UNCHANGED <<dashes, helper, marker, left, snap, faults>>
  BY DEF WatchChecks
<1>2. CASE marker.owner # s
  BY <1>1, <1>2, WatchGoneKeeps DEF Watching
<1>3. CASE marker.owner = s
  <2>1. PICK n \in 1..11 :
          /\ Len(wtodo[s]) = n /\ Len(Tail(wtodo[s])) = n - 1 /\ WatchAt(task, n - 1)
    BY <1>1, WatchingIs
  <2>2. /\ DOMAIN wtodo' = Sessions /\ wtodo'[s] = Tail(wtodo[s])
        /\ \A t \in Sessions : t # s => wtodo'[t] = wtodo[t]
        /\ WatchShape(wtodo'[s]) /\ dash[s] = "gone"
    BY <1>1, <1>3, WatchingIs DEF WatchDone, CrashInv, Typed
  <2>3. UNCHANGED <<todo, dash, sound, watch, wsound, helper, marker, left, snap, faults>>
    BY <1>1, <1>3 DEF dashes
  <2>4. n - 1 >= 9 /\ (n - 1 <= 9 => task = "recheck")
    BY <1>1, <2>1 DEF WatchAt
  <2>5. ASSUME n - 1 <= 9
        PROVE  \A t \in Sessions : ~Lives(t)
    <3>1. \A t \in Sessions : ~Unmarked(t)
      BY <1>1, <2>4, <2>5 DEF InTurn
    <3> QED
      BY <1>3, <2>2, <3>1 DEF CrashInv, Owned, Lives
  <2>6. WatchKnows'
    <3> SUFFICES ASSUME NEW t \in Sessions, watch[t] = "watching", Len(wtodo'[t]) <= 9
                 PROVE  /\ dash[t] = "gone" /\ marker.owner = t /\ \A o \in Sessions : ~Lives(o)
                        /\ Len(wtodo'[t]) <= 8 => helper[t] # "alive"
                        /\ Len(wtodo'[t]) <= 7 /\ wsound[t] => \A k \in HeardByWatchdog :
                              k \notin left[t] \/ \E d \in 0..(Len(wtodo'[t]) - 1) : At(wtodo'[t], d) = k
      BY <2>3 DEF WatchKnows, At, Lives
    <3>1. CASE t = s
      <4>1. Len(wtodo'[t]) = n - 1 /\ n - 1 <= 9
        BY <2>1, <2>2, <3>1
      <4>2. ~(n - 1 <= 8) /\ ~(n - 1 <= 7)
        BY <2>4
      <4> QED
        BY <1>3, <2>2, <2>5, <3>1, <4>1, <4>2
    <3>2. CASE t # s
      <4>1. wtodo'[t] = wtodo[t] /\ Len(wtodo[t]) <= 9
        BY <2>2, <3>2
      <4> QED
        BY <4>1 DEF CrashInv, WatchKnows
    <3> QED
      BY <3>1, <3>2
  <2>7. /\ wsound' \in [Sessions -> BOOLEAN] /\ faults' \in 0..MaxFaults
        /\ helper' \in [Sessions -> {"none", "alive", "dead"}]
        /\ left' \in [Sessions -> SUBSET Kinds]
    BY <2>3 DEF CrashInv, Typed, TypeOK
  <2>8. UNCHANGED <<dashes, watch, marker, snap, helper, left>>
    BY <2>3 DEF dashes
  <2> QED
    BY <2>2, <2>6, <2>7, <2>8, WatchKeeps
<1> QED
  BY <1>2, <1>3

\* Past the second reading a watchdog has only its own session to know about.
LEMMA WatchLearns ==
    ASSUME CrashInv, NEW s \in Sessions, watch[s] = "watching", Len(wtodo[s]) <= 9,
           UNCHANGED <<dashes, watch, marker>>,
           \A t \in Sessions : t # s => wtodo'[t] = wtodo[t],
           Len(wtodo'[s]) <= 8, helper'[s] # "alive",
           (Len(wtodo'[s]) <= 7 /\ wsound'[s]) => \A k \in HeardByWatchdog :
              k \notin left'[s] \/ \E d \in 0..(Len(wtodo'[s]) - 1) : At(wtodo'[s], d) = k
    PROVE  WatchKnows'
<1>1. UNCHANGED <<todo, dash, sound, watch, marker>>
  BY DEF dashes
<1>2. dash[s] = "gone" /\ marker.owner = s /\ \A t \in Sessions : ~Lives(t)
  BY NobodyLives
<1> SUFFICES ASSUME NEW t \in Sessions, watch[t] = "watching", Len(wtodo'[t]) <= 9
             PROVE  /\ dash[t] = "gone" /\ marker.owner = t /\ \A o \in Sessions : ~Lives(o)
                    /\ Len(wtodo'[t]) <= 8 => helper'[t] # "alive"
                    /\ Len(wtodo'[t]) <= 7 /\ wsound'[t] => \A k \in HeardByWatchdog :
                          k \notin left'[t] \/ \E d \in 0..(Len(wtodo'[t]) - 1) : At(wtodo'[t], d) = k
  BY <1>1 DEF WatchKnows, At, Lives
<1>3. t = s
  BY OneWatcher
<1> QED
  BY <1>2, <1>3

LEMMA WatchKillsHelperKeeps ==
    ASSUME CrashInv, NEW s \in Sessions, WatchKillsHelper(s)
    PROVE  CrashInv'
<1>1. /\ Watching(s, "kill") /\ WatchDone(s)
      /\ UNCHANGED <<dashes, watch, wsound, marker, left, snap, faults>>
  BY DEF WatchKillsHelper
<1>2. PICK n \in 1..11 :
        /\ Len(wtodo[s]) = n /\ Len(Tail(wtodo[s])) = n - 1 /\ WatchAt("kill", n - 1)
  BY <1>1, WatchingIs
<1>3. n = 9
  BY <1>2 DEF WatchAt
<1>4. /\ DOMAIN wtodo' = Sessions /\ wtodo'[s] = Tail(wtodo[s])
      /\ \A t \in Sessions : t # s => wtodo'[t] = wtodo[t]
      /\ WatchShape(wtodo'[s]) /\ dash[s] = "gone" /\ watch[s] = "watching"
  BY <1>1, WatchingIs DEF WatchDone, CrashInv, Typed
<1>5. Len(wtodo[s]) <= 9 /\ Len(wtodo'[s]) <= 8 /\ ~(Len(wtodo'[s]) <= 7)
  <2>1. Len(wtodo[s]) = 9 /\ Len(wtodo'[s]) = 8
    BY <1>2, <1>3, <1>4
  <2> QED
    BY <2>1
<1>6. /\ helper' \in [Sessions -> {"none", "alive", "dead"}]
      /\ \A t \in Sessions : (helper'[t] = "none") <=> (helper[t] = "none")
      /\ \A t \in Sessions : helper'[t] = "alive" => (helper[t] = "alive" /\ t # marker.helper)
  BY DEF WatchKillsHelper, CrashInv, Typed, TypeOK
<1>7. helper'[s] # "alive"
  <2>1. marker.owner = s
    BY <1>4, <1>5, NobodyLives
  <2> QED
    BY <1>4, <1>6, <2>1 DEF CrashInv, Recorded
<1>8. WatchKnows'
  BY <1>1, <1>4, <1>5, <1>7, WatchLearns
<1>9. /\ wsound' \in [Sessions -> BOOLEAN] /\ faults' \in 0..MaxFaults
      /\ left' \in [Sessions -> SUBSET Kinds] /\ \A t \in Sessions : left'[t] \subseteq left[t]
  BY <1>1 DEF CrashInv, Typed, TypeOK
<1> QED
  BY <1>1, <1>4, <1>6, <1>8, <1>9, WatchKeeps

LEMMA WatchScansKeeps ==
    ASSUME CrashInv, NEW s \in Sessions, WatchScans(s)
    PROVE  CrashInv'
<1>1. /\ Watching(s, "scan")
      /\ UNCHANGED <<dashes, watch, wsound, helper, marker, left, snap, faults>>
  BY DEF WatchScans
<1>2. PICK n \in 1..11 : Len(wtodo[s]) = n /\ WatchAt("scan", n - 1)
  BY <1>1, WatchingIs
<1>3. n = 8
  BY <1>2 DEF WatchAt
<1>4. watch[s] = "watching" /\ Len(wtodo[s]) <= 9 /\ Len(wtodo[s]) <= 8
  <2>1. Len(wtodo[s]) = 8
    BY <1>2, <1>3
  <2> QED
    BY <1>1, <2>1 DEF Watching
<1>5. marker.owner = s /\ ~Lives(s) /\ helper[s] # "alive"
  BY <1>4, NobodyLives
<1>6. /\ DOMAIN wtodo' = Sessions /\ wtodo'[s] = AfterRescan
      /\ \A t \in Sessions : t # s => wtodo'[t] = wtodo[t]
  BY <1>5 DEF WatchScans, AfterRescan, CrashInv, Typed
<1>7. Len(wtodo'[s]) <= 8
  <2>1. \A m \in 1..7 : m <= 8
    OBVIOUS
  <2> QED
    BY <1>6, <2>1, AfterRescanShape
<1>8. \A k \in HeardByWatchdog :
        k \notin left[s] \/ \E d \in 0..(Len(wtodo'[s]) - 1) : At(wtodo'[s], d) = k
  <2>1. ASSUME NEW k \in HeardByWatchdog, k \in left[s]
        PROVE  k \in Present(Kinds)
    BY <2>1, KindsAre DEF Present, HeardByWatchdog
  <2> QED
    BY <1>6, <2>1, AfterRescanShape
<1>9. WatchKnows'
  BY <1>1, <1>4, <1>5, <1>6, <1>7, <1>8, WatchLearns
<1>10. /\ wsound' \in [Sessions -> BOOLEAN] /\ faults' \in 0..MaxFaults
       /\ helper' \in [Sessions -> {"none", "alive", "dead"}]
       /\ left' \in [Sessions -> SUBSET Kinds] /\ \A t \in Sessions : left'[t] \subseteq left[t]
  BY <1>1 DEF CrashInv, Typed, TypeOK
<1> QED
  BY <1>1, <1>6, <1>9, <1>10, AfterRescanShape, WatchKeeps

\* A sweep is one of the last seven tasks.
LEMMA SweepingIs ==
    ASSUME CrashInv, NEW s \in Sessions, NEW k \in Kinds, Watching(s, k), WatchDone(s)
    PROVE  /\ watch[s] = "watching" /\ Len(wtodo[s]) <= 9 /\ Len(wtodo'[s]) <= 8
           /\ helper[s] # "alive" /\ \A t \in Sessions : ~Lives(t)
           /\ DOMAIN wtodo' = Sessions /\ WatchShape(wtodo'[s])
           /\ \A t \in Sessions : t # s => wtodo'[t] = wtodo[t]
           /\ wsound[s] => \A j \in HeardByWatchdog \ {k} :
                 j \notin left[s] \/ \E d \in 0..(Len(wtodo'[s]) - 1) : At(wtodo'[s], d) = j
<1>1. PICK n \in 1..11 :
        /\ Len(wtodo[s]) = n /\ Len(Tail(wtodo[s])) = n - 1
        /\ WatchAt(k, n - 1) /\ At(wtodo[s], n - 1) = k
        /\ \A d \in 0..(n - 2) : At(Tail(wtodo[s]), d) = At(wtodo[s], d)
  BY WatchingIs
<1>2. n <= 7
  BY <1>1, KindsAre DEF WatchAt
<1>3. /\ DOMAIN wtodo' = Sessions /\ wtodo'[s] = Tail(wtodo[s])
      /\ \A t \in Sessions : t # s => wtodo'[t] = wtodo[t]
      /\ WatchShape(wtodo'[s]) /\ watch[s] = "watching"
  BY WatchingIs DEF WatchDone, CrashInv, Typed
<1>4. /\ Len(wtodo[s]) <= 9 /\ Len(wtodo[s]) <= 8 /\ Len(wtodo[s]) <= 7
      /\ Len(wtodo'[s]) <= 8 /\ Len(wtodo'[s]) = n - 1
  <2>1. n <= 9 /\ n <= 8 /\ n - 1 <= 8
    BY <1>2
  <2> QED
    BY <1>1, <1>2, <1>3, <2>1
<1>5. helper[s] # "alive" /\ \A t \in Sessions : ~Lives(t)
  BY <1>3, <1>4, NobodyLives
<1>6. ASSUME wsound[s], NEW j \in HeardByWatchdog \ {k}, j \in left[s]
      PROVE  \E d \in 0..(Len(wtodo'[s]) - 1) : At(wtodo'[s], d) = j
  <2>1. PICK d \in 0..(n - 1) : At(wtodo[s], d) = j
    BY <1>1, <1>3, <1>4, <1>6 DEF CrashInv, WatchKnows
  <2>2. d # n - 1
    BY <1>1, <2>1
  <2>3. d \in 0..(n - 2) /\ n - 2 = (n - 1) - 1
    BY <2>2
  <2>4. At(wtodo'[s], d) = j
    BY <1>1, <1>3, <2>1, <2>3
  <2> QED
    BY <1>4, <2>3, <2>4
<1> QED
  BY <1>3, <1>4, <1>5, <1>6

LEMMA WatchSweepsKeeps ==
    ASSUME CrashInv, NEW s \in Sessions, WatchSweeps(s)
    PROVE  CrashInv'
<1>1. PICK k \in Kinds :
        /\ Watching(s, k) /\ WatchDone(s) /\ left' = Swept(k)
        /\ UNCHANGED <<dashes, watch, wsound, helper, marker, snap, faults>>
  BY DEF WatchSweeps
<1>2. /\ left' \in [Sessions -> SUBSET Kinds]
      /\ \A t \in Sessions : left'[t] = left[t] \ {k}
  BY <1>1 DEF Swept, CrashInv, Typed, TypeOK
<1>3. WatchKnows'
  <2>1. wsound'[s] => \A j \in HeardByWatchdog :
          j \notin left'[s] \/ \E d \in 0..(Len(wtodo'[s]) - 1) : At(wtodo'[s], d) = j
    BY <1>1, <1>2, SweepingIs
  <2> QED
    BY <1>1, <2>1, SweepingIs, WatchLearns
<1>4. /\ wsound' \in [Sessions -> BOOLEAN] /\ faults' \in 0..MaxFaults
      /\ helper' \in [Sessions -> {"none", "alive", "dead"}]
      /\ \A t \in Sessions : left'[t] \subseteq left[t]
  BY <1>1, <1>2 DEF CrashInv, Typed, TypeOK
<1> QED
  BY <1>1, <1>2, <1>3, <1>4, SweepingIs, WatchKeeps

LEMMA WatchSweepFailsKeeps ==
    ASSUME CrashInv, NEW s \in Sessions, WatchSweepFails(s)
    PROVE  CrashInv'
<1>1. PICK k \in Kinds :
        /\ Watching(s, k) /\ WatchDone(s) /\ faults < MaxFaults /\ faults' = faults + 1
        /\ wsound' = [wsound EXCEPT ![s] = @ /\ k \notin HeardByWatchdog]
        /\ UNCHANGED <<dashes, watch, helper, marker, left, snap>>
  BY DEF WatchSweepFails, Present
<1>2. /\ wsound' \in [Sessions -> BOOLEAN]
      /\ wsound'[s] => (wsound[s] /\ k \notin HeardByWatchdog)
  BY <1>1 DEF CrashInv, Typed, TypeOK
<1>3. WatchKnows'
  <2>1. wsound'[s] => \A j \in HeardByWatchdog :
          j \notin left'[s] \/ \E d \in 0..(Len(wtodo'[s]) - 1) : At(wtodo'[s], d) = j
    BY <1>1, <1>2, SweepingIs
  <2> QED
    BY <1>1, <2>1, SweepingIs, WatchLearns
<1>4. faults' \in 0..MaxFaults
  BY <1>1, CrashAssumption DEF CrashInv, Typed, TypeOK
<1>5. /\ helper' \in [Sessions -> {"none", "alive", "dead"}]
      /\ left' \in [Sessions -> SUBSET Kinds] /\ \A t \in Sessions : left'[t] \subseteq left[t]
  BY <1>1 DEF CrashInv, Typed, TypeOK
<1> QED
  BY <1>1, <1>2, <1>3, <1>4, <1>5, SweepingIs, WatchKeeps

\* The watchdog at its last task: what its verdict stands for.
LEMMA RetiringKnows ==
    ASSUME CrashInv, NEW s \in Sessions, Watching(s, "retire")
    PROVE  /\ watch[s] = "watching" /\ Len(wtodo[s]) <= 9 /\ marker.owner = s
           /\ wsound[s] => left[s] \subseteq Kinds \ HeardByWatchdog
<1>1. PICK n \in 1..11 :
        Len(wtodo[s]) = n /\ WatchAt("retire", n - 1) /\ At(wtodo[s], n - 1) = "retire"
  BY WatchingIs
<1>2. n = 1
  BY <1>1 DEF WatchAt
<1>3. /\ watch[s] = "watching" /\ Len(wtodo[s]) = 1
      /\ Len(wtodo[s]) <= 9 /\ Len(wtodo[s]) <= 7 /\ At(wtodo[s], 0) = "retire"
  <2>1. Len(wtodo[s]) = 1 /\ 1 - 1 = 0
    BY <1>1, <1>2
  <2> QED
    BY <1>1, <1>2, <2>1 DEF Watching
<1>4. marker.owner = s
  BY <1>3, NobodyLives
<1>5. wsound[s] => \A k \in HeardByWatchdog : k \notin left[s]
  <2>1. ASSUME wsound[s], NEW k \in HeardByWatchdog, k \in left[s]
        PROVE  \E d \in 0..(Len(wtodo[s]) - 1) : At(wtodo[s], d) = k
    BY <1>3, <2>1 DEF CrashInv, WatchKnows
  <2>2. \A d \in 0..(Len(wtodo[s]) - 1) : d = 0
    BY <1>3
  <2>3. "retire" \notin HeardByWatchdog
    BY DEF HeardByWatchdog
  <2> QED
    BY <1>3, <2>1, <2>2, <2>3
<1>6. left[s] \subseteq Kinds
  BY DEF CrashInv, Typed, TypeOK
<1> QED
  BY <1>3, <1>4, <1>5, <1>6

LEMMA WatchRetiresKeeps ==
    ASSUME CrashInv, NEW s \in Sessions, WatchRetires(s)
    PROVE  CrashInv'
<1>1. /\ Watching(s, "retire") /\ WatchGone(s)
      /\ marker' = marker \/ marker' = NoMarker
      /\ UNCHANGED <<dashes, helper, left, snap, faults>>
  BY DEF WatchRetires
<1> QED
  BY <1>1, RetiringKnows, WatchGoneKeeps

LEMMA WatchKilledKeeps ==
    ASSUME CrashInv, NEW s \in Sessions, WatchKilled(s)
    PROVE  CrashInv'
BY WatchGoneKeeps DEF WatchKilled

-----------------------------------------------------------------------------
(* The system.                                                              *)

LEMMA RebootKeeps ==
    ASSUME CrashInv, Reboot
    PROVE  CrashInv'
<1>1. /\ \A s \in Sessions : dash'[s] = IF dash[s] = "new" THEN "new" ELSE "gone"
      /\ \A s \in Sessions : watch'[s] = IF watch[s] = "none" THEN "none" ELSE "gone"
      /\ \A s \in Sessions : helper'[s] = IF helper[s] = "none" THEN "none" ELSE "dead"
      /\ \A s \in Sessions : left'[s] = left[s] \cap Lasting
      /\ \A s \in Sessions : snap'[s] = NoRows
      /\ UNCHANGED <<marker, faults>>
  BY DEF Reboot
<1>2. Typed'
  <2>1. /\ dash' \in [Sessions -> {"new", "starting", "up", "leaving", "gone"}]
        /\ watch' \in [Sessions -> {"none", "watching", "gone"}]
        /\ helper' \in [Sessions -> {"none", "alive", "dead"}]
        /\ sound' \in [Sessions -> BOOLEAN] /\ wsound' \in [Sessions -> BOOLEAN]
    BY DEF Reboot
  <2>2. left' \in [Sessions -> SUBSET Kinds]
    BY DEF Reboot, CrashInv, Typed, TypeOK
  <2>3. snap' \in [Sessions -> [Sessions -> SUBSET Routes]]
    BY DEF Reboot, NoRows
  <2>4. DOMAIN todo' = Sessions /\ DOMAIN wtodo' = Sessions
    BY DEF Reboot
  <2> QED
    BY <1>1, <2>1, <2>2, <2>3, <2>4 DEF CrashInv, Typed, TypeOK
<1>3. \A s \in Sessions : dash'[s] \in {"new", "gone"} /\ watch'[s] # "watching"
  BY <1>1
<1>4. Planned' /\ OneLive' /\ ExitKnows' /\ WatchKnows'
  BY <1>3 DEF Planned, OneLive, Lives, ExitKnows, WatchKnows
<1>5. Owned'
  <2>1. ASSUME NEW s \in Sessions
        PROVE  /\ ~Lives(s)' /\ ~Unmarked(s)'
               /\ dash'[s] = "new" => marker.owner # s
    BY <1>1, <1>3 DEF Lives, Unmarked, CrashInv, Owned
  <2>2. marker.owner = None => marker = NoMarker
    BY DEF CrashInv, Owned
  <2> QED
    BY <1>1, <2>1, <2>2 DEF Owned, NoMarker
<1>6. Recorded'
  BY <1>1 DEF Recorded
<1>7. Unused'
  BY <1>1, <1>3 DEF CrashInv, Unused, NoRows
<1> QED
  BY <1>2, <1>4, <1>5, <1>6, <1>7 DEF CrashInv

LEMMA CrashInit == Init => CrashInv
<1> SUFFICES ASSUME Init
             PROVE  CrashInv
  OBVIOUS
<1>1. Typed
  BY CrashAssumption DEF Init, Typed, TypeOK, NoRows
<1>2. \A s \in Sessions : dash[s] = "new" /\ watch[s] = "none" /\ helper[s] = "none"
                          /\ left[s] = {} /\ snap[s] = NoRows
  BY DEF Init
<1>3. Planned /\ OneLive /\ Recorded /\ ExitKnows /\ WatchKnows
  BY <1>2 DEF Planned, OneLive, Lives, Recorded, ExitKnows, WatchKnows
<1>4. Owned
  BY <1>2, CrashAssumption DEF Init, Owned, Lives, Unmarked, NoMarker
<1>5. Unused
  BY <1>2 DEF Unused, NoRows
<1> QED
  BY <1>1, <1>3, <1>4, <1>5 DEF CrashInv

LEMMA CrashStutters ==
    ASSUME CrashInv, UNCHANGED vars
    PROVE  CrashInv'
<1>1. UNCHANGED <<todo, dash, sound, wtodo, watch, wsound, helper, marker, left, snap, faults>>
  BY DEF vars, dashes, watchers
<1>2. Typed'
  BY <1>1 DEF CrashInv, Typed, TypeOK
<1>3. Planned'
  BY <1>1 DEF CrashInv, Planned, StartShape, ExitShape, WatchShape, At, Handled
<1>4. OneLive' /\ Owned' /\ Recorded' /\ Unused'
  BY <1>1 DEF CrashInv, OneLive, Lives, Owned, Unmarked, NoMarker, Recorded, Unused
<1>5. ExitKnows' /\ WatchKnows'
  BY <1>1 DEF CrashInv, ExitKnows, WatchKnows, Handled, At, Lives
<1> QED
  BY <1>2, <1>3, <1>4, <1>5 DEF CrashInv

LEMMA CrashStep ==
    ASSUME InTurn, CrashInv, [Next]_vars
    PROVE  CrashInv'
<1>1. CASE UNCHANGED vars
  BY <1>1, CrashStutters
<1>2. CASE Reboot
  BY <1>2, RebootKeeps
<1>3. ASSUME NEW s \in Sessions,
             Launch(s) \/ Quit(s) \/ Abort(s) \/ Close(s) \/ Crash(s)
             \/ WatchKilled(s) \/ HelperActs(s) \/ HelperEnds(s)
      PROVE  CrashInv'
  BY <1>3, LaunchKeeps, LeaveKeeps, CrashKeeps, WatchKilledKeeps, HelperActsKeeps,
     HelperEndsKeeps
<1>4. ASSUME NEW s \in Sessions, DashActs(s)
      PROVE  CrashInv'
  BY <1>4, DashScansKeeps, DashSweepsKeeps, DashSweepFailsKeeps, DashMarksKeeps,
     DashSpawnsWatchdogKeeps, DashLaunchesHelperKeeps, DashRecordsHelperKeeps,
     DashStopsHelperKeeps, AtExitKeeps, DashVerifiesKeeps, DashRestoresKeeps,
     DashClearsKeeps DEF DashActs
<1>5. ASSUME NEW s \in Sessions, WatchActs(s)
      PROVE  CrashInv'
  BY <1>5, WatchChecksKeeps, WatchKillsHelperKeeps, WatchScansKeeps, WatchSweepsKeeps,
     WatchSweepFailsKeeps, WatchRetiresKeeps DEF WatchActs
<1> QED
  BY <1>1, <1>2, <1>3, <1>4, <1>5 DEF Next

\* The inductive invariant: who is at work, whose the marker is, and what each
\* has done so far, whatever is killed or fails in between.
THEOREM CrashInvariance ==
    ASSUME InTurn
    PROVE  Spec => []CrashInv
<1>1. Init => CrashInv
  BY CrashInit
<1>2. CrashInv /\ [Next]_vars => CrashInv'
  BY CrashStep
<1> QED
  BY <1>1, <1>2, PTL DEF Spec

\* Every variable stays in its set, for any sessions and any number of faults.
THEOREM CrashTypes ==
    ASSUME InTurn
    PROVE  Spec => []TypeOK
<1>1. CrashInv => TypeOK
  BY DEF CrashInv, Typed
<1> QED
  BY <1>1, CrashInvariance, PTL

\* One step that retires a marker leaves nothing of its session but what the
\* one who retires it has no verdict on.
LEMMA RetiringStep ==
    ASSUME CrashInv, [Next]_vars, NEW s \in Sessions,
           marker.owner = s, marker' = NoMarker
    PROVE  left'[s] \subseteq IF watch[s] = "watching" /\ watch'[s] = "gone"
                              THEN Kinds \ HeardByWatchdog
                              ELSE {"guard"}
<1>1. marker # NoMarker /\ marker'.owner = None /\ None \notin Sessions
  BY CrashAssumption DEF NoMarker
<1>2. marker' # marker
  BY <1>1
<1>3. ASSUME NEW t \in Sessions, DashClears(t)
      PROVE  watch' = watch /\ watch[s] = watch'[s] /\ left'[s] \subseteq {"guard"}
  <2>1. Doing(t, "clear") /\ sound[t] /\ UNCHANGED <<watchers, left>>
    BY <1>2, <1>3 DEF DashClears
  <2> QED
    BY <2>1, ClearingKnows DEF watchers
<1>4. ASSUME NEW t \in Sessions, WatchRetires(t)
      PROVE  /\ watch[s] = "watching" /\ watch'[s] = "gone"
             /\ left'[s] \subseteq Kinds \ HeardByWatchdog
  <2>1. Watching(t, "retire") /\ WatchGone(t) /\ wsound[t] /\ left' = left
    BY <1>2, <1>4 DEF WatchRetires
  <2>2. t = s
    BY <2>1, RetiringKnows
  <2>3. watch'[s] = "gone"
    BY <2>1, <2>2 DEF WatchGone, CrashInv, Typed, TypeOK
  <2> QED
    BY <2>1, <2>2, <2>3, RetiringKnows
<1>5. ASSUME NEW t \in Sessions, DashRecordsHelper(t)
      PROVE  FALSE
  <2>1. marker \in [owner : Sessions \cup {None}, helper : Sessions \cup {None}]
    BY DEF CrashInv, Typed, TypeOK
  <2>2. marker' = [marker EXCEPT !.helper = t]
    BY <1>1, <1>5 DEF DashRecordsHelper
  <2>3. marker'.owner = marker.owner
    BY <2>1, <2>2
  <2> QED
    BY <1>1, <2>3
<1>6. ASSUME NEW t \in Sessions, DashMarks(t)
      PROVE  FALSE
  BY <1>1, <1>6 DEF DashMarks
<1>7. CASE Next
  <2>1. ~Reboot
    BY <1>2 DEF Reboot
  <2>2. ASSUME NEW t \in Sessions,
               Launch(t) \/ Quit(t) \/ Abort(t) \/ Close(t) \/ Crash(t)
               \/ WatchKilled(t) \/ HelperActs(t) \/ HelperEnds(t)
        PROVE  FALSE
    BY <1>2, <2>2 DEF Launch, Quit, Abort, Close, Leave, Crash, WatchKilled,
       HelperActs, HelperEnds
  <2>3. ASSUME NEW t \in Sessions,
               DashScans(t) \/ DashSweeps(t) \/ DashSweepFails(t)
               \/ DashSpawnsWatchdog(t) \/ DashLaunchesHelper(t) \/ DashStopsHelper(t)
               \/ AtExit(t) \/ DashVerifies(t) \/ DashRestores(t)
        PROVE  FALSE
    BY <1>2, <2>3 DEF DashScans, DashSweeps, DashSweepFails, DashSpawnsWatchdog,
       DashLaunchesHelper, DashStopsHelper, AtExit, DashVerifies, DashRestores
  <2>4. ASSUME NEW t \in Sessions,
               WatchChecks(t) \/ WatchKillsHelper(t) \/ WatchScans(t)
               \/ WatchSweeps(t) \/ WatchSweepFails(t)
        PROVE  FALSE
    BY <1>2, <2>4 DEF WatchChecks, WatchKillsHelper, WatchScans, WatchSweeps,
       WatchSweepFails
  <2>5. \E t \in Sessions : DashClears(t) \/ WatchRetires(t)
                            \/ DashRecordsHelper(t) \/ DashMarks(t)
    <3>1. PICK t \in Sessions : DashActs(t) \/ WatchActs(t)
      BY <1>7, <1>2, <2>1, <2>2 DEF Next
    <3>2. CASE DashActs(t)
      BY <2>3, <3>2 DEF DashActs
    <3>3. CASE WatchActs(t)
      BY <2>4, <3>3 DEF WatchActs
    <3> QED
      BY <3>1, <3>2, <3>3
  <2>6. CASE \E t \in Sessions : DashClears(t)
    <3>1. watch[s] = watch'[s] /\ left'[s] \subseteq {"guard"}
      BY <1>3, <2>6
    <3> QED
      BY <3>1
  <2>7. CASE \E t \in Sessions : WatchRetires(t)
    BY <1>4, <2>7
  <2> QED
    BY <1>5, <1>6, <2>5, <2>6, <2>7
<1>8. CASE UNCHANGED vars
  BY <1>2, <1>8 DEF vars
<1> QED
  BY <1>7, <1>8

\* Whoever retires the marker of a session leaves nothing of that session but
\* what its sweeps have no verdict on (clear_marker, startup_recovery.py).
THEOREM MarkerRetiredClean ==
    ASSUME InTurn
    PROVE  Spec => RetiredOnlyWhenClean
<1>1. CrashInv /\ [Next]_vars =>
        [\A s \in Sessions : marker.owner = s /\ marker' = NoMarker =>
           left'[s] \subseteq IF watch[s] = "watching" /\ watch'[s] = "gone"
                              THEN Kinds \ HeardByWatchdog
                              ELSE {"guard"}]_vars
  BY RetiringStep
<1> QED
  BY <1>1, CrashInvariance, PTL DEF Spec, RetiredOnlyWhenClean

\* One step spares a session that is up.
LEMMA SparingStep ==
    ASSUME CrashInv, [Next]_vars, NEW s \in Sessions, dash[s] = "up", dash'[s] = "up"
    PROVE  left[s] \subseteq left'[s] \/ helper'[s] # helper[s]
<1>1. Lives(s) /\ todo[s] = <<>>
  BY DEF Lives, CrashInv, Planned
<1>2. left \in [Sessions -> SUBSET Kinds] /\ helper \in [Sessions -> {"none", "alive", "dead"}]
  BY DEF CrashInv, Typed, TypeOK
<1>3. ASSUME NEW t \in Sessions, NEW task, Doing(t, task)
      PROVE  FALSE
  BY <1>1, <1>3, OthersAreOver DEF Doing
<1>4. ASSUME NEW t \in Sessions, DashActs(t)
      PROVE  FALSE
  BY <1>3, <1>4 DEF DashActs, DashScans, DashSweeps, DashSweepFails, DashMarks,
     DashSpawnsWatchdog, DashLaunchesHelper, DashRecordsHelper, DashStopsHelper,
     AtExit, DashVerifies, DashRestores, DashClears
<1>5. ASSUME NEW t \in Sessions, WatchSweeps(t)
      PROVE  FALSE
  <2>1. PICK k \in Kinds : Watching(t, k) /\ WatchDone(t)
    BY <1>5 DEF WatchSweeps
  <2> QED
    BY <1>1, <2>1, SweepingIs
<1>6. ASSUME NEW t \in Sessions, HelperActs(t)
      PROVE  left[s] \subseteq left'[s]
  <2>1. PICK x : left' = [left EXCEPT ![t] = @ \cup {x}]
    BY <1>6 DEF HelperActs
  <2> QED
    BY <1>2, <2>1
<1>7. ASSUME NEW t \in Sessions, HelperEnds(t)
      PROVE  left[s] \subseteq left'[s] \/ helper'[s] # helper[s]
  <2>1. /\ helper[t] = "alive" /\ helper' = [helper EXCEPT ![t] = "dead"]
        /\ \E rest : left' = [left EXCEPT ![t] = rest]
    BY <1>7 DEF HelperEnds
  <2>2. t = s => helper'[s] # helper[s]
    BY <1>2, <2>1
  <2>3. t # s => left'[s] = left[s]
    BY <1>2, <2>1
  <2> QED
    BY <2>2, <2>3
<1>8. ASSUME NEW t \in Sessions,
             Launch(t) \/ Quit(t) \/ Abort(t) \/ Close(t) \/ Crash(t) \/ WatchKilled(t)
      PROVE  left' = left
  BY <1>8 DEF Launch, Quit, Abort, Close, Leave, Crash, WatchKilled
<1>9. ASSUME NEW t \in Sessions,
             WatchChecks(t) \/ WatchKillsHelper(t) \/ WatchScans(t)
             \/ WatchSweepFails(t) \/ WatchRetires(t)
      PROVE  left' = left
  BY <1>9 DEF WatchChecks, WatchKillsHelper, WatchScans, WatchSweepFails, WatchRetires
<1>10. CASE Reboot
  BY <1>10 DEF Reboot
<1>11. CASE UNCHANGED vars
  BY <1>11 DEF vars
<1> QED
  BY <1>4, <1>5, <1>6, <1>7, <1>8, <1>9, <1>10, <1>11 DEF Next, WatchActs

\* Nothing is swept from under a session that is up, by a late watchdog of the
\* session before it above all (run, cleanup_watchdog.py).
THEOREM LiveSessionSpared ==
    ASSUME InTurn
    PROVE  Spec => LiveSessionUntouched
<1>1. CrashInv /\ [Next]_vars =>
        [\A s \in Sessions : dash[s] = "up" /\ dash'[s] = "up" =>
           left[s] \subseteq left'[s] \/ helper'[s] # helper[s]]_vars
  BY SparingStep
<1> QED
  BY <1>1, CrashInvariance, PTL DEF Spec, LiveSessionUntouched
=============================================================================
