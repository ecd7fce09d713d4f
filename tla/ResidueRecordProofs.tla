------------------------ MODULE ResidueRecordProofs ------------------------
(***************************************************************************)
(* Theorems about the record of what outlives the tunnel, for any          *)
(* resolvers and any number of kills and of refused removals: the record   *)
(* never forgets a template that is registered, and never a metric that is *)
(* lowered, wherever the process that made the change is killed.           *)
(***************************************************************************)
EXTENDS ResidueRecord, SequenceTheorems, TLAPS

\* One operation at a time: nothing of them holds by itself if a second thread
\* writes the file between another's read and its write.
InTurn == ~Overlap

\* Putting the metric back works, and a dashboard lowers it once: it does not
\* note again what it has saved, although a sweep has dropped the note since.
Dependable == ~SetFails /\ MaxLive <= 1

Merges   == {"keep", "drop", "save", "forget"}
Final    == {"set", "save", "forget", "end"}
Follow   ==
    [ see |-> {"keep"}, keep |-> {"set"}, set |-> {}, unset |-> {"drop"},
      drop |-> {"see", "find"}, find |-> {"remove"}, remove |-> {"forget"},
      forget |-> {"end"}, kill |-> {"recall"}, recall |-> {"reset"},
      reset |-> {"drop"}, register |-> {"note"}, note |-> {"save"},
      save |-> {}, end |-> {} ]

StepsOf(t) ==
    CASE t = "main" -> Steps \ {"kill", "recall", "reset"}
      [] t \in {"geo", "live"} -> {"see", "keep", "set"}
      [] OTHER -> {"kill", "recall", "reset", "drop", "find", "remove",
                   "forget", "end"}

\* What is left of one of the programs: each step is followed as in the code,
\* and the last is one that may be last.
Planned(s) ==
    /\ s \in Seq(Steps)
    /\ \A i \in 1..Len(s) : IF i < Len(s) THEN s[i + 1] \in Follow[s[i]]
                                          ELSE s[i] \in Final

JobsPlanned == \A t \in Threads : Planned(job[t]) /\ job[t] \in Seq(StepsOf(t))

Busy(t)       == job[t] # <<>>
HelperThreads == {"main", "geo"}
Sweepers      == {"ui", "watch"}

\* Only the processes that run have something to do, the watchdog only when
\* there is no dashboard.
Placed ==
    /\ \A t \in Threads : Busy(t) => Proc(t) \in up \/ t = "watch"
    /\ "dash" \in up => ~Busy("watch")
    /\ "watch" \notin up
    /\ \A p \in Procs : saved[p] => p \in up

\* Two threads have something to do only while a sweep waits to end the helper.
Exclusive ==
    \A s, t \in Threads : s # t /\ Busy(s) /\ Busy(t) =>
        \/ s \in Sweepers /\ Doing(s, "kill") /\ t \in HelperThreads
        \/ t \in Sweepers /\ Doing(t, "kill") /\ s \in HelperThreads

\* A sweep that goes on has ended the helper.
SweepsAlone ==
    \A t \in Sweepers : Busy(t) /\ ~Doing(t, "kill") => "helper" \notin up

Records == [metric : BOOLEAN, doh : SUBSET Resolvers, owner : Procs \cup {None}]

\* What a thread has read is still what the file says.
CopiesFresh ==
    /\ copy \in [Threads -> Records \cup {None}]
    /\ \A t \in Threads : copy[t] # None =>
        /\ \E step \in Merges : Doing(t, step)
        /\ copy[t].metric = file.metric /\ copy[t].doh = file.doh

Turns == JobsPlanned /\ Placed /\ Exclusive /\ SweepsAlone

TurnInv == TypeOK /\ Turns /\ CopiesFresh

\* What the steps about templates have established by the time they are taken.
TemplatesReady ==
    \A t \in Threads :
        /\ Doing(t, "save") => file.doh \subseteq arg[t]
        /\ Doing(t, "remove") => arg[t] = file.doh
        /\ Doing(t, "forget") => file.doh \cap templates = {}

\* ... and those about the metric.
MetricReady ==
    /\ \A t \in Threads : Doing(t, "set") => file.metric
    /\ \A t \in Threads :
         Doing(t, "drop") => metric = "user" /\ (t = "main" => ~saved["helper"])
    /\ saved["helper"] =>
         file.metric \/ \E t \in HelperThreads : Doing(t, "keep")
    /\ Doing("live", "see") => ~saved["dash"] /\ live > 0
    /\ saved["dash"] => live > 0
    /\ metric = "low" => file.metric

-----------------------------------------------------------------------------
(* What is left of a job when some of its steps are over. *)

LEMMA Suffix ==
    ASSUME NEW S, NEW s \in Seq(S), NEW n \in Nat, n < Len(s)
    PROVE  /\ SubSeq(s, n + 2, Len(s)) \in Seq(S)
           /\ Len(SubSeq(s, n + 2, Len(s))) = Len(s) - n - 1
           /\ \A i \in 1..(Len(s) - n - 1) :
                SubSeq(s, n + 2, Len(s))[i] = s[n + 1 + i]
<1>1. Len(s) \in Nat
    OBVIOUS
<1>2. n + 2 \in 1..(Len(s) + 1) /\ Len(s) \in (n + 2 - 1)..Len(s)
    BY <1>1
<1> QED
    BY <1>1, <1>2, SubSeqProperties

\* What is left of a planned job is planned.
LEMMA SuffixPlanned ==
    ASSUME NEW s, Planned(s), NEW n \in Nat, n < Len(s)
    PROVE  Planned(SubSeq(s, n + 2, Len(s)))
<1> DEFINE u == SubSeq(s, n + 2, Len(s))
<1>1. s \in Seq(Steps) /\ Len(s) \in Nat
    BY DEF Planned
<1>2. u \in Seq(Steps) /\ Len(u) = Len(s) - n - 1
      /\ \A i \in 1..(Len(s) - n - 1) : u[i] = s[n + 1 + i]
    BY <1>1, Suffix
<1>3. ASSUME NEW i \in 1..Len(u)
      PROVE  IF i < Len(u) THEN u[i + 1] \in Follow[u[i]] ELSE u[i] \in Final
  <2>1. n + 1 + i \in 1..Len(s) /\ u[i] = s[n + 1 + i]
    BY <1>1, <1>2
  <2>2. i < Len(u) => n + 1 + i < Len(s) /\ u[i + 1] = s[(n + 1 + i) + 1]
    BY <1>1, <1>2
  <2>3. i >= Len(u) => ~(n + 1 + i < Len(s))
    BY <1>1, <1>2
  <2>4. IF n + 1 + i < Len(s) THEN s[(n + 1 + i) + 1] \in Follow[s[n + 1 + i]]
                              ELSE s[n + 1 + i] \in Final
    BY <2>1 DEF Planned
  <2> QED
    BY <1>1, <1>2, <2>1, <2>2, <2>3, <2>4
<1> QED
    BY <1>2, <1>3 DEF Planned

\* What comes next after a step, and after one that makes the next, or the
\* next two, unnecessary.
After(x, n) ==
    IF n = 0 THEN Follow[x]
    ELSE IF n = 1 THEN UNION {Follow[y] : y \in Follow[x]}
    ELSE UNION {Follow[z] : z \in UNION {Follow[y] : y \in Follow[x]}}

Skippable(x, n) ==
    n = 0 \/ (n = 1 /\ x \notin Final) \/ (n = 2 /\ x \in {"see", "recall", "find"})

LEMMA SuffixHead ==
    ASSUME NEW s, Planned(s), s # <<>>, NEW n \in 0..2, Skippable(Head(s), n)
    PROVE  /\ n < Len(s)
           /\ SubSeq(s, n + 2, Len(s)) # <<>> =>
                Head(SubSeq(s, n + 2, Len(s))) \in After(Head(s), n)
           /\ n = 0 /\ Head(s) \notin Final => SubSeq(s, n + 2, Len(s)) # <<>>
<1> DEFINE u == SubSeq(s, n + 2, Len(s))
<1>1. /\ s \in Seq(Steps) /\ Len(s) \in Nat /\ Len(s) > 0 /\ Head(s) = s[1]
      /\ \A i \in 1..Len(s) : IF i < Len(s) THEN s[i + 1] \in Follow[s[i]]
                                            ELSE s[i] \in Final
    BY DEF Planned
<1>2. Len(s) > 1 => s[2] \in Follow[s[1]]
  <2>1. Len(s) > 1 => 1 \in 1..Len(s) /\ 1 + 1 = 2
    BY <1>1
  <2> QED
    BY <1>1, <2>1
<1>3. Len(s) > 2 => s[3] \in Follow[s[2]]
  <2>1. Len(s) > 2 => 2 \in 1..Len(s) /\ 2 + 1 = 3
    BY <1>1
  <2> QED
    BY <1>1, <2>1
<1>4. Len(s) > 3 => s[4] \in Follow[s[3]]
  <2>1. Len(s) > 3 => 3 \in 1..Len(s) /\ 3 + 1 = 4
    BY <1>1
  <2> QED
    BY <1>1, <2>1
<1>5. s[1] \notin Final => Len(s) > 1
  <2>1. Len(s) = 1 => 1 \in 1..Len(s) /\ ~(1 < Len(s))
    BY <1>1
  <2> QED
    BY <1>1, <2>1
<1>6. n = 2 => Len(s) > 2
  <2>1. CASE n = 2
    <3>1. s[1] \in {"see", "recall", "find"} /\ Len(s) > 1
      BY <1>1, <1>5, <2>1 DEF Skippable, Final
    <3>2. s[2] \notin Final
      BY <1>2, <3>1 DEF Follow, Final
    <3>3. Len(s) = 2 => 2 \in 1..Len(s) /\ ~(2 < Len(s))
      BY <1>1
    <3> QED
      BY <1>1, <3>1, <3>2, <3>3
  <2> QED
    BY <2>1
<1>7. n < Len(s)
    BY <1>1, <1>5, <1>6 DEF Skippable
<1>8. ASSUME u # <<>> PROVE Head(u) = s[n + 2] /\ n + 2 <= Len(s)
  <2>1. u \in Seq(Steps) /\ Len(u) = Len(s) - n - 1
        /\ \A i \in 1..(Len(s) - n - 1) : u[i] = s[n + 1 + i]
    BY <1>1, <1>7, Suffix
  <2>2. Len(u) > 0 /\ Head(u) = u[1]
    BY <1>8, <2>1
  <2>3. 1 \in 1..(Len(s) - n - 1) /\ n + 1 + 1 = n + 2
    BY <1>1, <2>1, <2>2
  <2> QED
    BY <1>1, <2>1, <2>2, <2>3
<1>9. n = 0 /\ Head(s) \notin Final => u # <<>>
  <2>1. Len(u) = Len(s) - n - 1
    BY <1>1, <1>7, Suffix
  <2> QED
    BY <1>1, <1>5, <2>1
<1> HIDE DEF u
<1>10. ASSUME u # <<>> PROVE Head(u) \in After(Head(s), n)
  <2>1. CASE n = 0
    BY <1>1, <1>2, <1>8, <1>10, <2>1 DEF After
  <2>2. CASE n = 1
    BY <1>1, <1>2, <1>3, <1>8, <1>10, <2>2 DEF After
  <2>3. CASE n = 2
    <3>1. Len(s) > 3 /\ Head(u) = s[4]
      BY <1>1, <1>8, <1>10, <2>3
    <3>2. s[2] \in Follow[s[1]] /\ s[3] \in Follow[s[2]] /\ s[4] \in Follow[s[3]]
      BY <1>1, <1>2, <1>3, <1>4, <3>1
    <3>3. s[3] \in UNION {Follow[y] : y \in Follow[s[1]]}
      BY <3>2
    <3>4. Head(u) \in UNION {Follow[z] : z \in UNION {Follow[y] : y \in Follow[s[1]]}}
      BY <3>1, <3>2, <3>3
    <3> QED
      BY <1>1, <2>3, <3>4 DEF After
  <2> QED
    BY <2>1, <2>2, <2>3
<1> QED
    BY <1>7, <1>9, <1>10 DEF u

\* The beginning of a program, and two pieces of one put together.
Linked(s) ==
    /\ s \in Seq(Steps) /\ s # <<>>
    /\ \A i \in 1..Len(s) : i < Len(s) => s[i + 1] \in Follow[s[i]]

LEMMA Joined ==
    ASSUME NEW s, Linked(s), NEW t, Linked(t), t[1] \in Follow[s[Len(s)]]
    PROVE  /\ Linked(s \o t)
           /\ (s \o t)[1] = s[1] /\ (s \o t)[Len(s \o t)] = t[Len(t)]
<1> DEFINE u == s \o t
<1>1. /\ s \in Seq(Steps) /\ t \in Seq(Steps)
      /\ Len(s) \in Nat /\ Len(t) \in Nat /\ Len(s) > 0 /\ Len(t) > 0
    BY DEF Linked
<1>2. /\ u \in Seq(Steps) /\ Len(u) = Len(s) + Len(t)
      /\ \A i \in 1..Len(s) : u[i] = s[i]
      /\ \A i \in 1..Len(t) : u[Len(s) + i] = t[i]
  <2>1. \A i \in 1..Len(u) : u[i] = IF i <= Len(s) THEN s[i] ELSE t[i - Len(s)]
    BY <1>1, ConcatProperties
  <2>2. u \in Seq(Steps) /\ Len(u) = Len(s) + Len(t)
    BY <1>1, ConcatProperties
  <2>3. \A i \in 1..Len(s) : i \in 1..Len(u) /\ i <= Len(s)
    BY <1>1, <2>2
  <2>4. \A i \in 1..Len(t) : /\ Len(s) + i \in 1..Len(u) /\ ~(Len(s) + i <= Len(s))
                             /\ (Len(s) + i) - Len(s) = i
    BY <1>1, <2>2
  <2> QED
    BY <2>1, <2>2, <2>3, <2>4
<1> HIDE DEF u
<1>3. u[1] = s[1] /\ u[Len(u)] = t[Len(t)]
    BY <1>1, <1>2
<1>4. ASSUME NEW i \in 1..Len(u), i < Len(u) PROVE u[i + 1] \in Follow[u[i]]
  <2>1. CASE i < Len(s)
    <3>1. i \in 1..Len(s) /\ i + 1 \in 1..Len(s)
      BY <1>1, <2>1
    <3> QED
      BY <1>2, <2>1, <3>1 DEF Linked
  <2>2. CASE i = Len(s)
    BY <1>1, <1>2, <2>2
  <2>3. CASE i > Len(s)
    <3>1. PICK j \in 1..Len(t) : i = Len(s) + j /\ j < Len(t)
      <4>1. i - Len(s) \in 1..Len(t) /\ i = Len(s) + (i - Len(s)) /\ i - Len(s) < Len(t)
        BY <1>1, <1>2, <1>4, <2>3
      <4> QED
        BY <4>1
    <3>2. j + 1 \in 1..Len(t) /\ i + 1 = Len(s) + (j + 1)
      BY <1>1, <3>1
    <3> QED
      BY <1>2, <3>1, <3>2 DEF Linked
  <2> QED
    BY <1>1, <1>2, <1>4, <2>1, <2>2, <2>3
<1>5. Linked(u)
    BY <1>1, <1>2, <1>4 DEF Linked
<1> QED
    BY <1>3, <1>5 DEF u

LEMMA LinkedIsPlanned ==
    ASSUME NEW s, Linked(s), s[Len(s)] \in Final
    PROVE  Planned(s) /\ s # <<>> /\ Head(s) = s[1]
<1>1. s \in Seq(Steps) /\ Len(s) \in Nat /\ Len(s) > 0
    BY DEF Linked
<1>2. \A i \in 1..Len(s) : i < Len(s) \/ i = Len(s)
    BY <1>1
<1> QED
    BY <1>1, <1>2 DEF Linked, Planned

\* The pieces of the programs.
LEMMA PiecesLinked ==
    /\ Linked(Lowers) /\ Lowers[1] = "see" /\ Lowers[Len(Lowers)] = "set"
    /\ Linked(Unlowers) /\ Unlowers[1] = "unset" /\ Unlowers[Len(Unlowers)] = "drop"
    /\ Linked(Recalls) /\ Recalls[1] = "recall" /\ Recalls[Len(Recalls)] = "drop"
    /\ Linked(Enables) /\ Enables[1] = "register" /\ Enables[Len(Enables)] = "save"
    /\ Linked(Disables) /\ Disables[1] = "find" /\ Disables[Len(Disables)] = "forget"
    /\ Linked(<<"kill">>) /\ <<"kill">>[1] = "kill"
    /\ Linked(<<"end">>) /\ <<"end">>[1] = "end"
    /\ Len(<<"kill">>) = 1 /\ Len(<<"end">>) = 1
<1>1. Linked(Lowers) /\ Lowers[1] = "see" /\ Lowers[Len(Lowers)] = "set"
    BY DEF Linked, Lowers, Follow, Steps
<1>2. Linked(Unlowers) /\ Unlowers[1] = "unset" /\ Unlowers[Len(Unlowers)] = "drop"
    BY DEF Linked, Unlowers, Follow, Steps
<1>3. Linked(Recalls) /\ Recalls[1] = "recall" /\ Recalls[Len(Recalls)] = "drop"
    BY DEF Linked, Recalls, Follow, Steps
<1>4. Linked(Enables) /\ Enables[1] = "register" /\ Enables[Len(Enables)] = "save"
    BY DEF Linked, Enables, Follow, Steps
<1>5. Linked(Disables) /\ Disables[1] = "find" /\ Disables[Len(Disables)] = "forget"
    BY DEF Linked, Disables, Follow, Steps
<1>6. Linked(<<"kill">>) /\ <<"kill">>[1] = "kill" /\ Len(<<"kill">>) = 1
    BY DEF Linked, Follow, Steps
<1>7. Linked(<<"end">>) /\ <<"end">>[1] = "end" /\ Len(<<"end">>) = 1
    BY DEF Linked, Follow, Steps
<1> QED
    BY <1>1, <1>2, <1>3, <1>4, <1>5, <1>6, <1>7

\* The programs the threads are given are planned.
LEMMA ProgramsPlanned ==
    /\ Planned(Lowers) /\ Lowers # <<>> /\ Head(Lowers) = "see"
    /\ Planned(Enables) /\ Enables # <<>> /\ Head(Enables) = "register"
    /\ Planned(Unlowers \o Lowers) /\ Unlowers \o Lowers # <<>>
    /\ Head(Unlowers \o Lowers) = "unset"
    /\ Planned(Cleanup) /\ Cleanup # <<>> /\ Head(Cleanup) = "unset"
    /\ Planned(Sweep) /\ Sweep # <<>> /\ Head(Sweep) = "kill"
    /\ Planned(Sweep \o <<"end">>) /\ Sweep \o <<"end">> # <<>>
    /\ Head(Sweep \o <<"end">>) = "kill"
<1> USE PiecesLinked
<1> HIDE DEF Linked, Planned
<1>1. {"set", "save", "forget", "end"} \subseteq Final
    BY DEF Final
<1>2. /\ "see" \in Follow["drop"] /\ "find" \in Follow["drop"]
      /\ "end" \in Follow["forget"] /\ "recall" \in Follow["kill"]
    BY DEF Follow
<1>3. Planned(Lowers) /\ Lowers # <<>> /\ Head(Lowers) = "see"
    BY <1>1, LinkedIsPlanned
<1>4. Planned(Enables) /\ Enables # <<>> /\ Head(Enables) = "register"
    BY <1>1, LinkedIsPlanned
<1>5. Planned(Unlowers \o Lowers) /\ Unlowers \o Lowers # <<>>
      /\ Head(Unlowers \o Lowers) = "unset"
  <2>1. Linked(Unlowers \o Lowers) /\ (Unlowers \o Lowers)[1] = "unset"
        /\ (Unlowers \o Lowers)[Len(Unlowers \o Lowers)] = "set"
    <3> DEFINE s == Unlowers
               t == Lowers
    <3>1. Linked(s) /\ Linked(t) /\ t[1] \in Follow[s[Len(s)]]
          /\ s[1] = "unset" /\ t[Len(t)] = "set"
      BY <1>2
    <3> HIDE DEF s, t
    <3>2. Linked(s \o t) /\ (s \o t)[1] = "unset" /\ (s \o t)[Len(s \o t)] = "set"
      BY <3>1, Joined
    <3> QED
      BY <3>2 DEF s, t
  <2> QED
    BY <1>1, <2>1, LinkedIsPlanned
<1>6. Linked(Unlowers \o Disables) /\ (Unlowers \o Disables)[1] = "unset"
      /\ (Unlowers \o Disables)[Len(Unlowers \o Disables)] = "forget"
  <2> DEFINE s == Unlowers
             t == Disables
  <2>1. Linked(s) /\ Linked(t) /\ t[1] \in Follow[s[Len(s)]]
        /\ s[1] = "unset" /\ t[Len(t)] = "forget"
    BY <1>2
  <2> HIDE DEF s, t
  <2>2. Linked(s \o t) /\ (s \o t)[1] = "unset" /\ (s \o t)[Len(s \o t)] = "forget"
    BY <2>1, Joined
  <2> QED
    BY <2>2 DEF s, t
<1>7. Planned(Cleanup) /\ Cleanup # <<>> /\ Head(Cleanup) = "unset"
  <2>1. Linked(Cleanup) /\ Cleanup[1] = "unset" /\ Cleanup[Len(Cleanup)] = "end"
    <3>1. Cleanup = (Unlowers \o Disables) \o <<"end">>
      BY DEF Cleanup
    <3>2. <<"end">>[1] \in Follow[(Unlowers \o Disables)[Len(Unlowers \o Disables)]]
      BY <1>2, <1>6
    <3> DEFINE s == Unlowers \o Disables
               t == <<"end">>
    <3>3. Linked(s) /\ Linked(t) /\ t[1] \in Follow[s[Len(s)]]
          /\ s[1] = "unset" /\ t[Len(t)] = "end" /\ Cleanup = s \o t
      BY <1>6, <3>1, <3>2
    <3> HIDE DEF s, t
    <3> QED
      BY <3>3, Joined
  <2> QED
    BY <1>1, <2>1, LinkedIsPlanned
<1>8. Linked(<<"kill">> \o Recalls) /\ (<<"kill">> \o Recalls)[1] = "kill"
      /\ (<<"kill">> \o Recalls)[Len(<<"kill">> \o Recalls)] = "drop"
  <2> DEFINE s == <<"kill">>
             t == Recalls
  <2>1. Linked(s) /\ Linked(t) /\ t[1] \in Follow[s[Len(s)]]
        /\ s[1] = "kill" /\ t[Len(t)] = "drop"
    BY <1>2
  <2> HIDE DEF s, t
  <2>2. Linked(s \o t) /\ (s \o t)[1] = "kill" /\ (s \o t)[Len(s \o t)] = "drop"
    BY <2>1, Joined
  <2> QED
    BY <2>2 DEF s, t
<1>9. Linked(Sweep) /\ Sweep[1] = "kill" /\ Sweep[Len(Sweep)] = "forget"
  <2> DEFINE s == <<"kill">> \o Recalls
             t == Disables
  <2>1. Linked(s) /\ Linked(t) /\ t[1] \in Follow[s[Len(s)]]
        /\ s[1] = "kill" /\ t[Len(t)] = "forget"
    BY <1>2, <1>8
  <2> HIDE DEF s, t
  <2>2. Sweep = s \o t
    BY DEF s, t, Sweep
  <2>3. Linked(s \o t) /\ (s \o t)[1] = "kill" /\ (s \o t)[Len(s \o t)] = "forget"
    BY <2>1, Joined
  <2> QED
    BY <2>2, <2>3
<1>10. Planned(Sweep) /\ Sweep # <<>> /\ Head(Sweep) = "kill"
    BY <1>1, <1>9, LinkedIsPlanned
<1>11. Planned(Sweep \o <<"end">>) /\ Sweep \o <<"end">> # <<>>
       /\ Head(Sweep \o <<"end">>) = "kill"
  <2>1. Linked(Sweep \o <<"end">>) /\ (Sweep \o <<"end">>)[1] = "kill"
        /\ (Sweep \o <<"end">>)[Len(Sweep \o <<"end">>)] = "end"
    <3> DEFINE s == Sweep
               t == <<"end">>
    <3>1. Linked(s) /\ Linked(t) /\ t[1] \in Follow[s[Len(s)]]
          /\ s[1] = "kill" /\ t[Len(t)] = "end"
      BY <1>2, <1>9
    <3> HIDE DEF s, t
    <3>2. Linked(s \o t) /\ (s \o t)[1] = "kill" /\ (s \o t)[Len(s \o t)] = "end"
      BY <3>1, Joined
    <3> QED
      BY <3>2 DEF s, t
  <2> QED
    BY <1>1, <2>1, LinkedIsPlanned
<1> QED
    BY <1>3, <1>4, <1>5, <1>7, <1>10, <1>11

\* ... each of steps that its thread takes.
LEMMA ProgramsFit ==
    /\ Lowers \in Seq(StepsOf("geo")) /\ Lowers \in Seq(StepsOf("live"))
    /\ Enables \in Seq(StepsOf("main")) /\ Unlowers \o Lowers \in Seq(StepsOf("main"))
    /\ Cleanup \in Seq(StepsOf("main"))
    /\ \A t \in Sweepers :
         Sweep \in Seq(StepsOf(t)) /\ Sweep \o <<"end">> \in Seq(StepsOf(t))
<1>1. Lowers \in Seq(StepsOf("geo")) /\ Lowers \in Seq(StepsOf("live"))
    BY DEF Lowers, StepsOf
<1>2. /\ Lowers \in Seq(StepsOf("main")) /\ Enables \in Seq(StepsOf("main"))
      /\ Unlowers \in Seq(StepsOf("main")) /\ Disables \in Seq(StepsOf("main"))
      /\ <<"end">> \in Seq(StepsOf("main"))
    BY DEF Lowers, Enables, Unlowers, Disables, StepsOf, Steps
<1>3. Unlowers \o Lowers \in Seq(StepsOf("main"))
    BY <1>2, ConcatProperties
<1>4. Cleanup \in Seq(StepsOf("main"))
    BY <1>2, ConcatProperties DEF Cleanup
<1>5. ASSUME NEW t \in Sweepers
      PROVE  Sweep \in Seq(StepsOf(t)) /\ Sweep \o <<"end">> \in Seq(StepsOf(t))
  <2>1. /\ <<"kill">> \in Seq(StepsOf(t)) /\ Recalls \in Seq(StepsOf(t))
        /\ Disables \in Seq(StepsOf(t)) /\ <<"end">> \in Seq(StepsOf(t))
    <3>1. {"kill", "recall", "reset", "drop", "find", "remove", "forget", "end"}
            \subseteq StepsOf(t)
      BY DEF Sweepers, StepsOf
    <3> QED
      BY <3>1 DEF Recalls, Disables
  <2> QED
    BY <2>1, ConcatProperties DEF Sweep
<1> QED
    BY <1>1, <1>2, <1>3, <1>4, <1>5

-----------------------------------------------------------------------------
(* The turns the threads take. *)

LEMMA ProcOf ==
    /\ \A t \in HelperThreads : Proc(t) = "helper"
    /\ Proc("ui") = "dash" /\ Proc("live") = "dash" /\ Proc("watch") = "watch"
    /\ Threads = HelperThreads \cup {"ui", "live", "watch"}
    /\ Procs = {"helper", "dash", "watch"}
BY DEF HelperThreads, Proc, Threads, Procs

\* A thread takes the steps of its programs.
LEMMA OwnSteps ==
    ASSUME JobsPlanned, NEW t \in Threads, Busy(t)
    PROVE  /\ Head(job[t]) \in StepsOf(t) /\ Head(job[t]) \in Steps
           /\ job[t] \in Seq(Steps) /\ Planned(job[t])
<1>1. job[t] \in Seq(StepsOf(t)) /\ job[t] \in Seq(Steps) /\ Planned(job[t])
    BY DEF JobsPlanned, Planned
<1> QED
    BY <1>1, HeadTailProperties DEF Busy

\* A step that is over leaves the thread the rest of its program.
LEMMA StepTaken ==
    ASSUME JobsPlanned, job \in [Threads -> Seq(Steps)],
           NEW t \in Threads, NEW x \in Steps, Doing(t, x),
           NEW n \in 0..2, Skippable(x, n), Skips(t, n)
    PROVE  /\ JobsPlanned' /\ job' \in [Threads -> Seq(Steps)]
           /\ \A s \in Threads \ {t} : job'[s] = job[s]
           /\ job'[t] # <<>> => Head(job'[t]) \in After(x, n)
           /\ n = 0 /\ x \notin Final => job'[t] # <<>>
<1>1. /\ Planned(job[t]) /\ job[t] \in Seq(StepsOf(t)) /\ job[t] \in Seq(Steps)
      /\ job[t] # <<>> /\ Head(job[t]) = x
    BY DEF JobsPlanned, Planned, Doing
<1> DEFINE u == SubSeq(job[t], n + 2, Len(job[t]))
<1>2. /\ n < Len(job[t]) /\ (u # <<>> => Head(u) \in After(x, n))
      /\ n = 0 /\ x \notin Final => u # <<>>
    BY <1>1, SuffixHead
<1>3. Planned(u) /\ u \in Seq(StepsOf(t)) /\ u \in Seq(Steps)
    BY <1>1, <1>2, SuffixPlanned, Suffix
<1>4. job' = [job EXCEPT ![t] = u]
    BY DEF Skips
<1> HIDE DEF u
<1>5. job'[t] = u /\ \A s \in Threads \ {t} : job'[s] = job[s]
    BY <1>4
<1>6. job' \in [Threads -> Seq(Steps)]
    BY <1>3, <1>4
<1>7. \A s \in Threads : Planned(job'[s]) /\ job'[s] \in Seq(StepsOf(s))
    BY <1>3, <1>5 DEF JobsPlanned
<1> QED
    BY <1>2, <1>5, <1>6, <1>7 DEF JobsPlanned

\* Who takes a step, other than the end of the helper, takes it alone: at most
\* a sweep waits to end the helper.
LEMMA Alone ==
    ASSUME Turns, NEW t \in Threads, NEW x \in Steps \ {"kill"}, Doing(t, x),
           NEW s \in Threads \ {t}, Busy(s)
    PROVE  s \in Sweepers /\ Doing(s, "kill") /\ t \in HelperThreads
BY DEF Turns, Exclusive, Doing, Busy

LEMMA WorkKeepsTurns ==
    ASSUME Turns, job \in [Threads -> Seq(Steps)],
           NEW t \in Threads, NEW x \in Steps \ {"kill"}, Doing(t, x),
           NEW n \in 0..2, Skippable(x, n), Skips(t, n),
           up' = up, \A p \in Procs : saved'[p] => p \in up
    PROVE  Turns'
<1>1. /\ JobsPlanned' /\ \A s \in Threads \ {t} : job'[s] = job[s]
      /\ job'[t] # <<>> => Head(job'[t]) \in After(x, n)
    BY StepTaken DEF Turns
<1>2. job[t] # <<>> /\ Busy(t)
    BY DEF Doing, Busy
<1>3. \A s \in Threads : Busy(s)' => Busy(s)
    BY <1>1, <1>2 DEF Busy
<1>4. Placed'
    BY <1>3, ProcOf DEF Turns, Placed
<1>5. Exclusive'
  <2>1. ASSUME NEW s \in Threads \ {t}, Busy(s)'
        PROVE  s \in Sweepers /\ Doing(s, "kill")' /\ t \in HelperThreads
    BY <1>1, <1>3, <2>1, Alone DEF Doing, Busy
  <2>2. ASSUME NEW r \in Threads, NEW s \in Threads, r # s, Busy(r)', Busy(s)'
        PROVE  r = t \/ s = t
    <3>1. r \in Sweepers \cap HelperThreads \/ r = t \/ s = t
      BY <1>3, <2>1, <2>2 DEF Turns, Exclusive, Sweepers, HelperThreads
    <3> QED
      BY <3>1 DEF Sweepers, HelperThreads
  <2> QED
    BY <2>1, <2>2 DEF Exclusive
<1>6. SweepsAlone'
  <2> SUFFICES ASSUME NEW s \in Sweepers, Busy(s)', ~Doing(s, "kill")'
               PROVE  "helper" \notin up
    BY DEF SweepsAlone
  <2>1. s \in Threads
    BY DEF Sweepers, Threads
  <2>2. CASE s = t
    BY <1>2, <2>2 DEF Turns, SweepsAlone, Doing
  <2>3. CASE s # t
    BY <1>1, <1>3, <2>1, <2>3 DEF Turns, SweepsAlone, Doing, Busy
  <2> QED
    BY <2>2, <2>3
<1> QED
    BY <1>1, <1>4, <1>5, <1>6 DEF Turns

\* A program that is begun is begun when nobody has anything left to do.
LEMMA BeginKeepsTurns ==
    ASSUME Turns, InTurn, job \in [Threads -> Seq(Steps)],
           NEW t \in Threads \ {"watch"}, NEW program,
           Planned(program), program \in Seq(StepsOf(t)), program # <<>>,
           t \in Sweepers => Head(program) = "kill",
           Begins(t, program), up' = up, saved' = saved
    PROVE  /\ Turns' /\ job' \in [Threads -> Seq(Steps)]
           /\ job'[t] = program /\ \A s \in Threads \ {t} : job'[s] = <<>>
           /\ \A s \in Threads : ~Busy(s)
<1>1. \A s \in Threads : job[s] = <<>>
    BY DEF Begins, InTurn
<1>2. job' = [job EXCEPT ![t] = program] /\ Proc(t) \in up
    BY DEF Begins
<1>3. job'[t] = program /\ \A s \in Threads \ {t} : job'[s] = <<>>
    BY <1>1, <1>2
<1>4. program \in Seq(Steps) /\ job' \in [Threads -> Seq(Steps)]
    BY <1>2 DEF Planned
<1>5. JobsPlanned'
  <2>1. \A s \in Threads : Planned(job'[s]) /\ job'[s] \in Seq(StepsOf(s))
    BY <1>1, <1>3 DEF Turns, JobsPlanned
  <2> QED
    BY <2>1 DEF JobsPlanned
<1>6. Placed'
    BY <1>2, <1>3 DEF Turns, Placed, Busy
<1>7. Exclusive'
    BY <1>3 DEF Exclusive, Busy
<1>8. SweepsAlone'
    BY <1>3 DEF SweepsAlone, Busy, Doing, Sweepers, Threads
<1> QED
    BY <1>1, <1>3, <1>4, <1>5, <1>6, <1>7, <1>8 DEF Turns, Busy

-----------------------------------------------------------------------------
(* The comings and goings of the processes keep the turns. *)

LEMMA NothingLeft == Planned(<<>>) /\ \A S : <<>> \in Seq(S)
BY DEF Planned

\* A thread keeps what it has left, loses it, or is given a sweep.
LEMMA JobsReplaced ==
    ASSUME JobsPlanned,
           \A t \in Threads : \/ job'[t] = job[t] \/ job'[t] = <<>>
                              \/ t \in Sweepers /\ job'[t] = Sweep
    PROVE  JobsPlanned'
<1> SUFFICES ASSUME NEW t \in Threads
             PROVE  Planned(job'[t]) /\ job'[t] \in Seq(StepsOf(t))
    BY DEF JobsPlanned
<1>1. CASE job'[t] = job[t]
    BY <1>1 DEF JobsPlanned
<1>2. CASE job'[t] = <<>>
    BY <1>2, NothingLeft
<1>3. CASE t \in Sweepers /\ job'[t] = Sweep
    BY <1>3, ProgramsPlanned, ProgramsFit
<1> QED
    BY <1>1, <1>2, <1>3

LEMMA DashStartsKeepsTurns ==
    ASSUME Turns, job \in [Threads -> Seq(Steps)], DashStarts
    PROVE  /\ Turns' /\ job' \in [Threads -> Seq(Steps)]
           /\ Doing("ui", "kill")' /\ ~Busy("ui") /\ ~Busy("live")
           /\ \A t \in Threads \ {"ui"} : job'[t] = job[t]
<1>1. /\ "dash" \notin up /\ job["watch"] = <<>>
      /\ up' = (up \ {"watch"}) \cup {"dash"} /\ saved' = saved
      /\ job' = [job EXCEPT !["ui"] = Sweep]
    BY DEF DashStarts
<1>2. /\ "ui" \in Threads /\ "live" \in Threads /\ "watch" \in Threads
      /\ Sweep \in Seq(Steps) /\ Sweep # <<>> /\ Head(Sweep) = "kill"
    BY ProgramsPlanned DEF Threads, Planned
<1>3. job'["ui"] = Sweep /\ \A t \in Threads \ {"ui"} : job'[t] = job[t]
    BY <1>1, <1>2
<1>4. job' \in [Threads -> Seq(Steps)]
    BY <1>1, <1>2
<1>5. JobsPlanned'
    BY <1>3, JobsReplaced DEF Turns, Sweepers
<1>6. ~Busy("ui") /\ ~Busy("live") /\ ~Busy("watch")
    BY <1>1, <1>2, ProcOf DEF Turns, Placed, Busy
<1>7. Doing("ui", "kill")'
    BY <1>2, <1>3 DEF Doing
<1>8. Placed'
  <2>1. \A t \in Threads : Busy(t)' => Proc(t) \in up' \/ t = "watch"
    BY <1>1, <1>3, ProcOf DEF Turns, Placed, Busy, HelperThreads
  <2>2. ~Busy("watch")'
    BY <1>2, <1>3, <1>6 DEF Busy
  <2>3. \A p \in Procs : saved'[p] => p \in up'
    BY <1>1 DEF Turns, Placed
  <2> QED
    BY <1>1, <2>1, <2>2, <2>3 DEF Placed
<1>9. Exclusive'
    BY <1>3, <1>6, <1>7, ProcOf DEF Turns, Exclusive, Busy, Doing, Sweepers, HelperThreads
<1>10. SweepsAlone'
    BY <1>2, <1>3, <1>6, <1>7 DEF SweepsAlone, Busy, Sweepers
<1> QED
    BY <1>3, <1>4, <1>5, <1>6, <1>7, <1>8, <1>9, <1>10 DEF Turns

\* The death of processes takes their threads' work away; what is left in the
\* watchdog's hands is nothing, or a sweep of its own.
LEMMA DeathKeepsTurns ==
    ASSUME Turns, job \in [Threads -> Seq(Steps)], NEW procs \in SUBSET Procs,
           procs \subseteq up, Ends(procs), NEW rest \in {<<>>, Sweep},
           "dash" \in procs,
           job' = [Dropped(procs) EXCEPT !["watch"] = rest]
    PROVE  /\ Turns' /\ job' \in [Threads -> Seq(Steps)]
           /\ \A t \in Threads : Busy(t)' =>
                 \/ t = "watch" /\ Doing(t, "kill")'
                 \/ t \in HelperThreads /\ job'[t] = job[t] /\ "helper" \notin procs
<1>1. up' = up \ procs /\ \A p \in Procs : saved'[p] => saved[p] /\ p \notin procs
    BY DEF Ends
<1>2. /\ job'["watch"] = rest
      /\ \A t \in Threads \ {"watch"} :
           job'[t] = IF Proc(t) \in procs THEN <<>> ELSE job[t]
    BY DEF Dropped, Threads
<1>3. /\ Sweep \in Seq(Steps) /\ Sweep # <<>> /\ Head(Sweep) = "kill"
      /\ rest \in Seq(Steps) /\ <<>> \in Seq(Steps)
    BY ProgramsPlanned, NothingLeft DEF Planned
<1>4. job' \in [Threads -> Seq(Steps)]
    BY <1>3 DEF Dropped, Threads
<1>5. \A t \in Threads : Busy(t)' =>
                 \/ t = "watch" /\ Doing(t, "kill")'
                 \/ t \in HelperThreads /\ job'[t] = job[t] /\ "helper" \notin procs
    BY <1>2, <1>3, ProcOf DEF Busy, Doing
<1>6. JobsPlanned'
    BY <1>2, JobsReplaced DEF Turns, Sweepers
<1>7. Placed'
  <2>1. \A t \in Threads : Busy(t)' => Proc(t) \in up' \/ t = "watch"
    BY <1>1, <1>5, ProcOf DEF Turns, Placed, Busy
  <2> QED
    BY <1>1, <2>1 DEF Turns, Placed
<1>8. Exclusive'
  <2> SUFFICES ASSUME NEW s \in Threads, NEW t \in Threads, s # t, Busy(s)', Busy(t)'
               PROVE  \/ s \in Sweepers /\ Doing(s, "kill")' /\ t \in HelperThreads
                      \/ t \in Sweepers /\ Doing(t, "kill")' /\ s \in HelperThreads
    BY DEF Exclusive
  <2>1. CASE s \in HelperThreads /\ t \in HelperThreads
    BY <1>5, <2>1 DEF Turns, Exclusive, Busy, Sweepers, HelperThreads
  <2> QED
    BY <1>5, <2>1 DEF Sweepers
<1>9. SweepsAlone'
    BY <1>5 DEF SweepsAlone, Sweepers, Threads, HelperThreads, Doing, Busy
<1> QED
    BY <1>4, <1>5, <1>6, <1>7, <1>8, <1>9 DEF Turns

\* The death of the helper alone.
LEMMA HelperDeathKeepsTurns ==
    ASSUME Turns, job \in [Threads -> Seq(Steps)],
           Ends({"helper"}), job' = Dropped({"helper"})
    PROVE  /\ Turns' /\ job' \in [Threads -> Seq(Steps)]
           /\ \A t \in HelperThreads : ~Busy(t)'
           /\ \A t \in Threads \ HelperThreads : job'[t] = job[t]
<1>1. up' = up \ {"helper"} /\ \A p \in Procs : saved'[p] => saved[p] /\ p # "helper"
    BY DEF Ends
<1>2. /\ \A t \in HelperThreads : job'[t] = <<>>
      /\ \A t \in Threads \ HelperThreads : job'[t] = job[t]
    BY ProcOf DEF Dropped
<1>3. job' \in [Threads -> Seq(Steps)]
    BY NothingLeft DEF Dropped
<1>4. JobsPlanned'
    BY <1>2, JobsReplaced DEF Turns
<1>5. \A t \in Threads : Busy(t)' => Busy(t) /\ t \notin HelperThreads /\ job'[t] = job[t]
    BY <1>2 DEF Busy
<1>6. Placed'
    BY <1>1, <1>5, ProcOf DEF Turns, Placed
<1>7. Exclusive'
    BY <1>5 DEF Turns, Exclusive
<1>8. SweepsAlone'
  <2>1. \A t \in Sweepers : t \in Threads /\ t \notin HelperThreads
    BY DEF Sweepers, Threads, HelperThreads
  <2> QED
    BY <1>1, <1>2, <2>1 DEF Turns, SweepsAlone, Doing, Busy
<1> QED
    BY <1>2, <1>3, <1>4, <1>6, <1>7, <1>8 DEF Turns, Busy

\* A sweep ends the helper, and is alone from then on.
LEMMA KillKeepsTurns ==
    ASSUME Turns, job \in [Threads -> Seq(Steps)], NEW t \in Threads, Kills(t)
    PROVE  /\ Turns' /\ job' \in [Threads -> Seq(Steps)]
           /\ t \in Sweepers /\ "helper" \notin up'
           /\ \A s \in Threads \ {t} : ~Busy(s)'
           /\ Busy(t)' => Doing(t, "recall")'
<1>1. Doing(t, "kill") /\ Ends({"helper"})
    BY DEF Kills
<1>2. t \in Sweepers /\ Proc(t) # "helper"
  <2>1. "kill" \in StepsOf(t)
    BY <1>1, OwnSteps DEF Turns, Doing, Busy
  <2> QED
    BY <2>1, ProcOf DEF StepsOf, Sweepers, Threads
<1>3. /\ Planned(job[t]) /\ job[t] \in Seq(Steps) /\ job[t] \in Seq(StepsOf(t))
      /\ job[t] # <<>> /\ Head(job[t]) = "kill"
    BY <1>1 DEF Turns, JobsPlanned, Doing
<1> DEFINE u == SubSeq(job[t], 0 + 2, Len(job[t]))
<1>4. Tail(job[t]) = u
    BY <1>3, TailIsSubSeq
<1>5. /\ Planned(u) /\ u \in Seq(Steps) /\ u \in Seq(StepsOf(t))
      /\ u # <<>> => Head(u) = "recall"
  <2>1. 0 \in 0..2 /\ Skippable("kill", 0) /\ After("kill", 0) = {"recall"}
    BY DEF Skippable, After, Follow
  <2>2. 0 < Len(job[t]) /\ (u # <<>> => Head(u) \in {"recall"})
    BY <1>3, <2>1, SuffixHead
  <2> QED
    BY <1>3, <2>2, SuffixPlanned, Suffix
<1> HIDE DEF u
<1>6. /\ job'[t] = u /\ job' \in [Threads -> Seq(Steps)]
      /\ \A s \in Threads \ {t} :
           job'[s] = IF Proc(s) = "helper" THEN <<>> ELSE job[s]
    BY <1>2, <1>4, <1>5, NothingLeft DEF Kills, Dropped
<1>7. \A s \in Threads \ {t} : ~Busy(s)'
  <2> SUFFICES ASSUME NEW s \in Threads \ {t}, Busy(s)' PROVE FALSE
    OBVIOUS
  <2>1. Busy(s) /\ s \notin HelperThreads /\ Busy(t)
    BY <1>3, <1>6, ProcOf DEF Busy
  <2> QED
    BY <1>2, <2>1 DEF Turns, Exclusive, Sweepers, HelperThreads
<1>8. up' = up \ {"helper"} /\ \A p \in Procs : saved'[p] => saved[p] /\ p # "helper"
    BY <1>1 DEF Ends
<1>9. JobsPlanned'
  <2>1. \A s \in Threads : Planned(job'[s]) /\ job'[s] \in Seq(StepsOf(s))
    BY <1>5, <1>6, NothingLeft DEF Turns, JobsPlanned
  <2> QED
    BY <2>1 DEF JobsPlanned
<1>10. Placed'
  <2>1. Busy(t)' => Proc(t) \in up' \/ t = "watch"
    BY <1>2, <1>3, <1>8 DEF Turns, Placed, Busy
  <2>2. "dash" \in up' => ~Busy("watch")'
    BY <1>3, <1>7, <1>8, ProcOf DEF Turns, Placed, Busy
  <2> QED
    BY <1>7, <1>8, <2>1, <2>2 DEF Turns, Placed
<1>11. Exclusive' /\ SweepsAlone'
    BY <1>7, <1>8 DEF Exclusive, SweepsAlone
<1>12. Busy(t)' => Doing(t, "recall")'
    BY <1>5, <1>6 DEF Busy, Doing
<1> QED
    BY <1>2, <1>6, <1>7, <1>8, <1>9, <1>10, <1>11, <1>12 DEF Turns

\* A helper starts while no sweep is under way.
LEMMA HelperStartKeepsTurns ==
    ASSUME Turns, HelperStarts PROVE Turns'
<1>1. /\ "dash" \in up /\ ~Busy("ui") /\ ~Busy("watch")
      /\ up' = up \cup {"helper"} /\ saved' = saved /\ job' = job
    BY DEF HelperStarts, threads, Busy, Turns, Placed
<1> QED
    BY <1>1 DEF Turns, JobsPlanned, Placed, Exclusive, SweepsAlone, Sweepers,
                Busy, Doing

-----------------------------------------------------------------------------
(* What each step finds and leaves. *)

LEMMA AfterSteps ==
    /\ After("see", 0) = {"keep"} /\ After("see", 1) = {"set"} /\ After("see", 2) = {}
    /\ After("keep", 0) = {"set"} /\ After("set", 0) = {}
    /\ After("unset", 0) = {"drop"} /\ After("unset", 1) = {"see", "find"}
    /\ After("drop", 0) = {"see", "find"}
    /\ After("recall", 0) = {"reset"} /\ After("recall", 2) = {"see", "find"}
    /\ After("reset", 0) = {"drop"}
    /\ After("register", 0) = {"note"} /\ After("note", 0) = {"save"}
    /\ After("note", 1) = {} /\ After("save", 0) = {}
    /\ After("find", 0) = {"remove"} /\ After("find", 2) = {"end"}
    /\ After("remove", 0) = {"forget"} /\ After("remove", 1) = {"end"}
    /\ After("forget", 0) = {"end"}
<1>1. /\ After("see", 0) = {"keep"} /\ After("keep", 0) = {"set"}
      /\ After("set", 0) = {} /\ After("unset", 0) = {"drop"}
      /\ After("drop", 0) = {"see", "find"} /\ After("recall", 0) = {"reset"}
      /\ After("reset", 0) = {"drop"} /\ After("register", 0) = {"note"}
      /\ After("note", 0) = {"save"} /\ After("save", 0) = {}
      /\ After("find", 0) = {"remove"} /\ After("remove", 0) = {"forget"}
      /\ After("forget", 0) = {"end"}
    BY DEF After, Follow
<1>2. /\ After("see", 1) = {"set"} /\ After("unset", 1) = {"see", "find"}
      /\ After("note", 1) = {} /\ After("remove", 1) = {"end"}
    BY DEF After, Follow
<1>3. After("see", 2) = {}
    BY DEF After, Follow
<1>4. After("recall", 2) = {"see", "find"}
    BY DEF After, Follow
<1>5. After("find", 2) = {"end"}
    BY DEF After, Follow
<1> QED
    BY <1>1, <1>2, <1>3, <1>4, <1>5

\* A step that is taken and over: the thread is at one that follows, and nobody
\* else does more than wait to end the helper, before it and after it.
LEMMA Worked ==
    ASSUME TurnInv, NEW t \in Threads, NEW x \in Steps \ {"kill"}, Doing(t, x),
           NEW n \in 0..2, Skippable(x, n), Skips(t, n),
           up' = up, \A p \in Procs : saved'[p] => p \in up
    PROVE  /\ Turns' /\ job' \in [Threads -> Seq(Steps)]
           /\ \A s \in Threads \ {t} : copy[s] = None
           /\ \A s \in Threads, y \in Steps \ {"kill"} :
                /\ Doing(s, y) => s = t /\ y = x
                /\ Doing(s, y)' => s = t /\ y \in After(x, n)
           /\ n = 0 /\ x \notin Final => \E y \in After(x, n) : Doing(t, y)'
<1>1. job \in [Threads -> Seq(Steps)] /\ Turns /\ CopiesFresh
    BY DEF TurnInv, TypeOK
<1>2. Turns'
    BY <1>1, WorkKeepsTurns
<1>3. /\ job' \in [Threads -> Seq(Steps)]
      /\ \A s \in Threads \ {t} : job'[s] = job[s]
      /\ job'[t] # <<>> => Head(job'[t]) \in After(x, n)
      /\ n = 0 /\ x \notin Final => job'[t] # <<>>
    BY <1>1, StepTaken DEF Turns
<1>4. ASSUME NEW s \in Threads \ {t}, NEW y \in Steps \ {"kill"}
      PROVE  ~Doing(s, y)
    BY <1>1, <1>4, Alone DEF Doing, Busy
<1>5. \A s \in Threads \ {t} : copy[s] = None
    BY <1>1, <1>4 DEF CopiesFresh, Merges, Steps
<1>6. \A s \in Threads, y \in Steps \ {"kill"} :
         /\ Doing(s, y) => s = t /\ y = x
         /\ Doing(s, y)' => s = t /\ y \in After(x, n)
    BY <1>3, <1>4 DEF Doing
<1>7. n = 0 /\ x \notin Final => \E y \in After(x, n) : Doing(t, y)'
    BY <1>3 DEF Doing
<1> QED
    BY <1>2, <1>3, <1>5, <1>6, <1>7

-----------------------------------------------------------------------------
(* One lemma per step. *)

KeepsAll ==
    /\ TurnInv'
    /\ TemplatesReady => TemplatesReady'
    /\ Dependable /\ MetricReady => MetricReady'

\* Outside of a merge nobody holds a copy.
LEMMA NoCopies ==
    ASSUME TurnInv, NEW t \in Threads, NEW x \in Steps \ ({"kill"} \cup Merges),
           Doing(t, x)
    PROVE  \A s \in Threads : copy[s] = None
<1>1. ASSUME NEW s \in Threads, copy[s] # None PROVE FALSE
  <2>1. PICK step \in Merges : Doing(s, step)
    BY <1>1 DEF TurnInv, CopiesFresh
  <2>2. step \in Steps \ {"kill"} /\ step # x
    BY DEF Merges, Steps
  <2>3. s # t /\ Busy(s)
    BY <2>1, <2>2 DEF Doing, Busy
  <2> QED
    BY <2>1, <2>2, <2>3, Alone DEF TurnInv, Doing
<1> QED
    BY <1>1

LEMMA SetsKeeps == ASSUME TurnInv, NEW t \in Threads, Sets(t) PROVE KeepsAll
<1>1. /\ "set" \in Steps \ ({"kill"} \cup Merges) /\ 0 \in 0..2 /\ Skippable("set", 0)
      /\ Doing(t, "set") /\ Skips(t, 0)
      /\ up' = up /\ \A p \in Procs : saved'[p] => p \in up
    BY DEF Sets, Done, Steps, Merges, Skippable, TurnInv, Turns, Placed
<1>2. /\ Turns' /\ job' \in [Threads -> Seq(Steps)]
      /\ \A s \in Threads, y \in Steps \ {"kill"} :
           /\ Doing(s, y) => s = t /\ y = "set"
           /\ Doing(s, y)' => s = t /\ y \in After("set", 0)
    BY <1>1, Worked
<1>3. \A s \in Threads, y \in Steps \ {"kill"} : ~Doing(s, y)'
    BY <1>2, AfterSteps
<1>4. metric' = "low" /\ UNCHANGED <<templates, file, up, saved, arg, copy, sound, counts>>
    BY DEF Sets
<1>5. CopiesFresh'
    BY <1>1, <1>4, NoCopies DEF TurnInv, CopiesFresh
<1>6. TypeOK'
    BY <1>2, <1>4 DEF TurnInv, TypeOK, counts
<1>7. TemplatesReady'
    BY <1>3 DEF TemplatesReady, Steps
<1>8. ASSUME MetricReady PROVE MetricReady'
  <2>1. file.metric /\ t \in Threads
    BY <1>1, <1>8 DEF MetricReady
  <2> QED
    BY <1>3, <1>4, <1>8, <2>1
       DEF MetricReady, Steps, counts, Threads, HelperThreads
<1> QED
    BY <1>2, <1>5, <1>6, <1>7, <1>8 DEF KeepsAll, TurnInv

LEMMA UnsetsKeeps == ASSUME TurnInv, NEW t \in Threads, Unsets(t) PROVE KeepsAll
<1> DEFINE n == IF saved[Proc(t)] THEN 0 ELSE 1
<1>1. /\ "unset" \in Steps \ ({"kill"} \cup Merges) /\ n \in 0..2 /\ Skippable("unset", n)
      /\ Doing(t, "unset") /\ Skips(t, n) /\ up' = up
      /\ saved' = [saved EXCEPT ![Proc(t)] = FALSE]
    BY DEF Unsets, Done, Steps, Merges, Skippable, Final
<1>2. saved' \in [Procs -> BOOLEAN] /\ \A p \in Procs : saved'[p] => saved[p] /\ p \in up
    BY <1>1 DEF TurnInv, TypeOK, Turns, Placed
<1> HIDE DEF n
<1>3. /\ Turns' /\ job' \in [Threads -> Seq(Steps)]
      /\ \A s \in Threads, y \in Steps \ {"kill"} :
           /\ Doing(s, y) => s = t /\ y = "unset"
           /\ Doing(s, y)' => s = t /\ y \in After("unset", n)
    BY <1>1, <1>2, Worked
<1>4. /\ UNCHANGED <<templates, file, up, arg, copy, sound, counts>>
      /\ metric' \in IF ~saved[Proc(t)] THEN {metric}
                     ELSE {"user"} \cup (IF SetFails THEN {metric} ELSE {})
    BY DEF Unsets
<1>5. CopiesFresh'
    BY <1>1, <1>4, NoCopies DEF TurnInv, CopiesFresh
<1>6. TypeOK'
    BY <1>2, <1>3, <1>4 DEF TurnInv, TypeOK, counts
<1>7. TemplatesReady'
    BY <1>3, AfterSteps DEF TemplatesReady, Steps, n
<1>8. Proc(t) = "helper"
  <2>1. "unset" \in StepsOf(t)
    BY <1>1, OwnSteps DEF TurnInv, Turns, Doing, Busy
  <2> QED
    BY <2>1, ProcOf DEF StepsOf, HelperThreads
<1>9. ~saved'["helper"] /\ saved'["dash"] = saved["dash"]
    BY <1>1, <1>8, ProcOf DEF TurnInv, TypeOK
<1>10. ASSUME MetricReady, Dependable PROVE MetricReady'
  <2>1. metric' = "user" \/ (metric' = metric /\ n = 1)
    BY <1>4, <1>10 DEF Dependable, n
  <2>2. \A s \in Threads, y \in Steps \ {"kill"} :
          Doing(s, y)' => s = t /\ y \in {"drop", "see", "find"} /\ (y = "drop" => n = 0)
    BY <1>3, AfterSteps DEF n
  <2>3. /\ metric' = "low" => file'.metric
        /\ saved'["dash"] => live' > 0
    BY <1>4, <1>9, <1>10, <2>1 DEF MetricReady, counts
  <2>4. \A s \in Threads :
          Doing(s, "drop")' => metric' = "user" /\ (s = "main" => ~saved'["helper"])
    BY <1>9, <2>1, <2>2 DEF Steps
  <2>5. ~Doing("live", "see")' /\ \A s \in Threads : ~Doing(s, "set")'
    BY <1>8, <2>2, ProcOf DEF Steps
  <2> QED
    BY <1>9, <2>3, <2>4, <2>5 DEF MetricReady
<1> QED
    BY <1>3, <1>5, <1>6, <1>7, <1>10 DEF KeepsAll, TurnInv

\* Looking at the metric: a process notes what it saves, and saves it once.
LEMMA SeesKeeps == ASSUME TurnInv, NEW t \in Threads, Sees(t) PROVE KeepsAll
<1> DEFINE n == IF metric = "low" THEN 2 ELSE IF saved[Proc(t)] THEN 1 ELSE 0
           p == Proc(t)
<1>1. /\ "see" \in Steps \ ({"kill"} \cup Merges) /\ n \in 0..2 /\ Skippable("see", n)
      /\ Doing(t, "see") /\ Skips(t, n)
    BY DEF Sees, Done, Steps, Merges, Skippable, Final
<1>2. /\ UNCHANGED <<machine, file, up, arg, copy, sound, counts>>
      /\ saved' = [saved EXCEPT ![p] = saved[p] \/ metric = "user"]
    BY DEF Sees
<1>3. p \in up /\ p \in Procs /\ (p = "helper" <=> t \in HelperThreads)
      /\ (p = "dash" <=> t = "live") /\ t \in HelperThreads \cup {"live"}
  <2>1. "see" \in StepsOf(t)
    BY <1>1, OwnSteps DEF TurnInv, Turns, Doing, Busy
  <2>2. t \in HelperThreads \cup {"live"}
    BY <2>1, ProcOf DEF StepsOf, HelperThreads
  <2> QED
    BY <1>1, <2>2, ProcOf DEF TurnInv, Turns, Placed, Busy, Doing, HelperThreads
<1> HIDE DEF p
<1>4. /\ saved' \in [Procs -> BOOLEAN] /\ \A q \in Procs : saved'[q] => q \in up
      /\ \A q \in Procs \ {p} : saved'[q] = saved[q]
      /\ saved'[p] <=> saved[p] \/ metric = "user"
  <2>1. (saved[p] \/ metric = "user") \in BOOLEAN /\ saved \in [Procs -> BOOLEAN]
    BY <1>3 DEF TurnInv, TypeOK
  <2>2. \A q \in Procs \ {p} : saved'[q] = saved[q]
    BY <1>2, <2>1
  <2>3. saved'[p] = (saved[p] \/ metric = "user")
    BY <1>2, <1>3, <2>1
  <2> QED
    BY <1>2, <1>3, <2>1, <2>2, <2>3 DEF TurnInv, Turns, Placed
<1> HIDE DEF n
<1>5. /\ Turns' /\ job' \in [Threads -> Seq(Steps)]
      /\ \A s \in Threads, y \in Steps \ {"kill"} :
           /\ Doing(s, y) => s = t /\ y = "see"
           /\ Doing(s, y)' => s = t /\ y \in After("see", n)
      /\ n = 0 /\ "see" \notin Final => \E y \in After("see", n) : Doing(t, y)'
    BY <1>1, <1>2, <1>4, Worked
<1>6. CopiesFresh'
    BY <1>1, <1>2, NoCopies DEF TurnInv, CopiesFresh
<1>7. TypeOK'
    BY <1>2, <1>4, <1>5 DEF TurnInv, TypeOK, machine, counts
<1>8. \A s \in Threads, y \in Steps \ {"kill"} :
        Doing(s, y)' => s = t /\ ((n = 0 /\ y = "keep") \/ (n = 1 /\ y = "set"))
    BY <1>1, <1>5, AfterSteps
<1>9. TemplatesReady'
    BY <1>8 DEF TemplatesReady, Steps
<1>10. ASSUME MetricReady, Dependable PROVE MetricReady'
  <2>1. saved["helper"] => file.metric
  <3>1. \A s \in HelperThreads : s \in Threads /\ ~Doing(s, "keep")
    BY <1>5, ProcOf DEF Steps
  <3> QED
    BY <1>10, <3>1 DEF MetricReady
  <2>2. t = "live" => ~saved["dash"]
    BY <1>1, <1>10 DEF MetricReady
  <2>3. ASSUME n = 1 PROVE file.metric
    BY <1>3, <2>1, <2>2, <2>3, ProcOf DEF n, p
  <2>4. ASSUME saved'["helper"], ~file.metric
        PROVE  \E s \in HelperThreads : Doing(s, "keep")'
    <3>1. ~saved["helper"] /\ p = "helper" /\ metric = "user" /\ t \in HelperThreads
      BY <1>3, <1>4, <2>1, <2>4, ProcOf
    <3>2. n = 0
      BY <3>1 DEF n, p
    <3>3. "see" \notin Final /\ \E y \in After("see", n) : Doing(t, y)'
      BY <1>5, <3>2 DEF Final
    <3> QED
      BY <3>1, <3>2, <3>3, AfterSteps
  <2>5. saved'["dash"] => live' > 0
    BY <1>1, <1>2, <1>3, <1>4, <1>10, ProcOf DEF MetricReady, counts
  <2>6. /\ \A s \in Threads : ~Doing(s, "drop")' /\ (Doing(s, "set")' => file.metric)
        /\ ~Doing("live", "see")' /\ metric' = metric /\ file' = file
    BY <1>2, <1>8, <2>3, ProcOf DEF Steps, machine
  <2> QED
    BY <1>10, <2>4, <2>5, <2>6 DEF MetricReady
<1> QED
    BY <1>5, <1>6, <1>7, <1>9, <1>10 DEF KeepsAll, TurnInv

\* A step that leaves memory, metric and file alone keeps what is ready about
\* the metric, but for what the next step is.
LEMMA MetricUntouched ==
    ASSUME TurnInv, NEW t \in Threads, NEW x \in Steps \ ({"kill"} \cup Merges),
           Doing(t, x), UNCHANGED <<metric, file, saved, counts>>,
           \A s \in Threads, y \in Steps \ {"kill"} :
              Doing(s, y)' => s = t /\ y \notin {"set", "drop"}
                              /\ (y = "see" => t # "live")
    PROVE  MetricReady => MetricReady'
<1> SUFFICES ASSUME MetricReady PROVE MetricReady'
    OBVIOUS
<1>1. \A s \in HelperThreads : ~Doing(s, "keep")
  <2> SUFFICES ASSUME NEW s \in HelperThreads, Doing(s, "keep") PROVE FALSE
    OBVIOUS
  <2>1. s \in Threads /\ s \notin Sweepers /\ "keep" \in Steps \ {"kill"} /\ x # "keep"
    BY DEF HelperThreads, Threads, Sweepers, Steps, Merges
  <2>2. s # t /\ Busy(s)
    BY <2>1 DEF Doing, Busy
  <2> QED
    BY <2>1, <2>2, Alone DEF TurnInv
<1>2. \A s \in Threads : ~Doing(s, "set")' /\ ~Doing(s, "drop")'
    BY DEF Steps
<1>3. ~Doing("live", "see")'
    BY ProcOf DEF Steps
<1> QED
    BY <1>1, <1>2, <1>3 DEF MetricReady, counts

\* A sweep reads the record; with nothing to put back it goes on.
LEMMA RecallKeeps == ASSUME TurnInv, NEW t \in Threads, Recall(t) PROVE KeepsAll
<1> DEFINE n == IF OwnerAlive(t) \/ ~file.metric THEN 2 ELSE 0
<1>1. /\ "recall" \in Steps \ ({"kill"} \cup Merges) /\ n \in 0..2
      /\ Skippable("recall", n) /\ Doing(t, "recall") /\ Skips(t, n)
    BY DEF Recall, Done, Steps, Merges, Skippable
<1>3. UNCHANGED <<machine, file, up, saved, arg, copy, sound, counts>>
    BY DEF Recall
<1>2. n \in {0, 2}
    OBVIOUS
<1> HIDE DEF n
<1>4. \A p \in Procs : saved'[p] => p \in up
    BY <1>3 DEF TurnInv, Turns, Placed
<1>5. /\ Turns' /\ job' \in [Threads -> Seq(Steps)]
      /\ \A s \in Threads, y \in Steps \ {"kill"} :
           /\ Doing(s, y) => s = t /\ y = "recall"
           /\ Doing(s, y)' => s = t /\ y \in After("recall", n)
    BY <1>1, <1>3, <1>4, Worked
<1>6. CopiesFresh'
    BY <1>1, <1>3, NoCopies DEF TurnInv, CopiesFresh
<1>7. TypeOK'
    BY <1>3, <1>5 DEF TurnInv, TypeOK, machine, counts
<1>8. \A s \in Threads, y \in Steps \ {"kill"} :
        Doing(s, y)' => s = t /\ y \in {"reset", "see", "find"}
    BY <1>5, <1>2, AfterSteps
<1>9. TemplatesReady'
    BY <1>8 DEF TemplatesReady, Steps
<1>10. t \in Sweepers
  <2>1. "recall" \in StepsOf(t)
    BY <1>1, OwnSteps DEF TurnInv, Turns, Doing, Busy
  <2> QED
    BY <2>1, ProcOf DEF StepsOf, HelperThreads, Sweepers
<1>11. MetricReady => MetricReady'
  <2>1. t # "live"
    BY <1>10 DEF Sweepers
  <2> QED
    BY <1>1, <1>3, <1>8, <2>1, MetricUntouched DEF machine
<1> QED
    BY <1>5, <1>6, <1>7, <1>9, <1>11 DEF KeepsAll, TurnInv

\* ... and otherwise puts the metric back before it drops the note.
LEMMA ResetKeeps == ASSUME TurnInv, NEW t \in Threads, Reset(t) PROVE KeepsAll
<1>1. /\ "reset" \in Steps \ ({"kill"} \cup Merges) /\ 0 \in 0..2
      /\ Skippable("reset", 0) /\ Doing(t, "reset") /\ Skips(t, 0)
    BY DEF Reset, Done, Steps, Merges, Skippable
<1>2. /\ UNCHANGED <<templates, file, up, saved, arg, copy, sound, counts>>
      /\ metric' \in {"user"} \cup (IF SetFails THEN {metric} ELSE {})
    BY DEF Reset
<1>3. \A p \in Procs : saved'[p] => p \in up
    BY <1>2 DEF TurnInv, Turns, Placed
<1>4. /\ Turns' /\ job' \in [Threads -> Seq(Steps)]
      /\ \A s \in Threads, y \in Steps \ {"kill"} :
           /\ Doing(s, y) => s = t /\ y = "reset"
           /\ Doing(s, y)' => s = t /\ y \in After("reset", 0)
    BY <1>1, <1>2, <1>3, Worked
<1>5. CopiesFresh'
    BY <1>1, <1>2, NoCopies DEF TurnInv, CopiesFresh
<1>6. TypeOK'
    BY <1>2, <1>4 DEF TurnInv, TypeOK, counts
<1>7. \A s \in Threads, y \in Steps \ {"kill"} : Doing(s, y)' => s = t /\ y = "drop"
    BY <1>4, AfterSteps
<1>8. TemplatesReady'
    BY <1>7 DEF TemplatesReady, Steps
<1>9. t \in Sweepers
  <2>1. "reset" \in StepsOf(t)
    BY <1>1, OwnSteps DEF TurnInv, Turns, Doing, Busy
  <2> QED
    BY <2>1, ProcOf DEF StepsOf, HelperThreads, Sweepers
<1>10. ASSUME MetricReady, Dependable PROVE MetricReady'
  <2>1. ~saved["helper"]
    BY <1>1, <1>9, ProcOf DEF TurnInv, Turns, SweepsAlone, Placed, Busy, Doing
  <2>2. metric' = "user" /\ t # "main"
    BY <1>2, <1>9, <1>10 DEF Dependable, Sweepers
  <2>3. /\ \A s \in Threads : ~Doing(s, "set")' /\ (Doing(s, "drop")' => s # "main")
        /\ ~Doing("live", "see")'
    BY <1>7, <2>2, ProcOf DEF Steps
  <2> QED
    BY <1>2, <1>10, <2>1, <2>2, <2>3 DEF MetricReady, counts
<1> QED
    BY <1>4, <1>5, <1>6, <1>8, <1>10 DEF KeepsAll, TurnInv

LEMMA RegistersKeeps == ASSUME TurnInv, NEW t \in Threads, Registers(t) PROVE KeepsAll
<1>1. /\ "register" \in Steps \ ({"kill"} \cup Merges) /\ 0 \in 0..2
      /\ Skippable("register", 0) /\ Doing(t, "register") /\ Skips(t, 0)
    BY DEF Registers, Done, Steps, Merges, Skippable
<1>2. /\ UNCHANGED <<metric, file, up, saved, arg, copy, sound, counts>>
      /\ templates' = templates \cup arg[t]
    BY DEF Registers
<1>3. \A p \in Procs : saved'[p] => p \in up
    BY <1>2 DEF TurnInv, Turns, Placed
<1>4. /\ Turns' /\ job' \in [Threads -> Seq(Steps)]
      /\ \A s \in Threads, y \in Steps \ {"kill"} :
           /\ Doing(s, y) => s = t /\ y = "register"
           /\ Doing(s, y)' => s = t /\ y \in After("register", 0)
    BY <1>1, <1>2, <1>3, Worked
<1>5. CopiesFresh'
    BY <1>1, <1>2, NoCopies DEF TurnInv, CopiesFresh
<1>6. TypeOK'
    BY <1>2, <1>4 DEF TurnInv, TypeOK, counts
<1>7. \A s \in Threads, y \in Steps \ {"kill"} : Doing(s, y)' => s = t /\ y = "note"
    BY <1>4, AfterSteps
<1>8. TemplatesReady'
    BY <1>7 DEF TemplatesReady, Steps
<1>9. MetricReady => MetricReady'
    BY <1>1, <1>2, <1>7, MetricUntouched
<1> QED
    BY <1>4, <1>5, <1>6, <1>8, <1>9 DEF KeepsAll, TurnInv

\* What is noted already is noted again.
LEMMA NotesKeeps == ASSUME TurnInv, NEW t \in Threads, Notes(t) PROVE KeepsAll
<1> DEFINE n == IF arg[t] \subseteq file.doh THEN 1 ELSE 0
<1>1. /\ "note" \in Steps \ ({"kill"} \cup Merges) /\ n \in 0..2
      /\ Skippable("note", n) /\ Doing(t, "note") /\ Skips(t, n)
    BY DEF Notes, Done, Steps, Merges, Skippable, Final
<1>2. /\ UNCHANGED <<machine, file, up, saved, copy, sound, counts>>
      /\ arg' = [arg EXCEPT ![t] = arg[t] \cup file.doh]
    BY DEF Notes
<1> HIDE DEF n
<1>3. \A p \in Procs : saved'[p] => p \in up
    BY <1>2 DEF TurnInv, Turns, Placed
<1>4. /\ Turns' /\ job' \in [Threads -> Seq(Steps)]
      /\ \A s \in Threads, y \in Steps \ {"kill"} :
           /\ Doing(s, y) => s = t /\ y = "note"
           /\ Doing(s, y)' => s = t /\ y \in After("note", n)
    BY <1>1, <1>2, <1>3, Worked
<1>5. CopiesFresh'
    BY <1>1, <1>2, NoCopies DEF TurnInv, CopiesFresh
<1>6. TypeOK'
    BY <1>2, <1>4 DEF TurnInv, TypeOK, machine, counts
<1>7. \A s \in Threads, y \in Steps \ {"kill"} : Doing(s, y)' => s = t /\ y = "save"
  <2>1. n \in {0, 1}
    BY DEF n
  <2> QED
    BY <1>4, <2>1, AfterSteps
<1>8. TemplatesReady'
  <2>1. file'.doh \subseteq arg'[t]
    BY <1>2 DEF TurnInv, TypeOK
  <2> QED
    BY <1>7, <2>1 DEF TemplatesReady, Steps
<1>9. MetricReady => MetricReady'
    BY <1>1, <1>2, <1>7, MetricUntouched DEF machine
<1> QED
    BY <1>4, <1>5, <1>6, <1>8, <1>9 DEF KeepsAll, TurnInv

LEMMA FindsKeeps == ASSUME TurnInv, NEW t \in Threads, Finds(t) PROVE KeepsAll
<1> DEFINE n == IF file.doh = {} THEN 2 ELSE 0
<1>1. /\ "find" \in Steps \ ({"kill"} \cup Merges) /\ n \in 0..2
      /\ Skippable("find", n) /\ Doing(t, "find") /\ Skips(t, n)
    BY DEF Finds, Done, Steps, Merges, Skippable
<1>2. /\ UNCHANGED <<machine, file, up, saved, copy, sound, counts>>
      /\ arg' = [arg EXCEPT ![t] = file.doh]
    BY DEF Finds
<1>3. n \in {0, 2}
    OBVIOUS
<1> HIDE DEF n
<1>4. \A p \in Procs : saved'[p] => p \in up
    BY <1>2 DEF TurnInv, Turns, Placed
<1>5. /\ Turns' /\ job' \in [Threads -> Seq(Steps)]
      /\ \A s \in Threads, y \in Steps \ {"kill"} :
           /\ Doing(s, y) => s = t /\ y = "find"
           /\ Doing(s, y)' => s = t /\ y \in After("find", n)
    BY <1>1, <1>2, <1>4, Worked
<1>6. CopiesFresh'
    BY <1>1, <1>2, NoCopies DEF TurnInv, CopiesFresh
<1>7. TypeOK'
    BY <1>2, <1>5 DEF TurnInv, TypeOK, machine, counts
<1>8. \A s \in Threads, y \in Steps \ {"kill"} :
        Doing(s, y)' => s = t /\ y \in {"remove", "end"}
    BY <1>3, <1>5, AfterSteps
<1>9. TemplatesReady'
  <2>1. arg'[t] = file'.doh
    BY <1>2 DEF TurnInv, TypeOK
  <2> QED
    BY <1>8, <2>1 DEF TemplatesReady, Steps
<1>10. MetricReady => MetricReady'
    BY <1>1, <1>2, <1>8, MetricUntouched DEF machine
<1> QED
    BY <1>5, <1>6, <1>7, <1>9, <1>10 DEF KeepsAll, TurnInv

\* A removal that is refused keeps the record.
LEMMA RemovesKeeps == ASSUME TurnInv, NEW t \in Threads, Removes(t) PROVE KeepsAll
<1>1. PICK n \in {0, 1} :
        /\ Skips(t, n)
        /\ n = 0 => templates' = templates \ arg[t] /\ UNCHANGED <<faults, sound>>
        /\ n = 1 => /\ faults < MaxFaults /\ faults' = faults + 1
                    /\ sound' = (sound /\ t # "ui") /\ templates' = templates
    BY DEF Removes, Done
<1>2. /\ "remove" \in Steps \ ({"kill"} \cup Merges) /\ n \in 0..2
      /\ Skippable("remove", n) /\ Doing(t, "remove")
      /\ UNCHANGED <<metric, file, up, saved, arg, copy, live, ends>>
    BY DEF Removes, Steps, Merges, Skippable, Final
<1>3. \A p \in Procs : saved'[p] => p \in up
    BY <1>2 DEF TurnInv, Turns, Placed
<1>4. /\ Turns' /\ job' \in [Threads -> Seq(Steps)]
      /\ \A s \in Threads, y \in Steps \ {"kill"} :
           /\ Doing(s, y) => s = t /\ y = "remove"
           /\ Doing(s, y)' => s = t /\ y \in After("remove", n)
    BY <1>1, <1>2, <1>3, Worked
<1>5. CopiesFresh'
    BY <1>2, NoCopies DEF TurnInv, CopiesFresh
<1>6. TypeOK'
  <2>1. faults' \in 0..MaxFaults /\ sound' \in BOOLEAN /\ templates' \subseteq Resolvers
  <3>1. sound \in BOOLEAN /\ faults \in 0..MaxFaults /\ templates \subseteq Resolvers
        /\ MaxFaults \in Nat
      BY ResidueAssumption DEF TurnInv, TypeOK
  <3>2. CASE n = 0
      BY <1>1, <3>1, <3>2
  <3>3. CASE n = 1
    <4>1. (sound /\ t # "ui") \in BOOLEAN
      BY <3>1, Zenon
    <4> QED
      BY <1>1, <3>1, <3>3, <4>1
  <3> QED
      BY <3>2, <3>3
  <2> QED
    BY <1>2, <1>4, <2>1 DEF TurnInv, TypeOK
<1>7. \A s \in Threads, y \in Steps \ {"kill"} :
        Doing(s, y)' => s = t /\ (y = "end" \/ (y = "forget" /\ n = 0))
    BY <1>4, AfterSteps
<1>8. ASSUME TemplatesReady PROVE TemplatesReady'
  <2>1. n = 0 => file'.doh \cap templates' = {}
    BY <1>1, <1>2, <1>8 DEF TemplatesReady
  <2> QED
    BY <1>7, <2>1 DEF TemplatesReady, Steps
<1>9. ASSUME MetricReady PROVE MetricReady'
  <2>1. /\ \A s \in HelperThreads : ~Doing(s, "keep")
        /\ \A s \in Threads : ~Doing(s, "set")' /\ ~Doing(s, "drop")'
        /\ ~Doing("live", "see")'
    BY <1>4, <1>7, ProcOf DEF Steps
  <2> QED
    BY <1>2, <1>9, <2>1 DEF MetricReady
<1> QED
    BY <1>4, <1>5, <1>6, <1>8, <1>9 DEF KeepsAll, TurnInv

\* A merge reads the file ...
LEMMA MergeReadsKeeps ==
    ASSUME TurnInv, NEW t \in Threads, MergeReads(t) PROVE KeepsAll
<1>1. PICK x \in Merges : Doing(t, x)
    BY DEF MergeReads, Merges
<1>2. /\ UNCHANGED <<machine, file, up, saved, job, arg, sound, counts>>
      /\ copy' = [copy EXCEPT ![t] = file]
    BY DEF MergeReads
<1>3. TypeOK'
    BY <1>2 DEF TurnInv, TypeOK, machine, counts
<1>4. Turns'
    BY <1>2 DEF TurnInv, Turns, JobsPlanned, Placed, Exclusive, SweepsAlone,
                Busy, Doing
<1>5. CopiesFresh'
  <2>1. file \in Records /\ copy \in [Threads -> Records \cup {None}]
    BY DEF TurnInv, TypeOK, CopiesFresh, Records
  <2>2. copy' \in [Threads -> Records \cup {None}]
    BY <1>2, <2>1
  <2>3. copy'[t] = file /\ \A s \in Threads \ {t} : copy'[s] = copy[s]
    BY <1>2, <2>1
  <2>4. ASSUME NEW s \in Threads, copy'[s] # None
        PROVE  /\ \E step \in Merges : Doing(s, step)'
               /\ copy'[s].metric = file'.metric /\ copy'[s].doh = file'.doh
    <3>1. CASE s = t
      BY <1>1, <1>2, <2>3, <3>1 DEF Doing
    <3>2. CASE s # t
      BY <1>2, <2>3, <2>4, <3>2 DEF TurnInv, CopiesFresh, Doing
    <3> QED
      BY <3>1, <3>2
  <2> QED
    BY <2>2, <2>4 DEF CopiesFresh
<1>6. TemplatesReady => TemplatesReady'
    BY <1>2 DEF TemplatesReady, machine, Doing
<1>7. MetricReady => MetricReady'
    BY <1>2 DEF MetricReady, machine, counts, Doing
<1> QED
    BY <1>3, <1>4, <1>5, <1>6, <1>7 DEF KeepsAll, TurnInv

\* What a merge writes.
LEMMA MergeWritten ==
    ASSUME TurnInv, NEW t \in Threads, NEW x \in Merges, Doing(t, x),
           copy[t] # None, file' = Changed(copy[t], t, x)
    PROVE  /\ file' \in Records
           /\ file'.metric = IF x = "keep" THEN TRUE
                             ELSE IF x = "drop" THEN FALSE ELSE file.metric
           /\ file'.doh = IF x = "save" THEN arg[t]
                          ELSE IF x = "forget" THEN {} ELSE file.doh
<1>1. /\ copy[t] \in Records /\ copy[t].metric = file.metric /\ copy[t].doh = file.doh
      /\ arg[t] \in SUBSET Resolvers /\ Proc(t) \in Procs
    BY ProcOf DEF TurnInv, CopiesFresh, TypeOK
<1>2. /\ copy[t].metric \in BOOLEAN /\ copy[t].doh \in SUBSET Resolvers
    BY <1>1 DEF Records
<1>3. /\ file'.metric = IF x = "keep" THEN TRUE
                        ELSE IF x = "drop" THEN FALSE ELSE copy[t].metric
      /\ file'.doh = IF x = "save" THEN arg[t]
                     ELSE IF x = "forget" THEN {} ELSE copy[t].doh
      /\ file' = [metric |-> file'.metric, doh |-> file'.doh, owner |-> Proc(t)]
  <2>1. CASE x = "keep"
    BY <2>1 DEF Changed
  <2>2. CASE x = "drop"
    BY <2>2 DEF Changed
  <2>3. CASE x = "save"
    BY <2>3 DEF Changed
  <2>4. CASE x = "forget"
    BY <2>4 DEF Changed
  <2> QED
    BY <2>1, <2>2, <2>3, <2>4 DEF Merges
<1>4. file'.metric \in BOOLEAN /\ file'.doh \in SUBSET Resolvers
    BY <1>1, <1>2, <1>3
<1>5. [metric |-> file'.metric, doh |-> file'.doh, owner |-> Proc(t)] \in Records
    BY <1>1, <1>4 DEF Records
<1>6. file' \in Records
    BY <1>3, <1>5, Zenon
<1> QED
    BY <1>1, <1>3, <1>6

\* ... and writes it back, as it was but for what the step is about.
LEMMA MergeWritesKeeps ==
    ASSUME TurnInv, NEW t \in Threads, MergeWrites(t) PROVE KeepsAll
<1>1. PICK x \in Merges :
        Doing(t, x) /\ copy[t] # None /\ Done(t) /\ file' = Changed(copy[t], t, x)
    BY DEF MergeWrites, Merges
<1>2. /\ UNCHANGED <<machine, up, saved, sound, counts>>
      /\ copy' = [copy EXCEPT ![t] = None] /\ arg' = [arg EXCEPT ![t] = {}]
    BY DEF MergeWrites
<1>3. /\ x \in Steps \ {"kill"} /\ 0 \in 0..2 /\ Skippable(x, 0) /\ Skips(t, 0)
      /\ \A p \in Procs : saved'[p] => p \in up
    BY <1>1, <1>2 DEF Done, Steps, Merges, Skippable, TurnInv, Turns, Placed
<1>4. /\ Turns' /\ job' \in [Threads -> Seq(Steps)]
      /\ \A s \in Threads \ {t} : copy[s] = None
      /\ \A s \in Threads, y \in Steps \ {"kill"} :
           /\ Doing(s, y) => s = t /\ y = x
           /\ Doing(s, y)' => s = t /\ y \in After(x, 0)
    BY <1>1, <1>2, <1>3, Worked
<1>5. /\ file' \in Records
      /\ file'.metric = IF x = "keep" THEN TRUE
                        ELSE IF x = "drop" THEN FALSE ELSE file.metric
      /\ file'.doh = IF x = "save" THEN arg[t]
                     ELSE IF x = "forget" THEN {} ELSE file.doh
    BY <1>1, MergeWritten
<1>6. TypeOK'
    BY <1>2, <1>4, <1>5 DEF TurnInv, TypeOK, Records, machine, counts
<1>7. CopiesFresh'
  <2>1. copy' \in [Threads -> Records \cup {None}] /\ \A s \in Threads : copy'[s] = None
    BY <1>2, <1>4 DEF TurnInv, CopiesFresh
  <2> QED
    BY <2>1 DEF CopiesFresh
<1>8. \A s \in Threads, y \in Steps \ {"kill"} :
        Doing(s, y)' => /\ s = t /\ y \in {"set", "see", "find", "end"}
                        /\ (y = "set" => x = "keep") /\ (y = "see" => x = "drop")
    BY <1>4, AfterSteps DEF Merges
<1>9. TemplatesReady'
    BY <1>8 DEF TemplatesReady, Steps
<1>10. ASSUME MetricReady PROVE MetricReady'
  <2>1. x = "drop" => metric = "user" /\ ~saved["helper"]
    <3>1. ASSUME x = "drop", t \in Sweepers PROVE ~saved["helper"]
      BY <1>1, <3>1, ProcOf DEF TurnInv, Turns, SweepsAlone, Placed, Busy, Doing
    <3>2. ASSUME x = "drop", t \notin Sweepers PROVE t = "main"
      <4>1. "drop" \in StepsOf(t)
        BY <1>1, <3>2, OwnSteps DEF TurnInv, Turns, Doing, Busy
      <4> QED
        BY <3>2, <4>1 DEF StepsOf, Sweepers, Threads
    <3> QED
      BY <1>1, <1>10, <3>1, <3>2 DEF MetricReady
  <2>2. x # "drop" /\ saved["helper"] => file'.metric
    <3>1. ASSUME NEW s \in HelperThreads, Doing(s, "keep") PROVE x = "keep"
      BY <1>4, <3>1, ProcOf DEF Steps
    <3> QED
      BY <1>5, <1>10, <3>1 DEF MetricReady
  <2>3. metric' = "low" => file'.metric
    BY <1>2, <1>5, <1>10, <2>1 DEF MetricReady, machine
  <2>4. /\ \A s \in Threads : (Doing(s, "set")' => file'.metric) /\ ~Doing(s, "drop")'
        /\ saved' = saved /\ live' = live
    BY <1>2, <1>5, <1>8 DEF Steps, counts
  <2>5. ~Doing("live", "see")'
    <3>1. x = "drop" => t # "live"
      <4>1. x \in StepsOf(t)
        BY <1>1, OwnSteps DEF TurnInv, Turns, Doing, Busy
      <4> QED
        BY <4>1 DEF StepsOf
    <3> QED
      BY <1>8, <3>1, ProcOf DEF Steps
  <2> QED
    BY <1>10, <2>1, <2>2, <2>3, <2>4, <2>5 DEF MetricReady
<1> QED
    BY <1>4, <1>6, <1>7, <1>9, <1>10 DEF KeepsAll, TurnInv

-----------------------------------------------------------------------------
(* One lemma per thing that is begun. *)

\* What is begun finds no step under way and no copy held.
LEMMA Begun ==
    ASSUME TurnInv, InTurn, NEW t \in Threads \ {"watch"}, NEW program,
           Planned(program), program \in Seq(StepsOf(t)), program # <<>>,
           t \in Sweepers => Head(program) = "kill",
           Begins(t, program),
           UNCHANGED <<machine, file, up, saved, copy, faults, ends>>,
           arg' \in [Threads -> SUBSET Resolvers], sound' \in BOOLEAN,
           live' \in 0..MaxLive
    PROVE  /\ TurnInv'
           /\ \A s \in Threads, y \in Steps : ~Doing(s, y)
           /\ \A s \in Threads, y \in Steps : Doing(s, y)' => s = t /\ y = Head(program)
<1>1. /\ Turns' /\ job' \in [Threads -> Seq(Steps)]
      /\ job'[t] = program /\ \A s \in Threads \ {t} : job'[s] = <<>>
  <2>1. Turns /\ job \in [Threads -> Seq(Steps)]
    BY DEF TurnInv, TypeOK
  <2> QED
    BY <2>1, BeginKeepsTurns
<1>2. \A s \in Threads : job[s] = <<>>
    BY DEF Begins, InTurn
<1>3. \A s \in Threads, y \in Steps : ~Doing(s, y)
    BY <1>2 DEF Doing
<1>4. \A s \in Threads, y \in Steps : Doing(s, y)' => s = t /\ y = Head(program)
    BY <1>1 DEF Doing
<1>5. CopiesFresh'
  <2>1. \A s \in Threads : copy[s] = None
    BY <1>3 DEF TurnInv, CopiesFresh, Merges, Steps
  <2> QED
    BY <2>1 DEF TurnInv, CopiesFresh
<1>6. TypeOK'
    BY <1>1 DEF TurnInv, TypeOK, machine
<1> QED
    BY <1>1, <1>3, <1>4, <1>5, <1>6 DEF TurnInv

\* No program begins with a step that finds something ready.
LEMMA BegunKeeps ==
    ASSUME TurnInv, TurnInv', UNCHANGED <<machine, file, saved>>,
           \A s \in Threads, y \in Steps : ~Doing(s, y),
           NEW t \in Threads, NEW x \in {"register", "see", "unset", "kill"},
           \A s \in Threads, y \in Steps : Doing(s, y)' => s = t /\ y = x,
           t # "live" \/ live = 0, live' >= live, t = "live" => live' > 0
    PROVE  KeepsAll
<1>1. TemplatesReady'
    BY DEF TemplatesReady, Steps
<1>2. ASSUME MetricReady PROVE MetricReady'
  <2>1. \A s \in HelperThreads : ~Doing(s, "keep")
    BY ProcOf DEF Steps
  <2>2. \A s \in Threads : ~Doing(s, "set")' /\ ~Doing(s, "drop")'
    BY DEF Steps
  <2>3. Doing("live", "see")' => t = "live"
    BY ProcOf DEF Steps
  <2>4. live \in Nat /\ live' \in Nat
    BY ResidueAssumption DEF TurnInv, TypeOK
  <2>5. /\ saved'["helper"] => file'.metric
        /\ metric' = "low" => file'.metric
    BY <1>2, <2>1 DEF MetricReady, machine
  <2>6. saved'["dash"] => live > 0
    BY <1>2 DEF MetricReady
  <2>7. saved'["dash"] => live' > 0
    BY <2>4, <2>6
  <2>8. Doing("live", "see")' => ~saved'["dash"] /\ live' > 0
    BY <2>3, <2>4, <2>6
  <2> QED
    BY <2>2, <2>5, <2>7, <2>8 DEF MetricReady
<1> QED
    BY <1>1, <1>2 DEF KeepsAll

LEMMA HelperBeginsKeeps ==
    ASSUME TurnInv, InTurn,
           HelperEnables \/ HelperLowers \/ HelperRelowers \/ HelperCleans
    PROVE  KeepsAll
<1>1. PICK t \in HelperThreads, program \in {Enables, Lowers, Unlowers \o Lowers, Cleanup} :
        /\ Begins(t, program) /\ program \in Seq(StepsOf(t))
        /\ arg' \in [Threads -> SUBSET Resolvers]
        /\ UNCHANGED <<machine, file, up, saved, copy, sound, counts>>
  <2>1. /\ arg \in [Threads -> SUBSET Resolvers]
        /\ "main" \in HelperThreads /\ "geo" \in HelperThreads
    BY DEF TurnInv, TypeOK, HelperThreads
  <2>2. CASE HelperEnables
    BY <2>1, <2>2, ProgramsFit DEF HelperEnables
  <2>3. CASE HelperLowers
    BY <2>1, <2>3, ProgramsFit DEF HelperLowers
  <2>4. CASE HelperRelowers
    BY <2>1, <2>4, ProgramsFit DEF HelperRelowers
  <2>5. CASE HelperCleans
    BY <2>1, <2>5, ProgramsFit DEF HelperCleans
  <2> QED
    BY <2>2, <2>3, <2>4, <2>5
<1>2. /\ t \in Threads \ {"watch"} /\ t \notin Sweepers /\ t # "live"
      /\ Planned(program) /\ program # <<>>
      /\ Head(program) \in {"register", "see", "unset", "kill"}
    BY ProgramsPlanned DEF HelperThreads, Threads, Sweepers
<1>3. sound' \in BOOLEAN /\ live' = live /\ live \in 0..MaxLive /\ live' >= live
      /\ UNCHANGED <<faults, ends>>
    BY <1>1, ResidueAssumption DEF TurnInv, TypeOK, counts
<1>4. /\ TurnInv'
      /\ \A s \in Threads, y \in Steps : ~Doing(s, y)
      /\ \A s \in Threads, y \in Steps : Doing(s, y)' => s = t /\ y = Head(program)
    BY <1>1, <1>2, <1>3, Begun
<1> QED
    BY <1>1, <1>2, <1>3, <1>4, BegunKeeps

\* A dashboard's second lowering is not Dependable.
LEMMA DashLowersKeeps == ASSUME TurnInv, InTurn, DashLowers PROVE KeepsAll
<1>1. /\ live < MaxLive /\ live' = live + 1 /\ Begins("live", Lowers)
      /\ UNCHANGED <<machine, file, up, saved, arg, copy, sound, faults, ends>>
    BY DEF DashLowers
<1>2. /\ "live" \in Threads \ {"watch"} /\ "live" \notin Sweepers
      /\ Planned(Lowers) /\ Lowers # <<>> /\ Head(Lowers) = "see"
      /\ Lowers \in Seq(StepsOf("live"))
    BY ProgramsPlanned, ProgramsFit DEF Threads, Sweepers
<1>3. /\ live \in Nat /\ live' \in 0..MaxLive /\ live' > 0
      /\ sound' \in BOOLEAN /\ arg' \in [Threads -> SUBSET Resolvers]
    BY <1>1, ResidueAssumption DEF TurnInv, TypeOK
<1>4. /\ TurnInv'
      /\ \A s \in Threads, y \in Steps : ~Doing(s, y)
      /\ \A s \in Threads, y \in Steps : Doing(s, y)' => s = "live" /\ y = "see"
    BY <1>1, <1>2, <1>3, Begun
<1>5. TemplatesReady'
    BY <1>4 DEF TemplatesReady, Steps
<1>6. ASSUME Dependable, MetricReady PROVE MetricReady'
  <2>1. live = 0 /\ ~saved["dash"]
    BY <1>1, <1>3, <1>6, ResidueAssumption DEF Dependable, MetricReady
  <2> QED
    BY <1>1, <1>2, <1>3, <1>4, <1>6, <2>1, BegunKeeps DEF KeepsAll
<1> QED
    BY <1>4, <1>5, <1>6 DEF KeepsAll

LEMMA DashSweepsKeeps ==
    ASSUME TurnInv, InTurn, DashSweeps \/ DashQuits PROVE KeepsAll
<1>1. PICK program \in {Sweep, Sweep \o <<"end">>} :
        /\ Begins("ui", program) /\ sound' = TRUE
        /\ UNCHANGED <<machine, file, up, saved, arg, copy, counts>>
    BY DEF DashSweeps, DashQuits
<1>2. /\ "ui" \in Threads \ {"watch"} /\ "ui" # "live" /\ "ui" \in Sweepers
      /\ Planned(program) /\ program # <<>> /\ Head(program) = "kill"
      /\ program \in Seq(StepsOf("ui"))
    BY ProgramsPlanned, ProgramsFit DEF Threads, Sweepers
<1>3. /\ sound' \in BOOLEAN /\ live' = live /\ live \in 0..MaxLive /\ live' >= live
      /\ UNCHANGED <<faults, ends>> /\ arg' \in [Threads -> SUBSET Resolvers]
    BY <1>1, ResidueAssumption DEF TurnInv, TypeOK, counts
<1>4. /\ TurnInv'
      /\ \A s \in Threads, y \in Steps : ~Doing(s, y)
      /\ \A s \in Threads, y \in Steps : Doing(s, y)' => s = "ui" /\ y = "kill"
    BY <1>1, <1>2, <1>3, Begun
<1> QED
    BY <1>1, <1>2, <1>3, <1>4, BegunKeeps

-----------------------------------------------------------------------------
(* One lemma per coming or going of a process. *)

LEMMA Ended ==
    ASSUME TypeOK, NEW procs \in SUBSET Procs, Ends(procs)
    PROVE  /\ up' \subseteq Procs /\ saved' \in [Procs -> BOOLEAN]
           /\ \A p \in Procs : saved'[p] <=> saved[p] /\ p \notin procs
           /\ file' \in Records /\ file'.metric = file.metric /\ file'.doh = file.doh
<1>1. \A p \in Procs : (saved[p] /\ p \notin procs) \in BOOLEAN
    BY DEF TypeOK
<1>2. saved' = [p \in Procs |-> saved[p] /\ p \notin procs]
    BY DEF Ends
<1>3. saved' \in [Procs -> BOOLEAN] /\ \A p \in Procs : saved'[p] <=> saved[p] /\ p \notin procs
    BY <1>1, <1>2, Zenon
<1>4. up' \subseteq Procs
    BY DEF TypeOK, Ends
<1>5. file' \in Records /\ file'.metric = file.metric /\ file'.doh = file.doh
    BY DEF TypeOK, Ends, Records
<1> QED
    BY <1>3, <1>4, <1>5

\* Where nobody is between two steps but sweeps that have yet to begin, and
\* threads that go on where they were, what was ready still is.
LEMMA EndedKeeps ==
    ASSUME TurnInv, NEW procs \in SUBSET Procs, Ends(procs), Turns',
           job' \in [Threads -> Seq(Steps)], copy' = Unread(procs),
           \A t \in Threads : Busy(t)' =>
              \/ Doing(t, "kill")' \/ Doing(t, "recall")'
              \/ job'[t] = job[t] /\ Proc(t) \notin procs,
           \A t \in Threads : Proc(t) \notin procs /\ (\E step \in Merges : Doing(t, step))
                              => job'[t] = job[t],
           UNCHANGED <<machine, arg, sound, live, faults>>, ends' \in 0..MaxEnds
    PROVE  KeepsAll
<1>1. /\ up' \subseteq Procs /\ saved' \in [Procs -> BOOLEAN]
      /\ \A p \in Procs : saved'[p] <=> saved[p] /\ p \notin procs
      /\ file' \in Records /\ file'.metric = file.metric /\ file'.doh = file.doh
    BY Ended DEF TurnInv
<1>2. \A t \in Threads, y \in Steps \ {"kill", "recall"} :
         Doing(t, y)' => Doing(t, y) /\ Proc(t) \notin procs /\ job'[t] = job[t]
    BY DEF Doing, Busy
<1>3. TypeOK'
    BY <1>1 DEF TurnInv, TypeOK, Records, machine
<1>4. CopiesFresh'
  <2>1. \A t \in Threads : copy'[t] = IF Proc(t) \in procs THEN None ELSE copy[t]
    BY DEF Unread
  <2>2. copy' \in [Threads -> Records \cup {None}]
    BY DEF Unread, TurnInv, CopiesFresh
  <2>3. ASSUME NEW t \in Threads, copy'[t] # None
        PROVE  /\ \E step \in Merges : Doing(t, step)'
               /\ copy'[t].metric = file'.metric /\ copy'[t].doh = file'.doh
    <3>1. Proc(t) \notin procs /\ copy'[t] = copy[t] /\ copy[t] # None
      BY <2>1, <2>3
    <3>2. PICK step \in Merges : Doing(t, step)
      BY <3>1 DEF TurnInv, CopiesFresh
    <3>3. Doing(t, step)'
      BY <3>1, <3>2 DEF Doing
    <3> QED
      BY <1>1, <3>1, <3>3 DEF TurnInv, CopiesFresh
  <2> QED
    BY <2>2, <2>3 DEF CopiesFresh
<1>5. TemplatesReady => TemplatesReady'
    BY <1>1, <1>2 DEF TemplatesReady, Steps, machine
<1>6. ASSUME MetricReady PROVE MetricReady'
  <2>1. ASSUME saved'["helper"], ~file'.metric
        PROVE  \E t \in HelperThreads : Doing(t, "keep")'
    <3>1. saved["helper"] /\ "helper" \notin procs
      BY <1>1, <2>1, ProcOf
    <3>2. PICK t \in HelperThreads : Doing(t, "keep")
      BY <1>1, <1>6, <2>1, <3>1 DEF MetricReady
    <3>3. t \in Threads /\ "keep" \in Merges /\ Proc(t) \notin procs
      BY <3>1, <3>2, ProcOf DEF Merges
    <3> QED
      BY <3>2, <3>3 DEF Doing
  <2>2. saved'["dash"] => live' > 0
    BY <1>1, <1>6, ProcOf DEF MetricReady
  <2>3. Doing("live", "see")' => ~saved'["dash"] /\ live' > 0
    BY <1>1, <1>2, <1>6, ProcOf DEF MetricReady, Steps
  <2>4. \A t \in Threads : Doing(t, "set")' => file'.metric
    BY <1>1, <1>2, <1>6 DEF MetricReady, Steps
  <2>5. \A t \in Threads :
          Doing(t, "drop")' => metric' = "user" /\ (t = "main" => ~saved'["helper"])
    BY <1>1, <1>2, <1>6, ProcOf DEF MetricReady, Steps, machine
  <2>6. metric' = "low" => file'.metric
    BY <1>1, <1>6 DEF MetricReady, machine
  <2> QED
    BY <2>1, <2>2, <2>3, <2>4, <2>5, <2>6 DEF MetricReady
<1> QED
    BY <1>3, <1>4, <1>5, <1>6 DEF KeepsAll, TurnInv

LEMMA HelperLeavesKeeps == ASSUME TurnInv, HelperLeaves PROVE KeepsAll
<1>1. /\ Ends({"helper"}) /\ job' = Dropped({"helper"}) /\ copy' = Unread({"helper"})
      /\ UNCHANGED <<machine, arg, sound, counts>>
    BY DEF HelperLeaves
<1>2. /\ Turns' /\ job' \in [Threads -> Seq(Steps)]
      /\ \A t \in HelperThreads : ~Busy(t)'
      /\ \A t \in Threads \ HelperThreads : job'[t] = job[t]
    BY <1>1, HelperDeathKeepsTurns DEF TurnInv, TypeOK
<1>3. \A t \in Threads : t \in HelperThreads <=> Proc(t) \in {"helper"}
    BY ProcOf DEF HelperThreads
<1>4. ends' \in 0..MaxEnds /\ {"helper"} \in SUBSET Procs
    BY <1>1 DEF TurnInv, TypeOK, counts, Procs
<1>5. UNCHANGED <<machine, arg, sound, live, faults>>
    BY <1>1 DEF counts
<1> QED
    BY <1>1, <1>2, <1>3, <1>4, <1>5, EndedKeeps

LEMMA KillsKeeps == ASSUME TurnInv, NEW t \in Threads, Kills(t) PROVE KeepsAll
<1>1. /\ Ends({"helper"}) /\ copy' = Unread({"helper"}) /\ Doing(t, "kill")
      /\ UNCHANGED <<machine, arg, sound, counts>>
    BY DEF Kills
<1>2. /\ Turns' /\ job' \in [Threads -> Seq(Steps)] /\ t \in Sweepers
      /\ \A s \in Threads \ {t} : ~Busy(s)'
      /\ Busy(t)' => Doing(t, "recall")'
    BY <1>1, KillKeepsTurns DEF TurnInv, TypeOK
<1>3. ASSUME NEW s \in Threads, NEW step \in Merges, Doing(s, step), Proc(s) # "helper"
      PROVE  FALSE
  <2>1. step \in Steps \ {"kill"} /\ s # t /\ Busy(t)
    BY <1>1, <1>3 DEF Merges, Steps, Doing, Busy
  <2>2. s \in HelperThreads
    BY <1>3, <2>1, Alone DEF TurnInv
  <2> QED
    BY <1>3, <2>2, ProcOf
<1>4. ends' \in 0..MaxEnds /\ {"helper"} \in SUBSET Procs
    BY <1>1 DEF TurnInv, TypeOK, counts, Procs
<1>5. UNCHANGED <<machine, arg, sound, live, faults>>
    BY <1>1 DEF counts
<1> QED
    BY <1>1, <1>2, <1>3, <1>4, <1>5, EndedKeeps

\* A dashboard that ends, alone or with its helper.
LEMMA DashEndsKeeps ==
    ASSUME TurnInv, NEW procs \in SUBSET Procs, procs \subseteq up, "dash" \in procs,
           Ends(procs), NEW rest \in {<<>>, Sweep},
           job' = [Dropped(procs) EXCEPT !["watch"] = rest], copy' = Unread(procs),
           UNCHANGED <<machine, arg, sound, live, faults>>, ends' \in 0..MaxEnds
    PROVE  KeepsAll
<1>1. /\ Turns' /\ job' \in [Threads -> Seq(Steps)]
      /\ \A t \in Threads : Busy(t)' =>
            \/ t = "watch" /\ Doing(t, "kill")'
            \/ t \in HelperThreads /\ job'[t] = job[t] /\ "helper" \notin procs
    BY DeathKeepsTurns DEF TurnInv, TypeOK
<1>2. \A t \in Threads \ {"watch"} : Proc(t) \notin procs => job'[t] = job[t]
    BY DEF Dropped
<1>3. \A step \in Merges : ~Doing("watch", step)
    BY DEF TurnInv, Turns, Placed, Doing, Busy
<1>4. \A t \in HelperThreads : Proc(t) = "helper"
    BY ProcOf
<1> QED
    BY <1>1, <1>2, <1>3, <1>4, EndedKeeps

LEMMA DashLeavesKeeps == ASSUME TurnInv, DashLeaves PROVE KeepsAll
<1>1. /\ Doing("ui", "end") /\ Ends({"dash"}) /\ copy' = Unread({"dash"})
      /\ job' = [Dropped({"dash"}) EXCEPT !["watch"] = IF sound THEN <<>> ELSE Sweep]
      /\ UNCHANGED <<machine, arg, sound, counts>>
    BY DEF DashLeaves
<1>2. {"dash"} \in SUBSET Procs /\ {"dash"} \subseteq up
    BY <1>1, ProcOf DEF TurnInv, Turns, Placed, Busy, Doing, Threads, Procs
<1>3. /\ ends' \in 0..MaxEnds /\ UNCHANGED <<machine, arg, sound, live, faults>>
      /\ (IF sound THEN <<>> ELSE Sweep) \in {<<>>, Sweep}
    BY <1>1 DEF TurnInv, TypeOK, counts
<1> QED
    BY <1>1, <1>2, <1>3, DashEndsKeeps

\* Whatever is killed, and wherever.
LEMMA KilledKeeps == ASSUME TurnInv, Killed PROVE KeepsAll
<1>1. PICK procs \in {{"helper"}, {"dash"}, {"helper", "dash"}} :
        /\ procs \subseteq up /\ ends < MaxEnds /\ ends' = ends + 1 /\ Ends(procs)
        /\ job' = IF "dash" \in procs
                  THEN [Dropped(procs) EXCEPT !["watch"] = Sweep] ELSE Dropped(procs)
        /\ copy' = Unread(procs)
        /\ UNCHANGED <<machine, arg, sound, live, faults>>
    BY DEF Killed
<1>2. procs \in SUBSET Procs /\ ends' \in 0..MaxEnds
    BY <1>1, ResidueAssumption DEF TurnInv, TypeOK, Procs
<1>3. CASE "dash" \in procs
  <2>1. job' = [Dropped(procs) EXCEPT !["watch"] = Sweep] /\ Sweep \in {<<>>, Sweep}
    BY <1>1, <1>3
  <2> QED
    BY <1>1, <1>2, <1>3, <2>1, DashEndsKeeps
<1>4. CASE "dash" \notin procs
  <2>1. procs = {"helper"} /\ job' = Dropped({"helper"})
    BY <1>1, <1>4
  <2>2. /\ Turns' /\ job' \in [Threads -> Seq(Steps)]
        /\ \A t \in HelperThreads : ~Busy(t)'
        /\ \A t \in Threads \ HelperThreads : job'[t] = job[t]
    BY <1>1, <2>1, HelperDeathKeepsTurns DEF TurnInv, TypeOK
  <2>3. \A t \in Threads : t \in HelperThreads <=> Proc(t) \in procs
    BY <2>1, ProcOf DEF HelperThreads
  <2> QED
    BY <1>1, <1>2, <2>2, <2>3, EndedKeeps
<1> QED
    BY <1>3, <1>4

LEMMA DashStartsKeeps == ASSUME TurnInv, DashStarts PROVE KeepsAll
<1>1. /\ "dash" \notin up /\ up' = (up \ {"watch"}) \cup {"dash"}
      /\ live' = 0 /\ sound' = TRUE
      /\ UNCHANGED <<machine, file, saved, arg, copy, faults, ends>>
    BY DEF DashStarts
<1>2. /\ Turns' /\ job' \in [Threads -> Seq(Steps)] /\ Doing("ui", "kill")'
      /\ ~Busy("ui") /\ ~Busy("live")
      /\ \A t \in Threads \ {"ui"} : job'[t] = job[t]
    BY DashStartsKeepsTurns DEF TurnInv, TypeOK
<1>3. \A t \in Threads, y \in Steps \ {"kill"} : Doing(t, y)' <=> Doing(t, y)
    BY <1>2 DEF Doing, Busy
<1>4. TypeOK'
    BY <1>1, <1>2, ResidueAssumption DEF TurnInv, TypeOK, machine, Procs
<1>5. CopiesFresh'
    BY <1>1, <1>3 DEF TurnInv, CopiesFresh, Merges, Steps
<1>6. TemplatesReady => TemplatesReady'
    BY <1>1, <1>3 DEF TemplatesReady, Steps, machine
<1>7. ASSUME MetricReady PROVE MetricReady'
  <2>1. ~saved["dash"] /\ ~Doing("live", "see")'
    BY <1>1, <1>2, ProcOf DEF TurnInv, Turns, Placed, Busy, Doing, Threads
  <2>2. /\ \A t \in Threads : /\ Doing(t, "set")' <=> Doing(t, "set")
                              /\ Doing(t, "drop")' <=> Doing(t, "drop")
        /\ \A t \in HelperThreads : Doing(t, "keep")' <=> Doing(t, "keep")
    BY <1>3, ProcOf DEF Steps
  <2> QED
    BY <1>1, <1>7, <2>1, <2>2 DEF MetricReady, machine
<1> QED
    BY <1>2, <1>4, <1>5, <1>6, <1>7 DEF KeepsAll, TurnInv

LEMMA HelperStartsKeeps == ASSUME TurnInv, HelperStarts PROVE KeepsAll
<1>1. /\ up' = up \cup {"helper"}
      /\ UNCHANGED <<machine, file, saved, job, arg, copy, sound, counts>>
    BY DEF HelperStarts, threads
<1>2. Turns'
    BY HelperStartKeepsTurns DEF TurnInv
<1>3. TypeOK'
    BY <1>1 DEF TurnInv, TypeOK, machine, counts, Procs
<1>4. CopiesFresh'
    BY <1>1 DEF TurnInv, CopiesFresh, Doing
<1>5. TemplatesReady => TemplatesReady'
    BY <1>1 DEF TemplatesReady, Doing, machine
<1>6. MetricReady => MetricReady'
    BY <1>1 DEF MetricReady, Doing, machine, counts
<1> QED
    BY <1>2, <1>3, <1>4, <1>5, <1>6 DEF KeepsAll, TurnInv

-----------------------------------------------------------------------------
(* The theorems. *)

LEMMA InitReady == Init => TurnInv /\ TemplatesReady /\ MetricReady
<1> SUFFICES ASSUME Init PROVE TurnInv /\ TemplatesReady /\ MetricReady
    OBVIOUS
<1>1. /\ job = [t \in Threads |-> <<>>] /\ saved = [p \in Procs |-> FALSE]
      /\ up = {} /\ copy = [t \in Threads |-> None] /\ metric = "user"
    BY DEF Init
<1>2. \A t \in Threads : job[t] = <<>> /\ copy[t] = None
    BY <1>1
<1>3. job \in [Threads -> Seq(Steps)]
    BY <1>1, NothingLeft
<1>4. TypeOK
    BY <1>1, <1>3, ResidueAssumption DEF Init, TypeOK
<1>5. JobsPlanned
    BY <1>2, NothingLeft DEF JobsPlanned
<1>6. Turns
    BY <1>1, <1>2, <1>5
       DEF Turns, Placed, Exclusive, SweepsAlone, Busy, Sweepers, Threads
<1>7. CopiesFresh
    BY <1>1, <1>2 DEF CopiesFresh
<1>8. TemplatesReady
    BY <1>2 DEF TemplatesReady, Doing
<1>9. MetricReady
    BY <1>1, <1>2, ProcOf DEF MetricReady, Doing, Threads
<1> QED
    BY <1>4, <1>6, <1>7, <1>8, <1>9 DEF TurnInv

\* Every step of every thread, every beginning and every end.
LEMMA StepKeeps == ASSUME TurnInv, InTurn, [Next]_vars PROVE KeepsAll
<1>1. CASE \E t \in Threads : Works(t)
  <2> PICK t \in Threads : Works(t)
    BY <1>1
  <2>1. CASE MergeReads(t)
    BY <2>1, MergeReadsKeeps
  <2>2. CASE MergeWrites(t)
    BY <2>2, MergeWritesKeeps
  <2>3. CASE Sees(t)
    BY <2>3, SeesKeeps
  <2>4. CASE Sets(t)
    BY <2>4, SetsKeeps
  <2>5. CASE Unsets(t)
    BY <2>5, UnsetsKeeps
  <2>6. CASE Recall(t)
    BY <2>6, RecallKeeps
  <2>7. CASE Reset(t)
    BY <2>7, ResetKeeps
  <2>8. CASE Registers(t)
    BY <2>8, RegistersKeeps
  <2>9. CASE Notes(t)
    BY <2>9, NotesKeeps
  <2>10. CASE Finds(t)
    BY <2>10, FindsKeeps
  <2>11. CASE Removes(t)
    BY <2>11, RemovesKeeps
  <2>12. CASE Kills(t)
    BY <2>12, KillsKeeps
  <2> QED
    BY <2>1, <2>2, <2>3, <2>4, <2>5, <2>6, <2>7, <2>8, <2>9, <2>10, <2>11, <2>12
       DEF Works
<1>2. CASE DashStarts
    BY <1>2, DashStartsKeeps
<1>3. CASE HelperStarts
    BY <1>3, HelperStartsKeeps
<1>4. CASE HelperEnables \/ HelperLowers \/ HelperRelowers \/ HelperCleans
    BY <1>4, HelperBeginsKeeps
<1>5. CASE HelperLeaves
    BY <1>5, HelperLeavesKeeps
<1>6. CASE DashLowers
    BY <1>6, DashLowersKeeps
<1>7. CASE DashSweeps \/ DashQuits
    BY <1>7, DashSweepsKeeps
<1>8. CASE DashLeaves
    BY <1>8, DashLeavesKeeps
<1>9. CASE Killed
    BY <1>9, KilledKeeps
<1>10. CASE UNCHANGED vars
  <2>1. UNCHANGED <<metric, templates, file, up, saved, job, arg, copy, sound,
                    live, faults, ends>>
    BY <1>10 DEF vars, machine, threads, counts
  <2> QED
    BY <2>1 DEF KeepsAll, TurnInv, TypeOK, Turns, JobsPlanned, Placed, Exclusive,
                SweepsAlone, CopiesFresh, TemplatesReady, MetricReady, Busy, Doing
<1> QED
    BY <1>1, <1>2, <1>3, <1>4, <1>5, <1>6, <1>7, <1>8, <1>9, <1>10 DEF Next

\* One operation at a time: a sweep and a helper's step exclude each other,
\* nobody writes back what is no longer in the file, and a record is saved or
\* forgotten for what the store of templates was seen to hold
\* (residue.py, merge(); dns_setup.py, _register_doh_server and
\* _remove_doh_servers).
THEOREM RecordInvariance ==
    ASSUME InTurn
    PROVE  Spec => [](TurnInv /\ TemplatesReady)
<1>1. Init => TurnInv /\ TemplatesReady
    BY InitReady
<1>2. TurnInv /\ TemplatesReady /\ [Next]_vars => (TurnInv /\ TemplatesReady)'
    BY StepKeeps DEF KeepsAll
<1> QED
    BY <1>1, <1>2, PTL DEF Spec

\* Only a write makes the record of a template disappear.
LEMMA OnlyWritesForget ==
    ASSUME TypeOK, [Next]_vars, file'.doh # file.doh
    PROVE  \E t \in Threads : MergeWrites(t)
<1>1. CASE \E t \in Threads : Works(t)
  <2> PICK t \in Threads : Works(t)
    BY <1>1
  <2>1. MergeWrites(t) \/ file' = file \/ Ends({"helper"})
    BY DEF Works, MergeReads, Sees, Sets, Unsets, Recall, Reset, Registers, Notes,
           Finds, Removes, Kills
  <2>2. {"helper"} \in SUBSET Procs
    BY DEF Procs
  <2> QED
    BY <2>1, <2>2, Ended
<1>2. CASE HelperLeaves \/ DashLeaves \/ Killed
  <2>1. \E procs \in SUBSET Procs : Ends(procs)
    BY <1>2 DEF HelperLeaves, DashLeaves, Killed, Procs
  <2> QED
    BY <2>1, Ended
<1>3. CASE DashStarts \/ HelperStarts \/ HelperEnables \/ HelperLowers
           \/ HelperRelowers \/ HelperCleans \/ DashLowers \/ DashSweeps \/ DashQuits
    BY <1>3 DEF DashStarts, HelperStarts, HelperEnables, HelperLowers, HelperRelowers,
                HelperCleans, DashLowers, DashSweeps, DashQuits
<1>4. CASE UNCHANGED vars
    BY <1>4 DEF vars
<1> QED
    BY <1>1, <1>2, <1>3, <1>4 DEF Next

\* The record of a template outlives the template: what is saved holds all that
\* was recorded, and what is forgotten has been seen to be gone
\* (tuntop/tunnel/dns_setup.py, _remove_doh_servers).
THEOREM RecordKept ==
    ASSUME InTurn
    PROVE  Spec => RecordOutlivesTemplate
<1>1. TurnInv /\ TemplatesReady /\ [Next]_vars =>
        [\A r \in file.doh \ file'.doh : r \notin templates]_vars
  <2> SUFFICES ASSUME TurnInv, TemplatesReady, [Next]_vars,
                      NEW r \in file.doh \ file'.doh
               PROVE  r \notin templates
    OBVIOUS
  <2>1. PICK t \in Threads : MergeWrites(t)
    BY OnlyWritesForget DEF TurnInv
  <2>2. PICK x \in Merges : /\ Doing(t, x) /\ copy[t] # None
                            /\ file' = Changed(copy[t], t, x)
    BY <2>1 DEF MergeWrites, Merges
  <2>3. file'.doh = IF x = "save" THEN arg[t]
                    ELSE IF x = "forget" THEN {} ELSE file.doh
    BY <2>2, MergeWritten
  <2>4. x = "forget"
    BY <2>2, <2>3 DEF TemplatesReady
  <2> QED
    BY <2>2, <2>4 DEF TemplatesReady
<1> QED
    BY <1>1, RecordInvariance, PTL DEF Spec, RecordOutlivesTemplate

\* Where a dashboard lowers the metric once and putting it back works, what is
\* ready about the metric is so by induction as well.
THEOREM MetricInvariance ==
    ASSUME InTurn, Dependable
    PROVE  Spec => [](TurnInv /\ MetricReady)
<1>1. Init => TurnInv /\ MetricReady
    BY InitReady
<1>2. TurnInv /\ MetricReady /\ [Next]_vars => (TurnInv /\ MetricReady)'
    BY StepKeeps DEF KeepsAll
<1> QED
    BY <1>1, <1>2, PTL DEF Spec

\* ... and so a lowered metric is always on record, wherever its process, or
\* the one that puts it back, is killed (tuntop/network/residue.py).
THEOREM LoweredIsOnRecord ==
    ASSUME InTurn, Dependable
    PROVE  Spec => []MetricAccounted
<1>1. TurnInv /\ MetricReady => MetricAccounted
    BY DEF TurnInv, MetricReady, MetricAccounted
<1> QED
    BY <1>1, MetricInvariance, PTL
=============================================================================
