---------------------------- MODULE Silence_proofs ----------------------------
(* The time without the idle thread is bounded for any number of threads, any *)
(* priorities and any timeouts (SilenceBounded of Syswatch). The silence is   *)
(* accounted for: what the steps of the state machine before the present one  *)
(* took (Spent), and the seconds of the present one (Waited). A confirmation  *)
(* that ends adds its seconds to Spent with a thread that is dead and stays   *)
(* dead until the idle thread is reached, so that there is at most one of     *)
(* them for every thread.                                                     *)
EXTENDS Syswatch_proofs, FiniteSetTheorems

(* The threads that are dead and that no confirmation will hit any more.      *)
Dead(st, w) == {t \in Victims : st[t] = "closed" /\ t # w.lowest_thread}

(* The seconds of the present step, with one that has ended but was not       *)
(* counted.                                                                   *)
Waited(st, w) == w.sec_cnt + (IF Awake(st) THEN 1 ELSE 0)

(* What the earlier steps can have taken. Step 0 may follow a resume delay    *)
(* that the silence began in, which begins itself when idle was reached.      *)
Spent(st, w) ==
  CASE w.op_step = 0 -> RESUME_DLY
    [] w.op_step = 1 -> RESUME_DLY + EXCEPT_TIMEOUT + CONFIRM_TMO * Cardinality(Dead(st, w))
    [] OTHER -> 0

(* The silence s is accounted for, and no step lasts longer than its timeout. *)
Within(st, w, s) ==
  /\ s <= Spent(st, w) + Waited(st, w)
  /\ w.sec_cnt < Timeout(w.op_step)

(* More threads, more confirmations.                                          *)
LEMMA ConfirmMono ==
  ASSUME IsFiniteSet(Threads), NEW B \in SUBSET Victims, NEW A \in SUBSET B
  PROVE  /\ CONFIRM_TMO * Cardinality(A) \in Nat /\ CONFIRM_TMO * Cardinality(B) \in Nat
         /\ CONFIRM_TMO * Cardinality(A) <= CONFIRM_TMO * Cardinality(B)
<1>1. B \in SUBSET Threads
  BY DEF Victims
<1>2. IsFiniteSet(B)
  BY <1>1, FS_Subset
<1>3. IsFiniteSet(A) /\ Cardinality(A) <= Cardinality(B)
  BY <1>2, FS_Subset
<1>4. Cardinality(A) \in Nat /\ Cardinality(B) \in Nat /\ CONFIRM_TMO \in Nat
  BY <1>2, <1>3, FS_CardinalityType, Facts
<1>5. \A c, m, n \in Nat : m <= n => c * m \in Nat /\ c * n \in Nat /\ c * m <= c * n
  OBVIOUS
<1> QED BY <1>3, <1>4, <1>5

(* One more thread, one more confirmation.                                    *)
LEMMA ConfirmMore ==
  ASSUME IsFiniteSet(Threads), NEW B \in SUBSET Victims, NEW A \in SUBSET B,
         NEW t \in B, t \notin A
  PROVE  CONFIRM_TMO * Cardinality(A) + CONFIRM_TMO <= CONFIRM_TMO * Cardinality(B)
<1>1. A \cup {t} \in SUBSET B /\ A \cup {t} \in SUBSET Threads
  BY DEF Victims
<1>2. IsFiniteSet(A)
  BY FS_Subset DEF Victims
<1>3. Cardinality(A \cup {t}) = Cardinality(A) + 1
  BY <1>2, FS_AddElement
<1>4. Cardinality(A) \in Nat /\ CONFIRM_TMO \in Nat
  BY <1>2, FS_CardinalityType, Facts
<1>5. CONFIRM_TMO * Cardinality(A \cup {t}) <= CONFIRM_TMO * Cardinality(B)
  BY <1>1, ConfirmMono
<1>6. \A c, n \in Nat : c * (n + 1) = c * n + c
  OBVIOUS
<1> QED BY <1>3, <1>4, <1>5, <1>6

(* What the three steps mean for Within.                                      *)
LEMMA WithinOK ==
  ASSUME IsFiniteSet(Threads), NEW st, NEW w \in SwData, NEW s \in Nat
  PROVE  /\ w.op_step = 0 => /\ Timeout(w.op_step) = EXCEPT_TIMEOUT
                             /\ Spent(st, w) = RESUME_DLY
         /\ w.op_step = 1 => /\ Timeout(w.op_step) = CONFIRM_TMO
                             /\ Spent(st, w) = RESUME_DLY + EXCEPT_TIMEOUT
                                               + CONFIRM_TMO * Cardinality(Dead(st, w))
         /\ w.op_step = 2 => Timeout(w.op_step) = RESUME_DLY /\ Spent(st, w) = 0
         /\ w.op_step \in {0, 1, 2} /\ w.sec_cnt \in Nat
         /\ Spent(st, w) \in Nat /\ Waited(st, w) \in Nat
<1>1. w.op_step \in {0, 1, 2} /\ w.sec_cnt \in Nat
  BY DEF SwData
<1>2. CONFIRM_TMO * Cardinality(Dead(st, w)) \in Nat
  <2>1. Dead(st, w) \in SUBSET Victims
    BY DEF Dead
  <2> QED BY <2>1, ConfirmMono
<1>3. /\ w.op_step = 0 => Timeout(w.op_step) = EXCEPT_TIMEOUT
      /\ w.op_step = 1 => Timeout(w.op_step) = CONFIRM_TMO
      /\ w.op_step = 2 => Timeout(w.op_step) = RESUME_DLY
  BY DEF Timeout
<1>4. Waited(st, w) \in Nat
  BY <1>1 DEF Waited
<1> QED BY <1>1, <1>2, <1>3, <1>4, Facts DEF Spent

(* The same data stay within bounds when threads end.                         *)
LEMMA WithinMono ==
  ASSUME IsFiniteSet(Threads), NEW st, NEW st1, NEW w \in SwData, NEW s \in Nat,
         Within(st, w, s), Awake(st1) <=> Awake(st),
         \A t \in Victims : st[t] = "closed" => st1[t] = "closed"
  PROVE  Within(st1, w, s)
<1>1. Dead(st1, w) \in SUBSET Victims /\ Dead(st, w) \in SUBSET Dead(st1, w)
  BY DEF Dead
<1>2. /\ CONFIRM_TMO * Cardinality(Dead(st, w)) \in Nat
      /\ CONFIRM_TMO * Cardinality(Dead(st1, w)) \in Nat
      /\ CONFIRM_TMO * Cardinality(Dead(st, w)) <= CONFIRM_TMO * Cardinality(Dead(st1, w))
  BY <1>1, ConfirmMono
<1>3. Spent(st, w) \in Nat /\ Spent(st1, w) \in Nat /\ Spent(st, w) <= Spent(st1, w)
  <2>1. Spent(st, w) \in Nat /\ Spent(st1, w) \in Nat /\ w.op_step \in {0, 1, 2}
    BY WithinOK
  <2>2. CASE w.op_step = 0
    BY <2>1, <2>2 DEF Spent
  <2>3. CASE w.op_step = 1
    BY <2>1, <2>3, <1>2, Facts DEF Spent
  <2>4. CASE w.op_step = 2
    BY <2>1, <2>4 DEF Spent
  <2> QED BY <2>1, <2>2, <2>3, <2>4
<1>4. Waited(st1, w) = Waited(st, w) /\ Waited(st, w) \in Nat
  BY WithinOK DEF Waited
<1> QED BY <1>3, <1>4 DEF Within

(* rt_schedule with its hook keeps Within: a thread that becomes              *)
(* lowest_thread is alive, and reaching the idle thread ends the silence.     *)
LEMMA ScheduleWithin ==
  ASSUME IsFiniteSet(Threads),
         NEW st, NEW rq, NEW yields, NEW w \in SwData, NEW s \in Nat, NEW h,
         Schedulable(st, rq), Within(st, w, s), Schedule(st, rq, yields, w, s, h)
  PROVE  Within(stat', sw_data', silence')
<1>1. /\ cur \in Threads /\ st[cur] # "ready" /\ Typed(st, rq)
      /\ \A t \in Threads : st[t] = "running" => t = cur
  BY DEF Schedulable
<1>2. CASE Stays(st, rq, yields)
  BY <1>2 DEF Schedule
<1>3. CASE ~Stays(st, rq, yields)
  <2> DEFINE to == To(rq)  r == sw_data'  runs == st[cur] = "running"
  <2>1. /\ SwitchTo(To(rq), st, rq)
        /\ r = Hook(w, cur, to, runs)
        /\ silence' = IF to = Idle THEN 0 ELSE s
    BY <1>3 DEF Schedule
  <2>2. /\ to \in Threads /\ st[to] = "ready" /\ to # cur
    BY <1>3, ToOK
  <2>3. \A t \in Threads : stat'[t] = "closed" <=> st[t] = "closed"
    BY <1>3, <2>1, SwitchOK
  <2>4. Awake(stat') <=> Awake(st)
    <3>1. /\ stat' = [st EXCEPT ![cur] = IF @ = "running" THEN "ready" ELSE @, ![to] = "running"]
          /\ st \in [Threads -> Stats]
      BY <1>1, <2>1 DEF SwitchTo, Typed
    <3> HIDE DEF to
    <3> QED BY <1>1, <2>2, <3>1, Facts DEF Awake
  <2>5. runs \in BOOLEAN
    OBVIOUS
  <2>6. Prio[cur] \in Nat /\ Prio[to] \in Nat
    BY <1>1, <2>2, PrioOK
  <2> HIDE DEF to, r, runs
  <2>7. HookResult(w, cur, to, runs, r)
    BY <1>1, <2>1, <2>2, <2>5, HookOK
  <2>8. CASE to = Idle
    <3>1. Prio[cur] <= Prio[to]
      BY <1>1, <2>2, <2>6, <2>8, Facts
    <3>2. r \in SwData /\ silence' = 0 /\ silence' \in Nat
      BY <2>1, <2>7, <2>8, <3>1 DEF HookResult
    <3>3. r.sec_cnt < Timeout(r.op_step)
      <4>1. CASE w.op_step = 2
        BY <2>7, <2>8, <3>1, <4>1 DEF HookResult, Within
      <4>2. CASE w.op_step # 2
        <5>1. r = IdleReached(w)
          BY <2>1, <2>6, <2>8, <3>1 DEF Hook
        <5>2. r.sec_cnt = 0
          <6>1. CASE w.op_step = 0
            BY <5>1, <6>1 DEF IdleReached, SwData
          <6>2. CASE w.op_step = 1
            BY <5>1, <6>2 DEF IdleReached, SwData
          <6> QED BY <4>2, <6>1, <6>2, WithinOK
        <5>3. Timeout(r.op_step) \in Nat \ {0}
          BY <3>2, WithinOK, Facts
        <5> QED BY <5>2, <5>3
      <4> QED BY <4>1, <4>2
    <3>4. Spent(stat', r) \in Nat /\ Waited(stat', r) \in Nat
      BY <3>2, WithinOK
    <3> QED BY <3>2, <3>3, <3>4 DEF Within, r
  <2>9. CASE to # Idle /\ r = w
    BY <2>1, <2>3, <2>4, <2>9, WithinMono DEF Victims, r
  <2>10. CASE to # Idle /\ r # w
    <3>1. /\ w.op_step = 1 /\ r \in SwData /\ r.op_step = 1 /\ r.sec_cnt = w.sec_cnt
          /\ \/ r.lowest_thread = to
             \/ r.lowest_thread = cur /\ runs
             \/ r.lowest_thread = w.lowest_thread
      BY <2>6, <2>7, <2>10 DEF HookResult
    <3>2. Dead(stat', r) \in SUBSET Victims /\ Dead(st, w) \in SUBSET Dead(stat', r)
      BY <2>2, <2>3, <3>1 DEF Dead, Victims, runs
    <3>3. /\ CONFIRM_TMO * Cardinality(Dead(st, w)) \in Nat
          /\ CONFIRM_TMO * Cardinality(Dead(stat', r)) \in Nat
          /\ CONFIRM_TMO * Cardinality(Dead(st, w)) <= CONFIRM_TMO * Cardinality(Dead(stat', r))
      BY <3>2, ConfirmMono
    <3>4. Spent(st, w) \in Nat /\ Spent(stat', r) \in Nat /\ Spent(st, w) <= Spent(stat', r)
      BY <3>1, <3>3, WithinOK, Facts
    <3>5. Waited(stat', r) = Waited(st, w) /\ Waited(st, w) \in Nat
      BY <2>4, <3>1, WithinOK DEF Waited
    <3>6. silence' = s
      BY <2>1, <2>10
    <3> QED BY <3>1, <3>4, <3>5, <3>6 DEF Within, r
  <2> QED BY <2>8, <2>9, <2>10
<1> QED BY <1>2, <1>3

(* The step of the state machine ends with a delay: what it made of the data  *)
(* must fit the states after it.                                              *)
LEMMA SleepWithin ==
  ASSUME IsFiniteSet(Threads), NEW st, NEW rq, NEW w \in SwData, cur = Watch,
         Typed(st, rq), Queues(st, rq), st[Watch] = "running", Alive(st),
         \A t \in Threads : st[t] = "running" => t = Watch,
         silence \in Nat, Within(Asleep(st), w, silence), Sleep(st, rq, w)
  PROVE  Within(stat', sw_data', silence')
<1>1. /\ Asleep(st) \in [Threads -> Stats] /\ Asleep(st)[Watch] = "suspended"
      /\ \A u \in Threads \ {Watch} : Asleep(st)[u] = st[u]
  BY Facts DEF Asleep, Typed, Stats
<1>2. Typed(Asleep(st), rq) /\ Queues(Asleep(st), rq)
  BY Facts, StoppedOK DEF Asleep, Stats
<1>3. Schedulable(Asleep(st), rq)
  BY <1>1, <1>2, Facts DEF Schedulable, Alive
<1>4. Schedule(Asleep(st), rq, FALSE, w, silence, hogs)
  BY DEF Sleep, Asleep
<1> QED BY <1>3, <1>4, ScheduleWithin

-----------------------------------------------------------------------------
(* The invariant: the silence is accounted for.                               *)
SilenceInv == IInv /\ Within(stat, sw_data, silence)

(* When syswatch runs, it is asleep with one second less waited.              *)
LEMMA RunsWithin ==
  ASSUME IsFiniteSet(Threads), SilenceInv, cur = Watch
  PROVE  /\ sw_data.sec_cnt \in Nat /\ silence \in Nat
         /\ sw_data.op_step = 0 => silence <= RESUME_DLY + sw_data.sec_cnt + 1
         /\ sw_data.op_step = 1 => silence <= RESUME_DLY + EXCEPT_TIMEOUT
                 + CONFIRM_TMO * Cardinality(Dead(stat, sw_data)) + sw_data.sec_cnt + 1
         /\ sw_data.op_step = 2 => silence <= sw_data.sec_cnt + 1
         /\ sw_data.sec_cnt < Timeout(sw_data.op_step)
         /\ CONFIRM_TMO * Cardinality(Dead(stat, sw_data)) \in Nat
<1>1. /\ sw_data \in SwData /\ silence \in Nat /\ Awake(stat)
      /\ Within(stat, sw_data, silence)
  BY RunningOK DEF SilenceInv
<1>2. Waited(stat, sw_data) = sw_data.sec_cnt + 1
  BY <1>1 DEF Waited
<1>3. CONFIRM_TMO * Cardinality(Dead(stat, sw_data)) \in Nat
  BY ConfirmMono DEF Dead
<1> QED BY <1>1, <1>2, <1>3, WithinOK, Facts DEF Within

(* The threads of every state a step of syswatch begins in.                   *)
LEMMA WatchFacts ==
  ASSUME SilenceInv, cur = Watch
  PROVE  /\ Typed(stat, ready) /\ Queues(stat, ready) /\ stat[Watch] = "running" /\ Alive(stat)
         /\ \A t \in Threads : stat[t] = "running" => t = Watch
         /\ sw_data \in SwData /\ silence \in Nat /\ ~Awake(Asleep(stat))
         /\ \A t \in Threads : Asleep(stat)[t] = "closed" <=> stat[t] = "closed"
<1> QED BY AsleepFacts, RunningOK DEF SilenceInv

(* The actions of the threads, one lemma each.                                *)
LEMMA WakeWithin ==
  ASSUME IsFiniteSet(Threads), SilenceInv, NEW t \in Threads, Wake(t)
  PROVE  Within(stat', sw_data', silence')
<1> DEFINE st == MadeReady(stat, t)  rq == Insert(ready, t)
<1>1. t # Watch /\ stat[t] = "suspended" /\ Reschedule(st, rq, FALSE)
  BY DEF Wake
<1>2. Typed(st, rq) /\ Queues(st, rq)
  BY <1>1, RunningOK, InsertOK DEF MadeReady, SilenceInv
<1>3. /\ st \in [Threads -> Stats] /\ st[t] = "ready" /\ \A u \in Threads \ {t} : st[u] = stat[u]
  BY RunningOK DEF MadeReady, Typed, Stats, SilenceInv
<1> HIDE DEF st, rq
<1>4. Schedulable(st, rq)
  BY <1>1, <1>2, <1>3, RunningOK, Facts DEF Schedulable, Alive, SilenceInv
<1>5. /\ \A u \in Victims : stat[u] = "closed" => st[u] = "closed"
      /\ Awake(st) <=> Awake(stat)
  BY <1>1, <1>3, Facts DEF Awake, Victims
<1>6. sw_data \in SwData /\ silence \in Nat
  BY RunningOK DEF SilenceInv
<1>7. Within(st, sw_data, silence)
  BY <1>5, <1>6, WithinMono DEF SilenceInv
<1> QED BY <1>1, <1>4, <1>6, <1>7, ScheduleWithin DEF Reschedule

(* Block and Exit: the current thread gives up the CPU. One that ends is dead *)
(* from now on, as if it had been confirmed.                                  *)
LEMMA StopWithin ==
  ASSUME IsFiniteSet(Threads), SilenceInv, NEW v \in {"suspended", "closed"}, cur \in Victims,
         Reschedule([stat EXCEPT ![cur] = v], ready, FALSE)
  PROVE  Within(stat', sw_data', silence')
<1> DEFINE st == [stat EXCEPT ![cur] = v]
<1>1. Typed(st, ready) /\ Queues(st, ready)
  BY RunningOK, StoppedOK DEF Stats, SilenceInv
<1>2. st \in [Threads -> Stats] /\ st[cur] = v /\ \A u \in Threads \ {cur} : st[u] = stat[u]
  BY RunningOK DEF Typed, Stats, SilenceInv
<1>3. Reschedule(st, ready, FALSE)
  OBVIOUS
<1> HIDE DEF st
<1>4. Schedulable(st, ready)
  BY <1>1, <1>2, RunningOK, Facts DEF Schedulable, Alive, Victims, SilenceInv
<1>5. /\ \A u \in Victims : stat[u] = "closed" => st[u] = "closed"
      /\ Awake(st) <=> Awake(stat)
  BY <1>2, RunningOK, Facts DEF Awake, Victims, SilenceInv
<1>6. sw_data \in SwData /\ silence \in Nat
  BY RunningOK DEF SilenceInv
<1>7. Within(st, sw_data, silence)
  BY <1>5, <1>6, WithinMono DEF SilenceInv
<1> QED BY <1>3, <1>4, <1>6, <1>7, ScheduleWithin DEF Reschedule

(* A thread blocks.                                                           *)
LEMMA BlockWithin ==
  ASSUME IsFiniteSet(Threads), SilenceInv, Block PROVE Within(stat', sw_data', silence')
<1>1. cur \in Victims
  BY RunningOK DEF Block, Well, Victims, SilenceInv
<1> QED BY <1>1, StopWithin DEF Block

(* A thread ends.                                                             *)
LEMMA ExitWithin ==
  ASSUME IsFiniteSet(Threads), SilenceInv, Exit PROVE Within(stat', sw_data', silence')
<1>1. cur \in Victims
  BY RunningOK DEF Exit, Well, Victims, SilenceInv
<1> QED BY <1>1, StopWithin DEF Exit, Closed

(* A time slice ends: nothing but a switch.                                   *)
LEMMA SliceWithin ==
  ASSUME IsFiniteSet(Threads), SilenceInv, Slice PROVE Within(stat', sw_data', silence')
<1>1. Schedule(stat, ready, TRUE, sw_data, silence, hogs)
  BY DEF Slice, Reschedule
<1>2. Schedulable(stat, ready) /\ sw_data \in SwData /\ silence \in Nat
  BY RunningOK DEF SilenceInv
<1> QED BY <1>1, <1>2, ScheduleWithin DEF SilenceInv

(* A second ends: one more second of silence, one more waited.                *)
LEMMA SecondWithin ==
  ASSUME IsFiniteSet(Threads), SilenceInv, Second PROVE Within(stat', sw_data', silence')
<1> DEFINE st == MadeReady(stat, Watch)  rq == Insert(ready, Watch)  s == silence + 1
           h == hogs \cup ({cur} \ {Idle})
<1>1. stat[Watch] = "suspended" /\ Schedule(st, rq, FALSE, sw_data, s, h)
  BY DEF Second
<1>2. Typed(st, rq) /\ Queues(st, rq)
  BY <1>1, RunningOK, InsertOK, Facts DEF MadeReady, SilenceInv
<1>3. st \in [Threads -> Stats] /\ st[Watch] = "ready" /\ \A u \in Threads \ {Watch} : st[u] = stat[u]
  BY RunningOK, Facts DEF MadeReady, Typed, Stats, SilenceInv
<1>4. /\ sw_data \in SwData /\ silence \in Nat /\ s \in Nat /\ s = silence + 1
      /\ Within(stat, sw_data, silence)
  BY RunningOK DEF SilenceInv
<1> HIDE DEF st, rq, s, h
<1>5. Schedulable(st, rq)
  BY <1>1, <1>2, <1>3, RunningOK, Facts DEF Schedulable, Alive, SilenceInv
<1>6. ~Awake(stat) /\ Awake(st) /\ Dead(st, sw_data) = Dead(stat, sw_data)
  BY <1>1, <1>3, Facts DEF Awake, Dead, Victims
<1>7. Spent(st, sw_data) = Spent(stat, sw_data) /\ Spent(stat, sw_data) \in Nat
  BY <1>4, <1>6, WithinOK DEF Spent
<1>8. Waited(st, sw_data) = Waited(stat, sw_data) + 1 /\ Waited(stat, sw_data) \in Nat
  BY <1>4, <1>6, WithinOK DEF Waited
<1>9. Within(st, sw_data, s)
  BY <1>4, <1>7, <1>8 DEF Within
<1> QED BY <1>1, <1>4, <1>5, <1>9, ScheduleWithin

(* The steps of syswatch, one lemma each. A second is counted.                *)
LEMMA CountWithin ==
  ASSUME IsFiniteSet(Threads), SilenceInv, Count PROVE Within(stat', sw_data', silence')
<1> DEFINE w == [sw_data EXCEPT !.sec_cnt = @ + 1]
<1>1. cur = Watch /\ ~TimedOut /\ Sleep(stat, ready, w)
  BY DEF Count
<1>2. /\ w \in SwData /\ w.op_step = sw_data.op_step /\ w.sec_cnt = sw_data.sec_cnt + 1
      /\ w.lowest_thread = sw_data.lowest_thread
  BY <1>1, WatchFacts DEF SwData
<1> HIDE DEF w
<1>3. Dead(Asleep(stat), w) = Dead(stat, sw_data)
  BY <1>1, <1>2, WatchFacts DEF Dead, Victims
<1>4. Spent(Asleep(stat), w) = Spent(stat, sw_data)
  BY <1>2, <1>3 DEF Spent
<1>5. Waited(Asleep(stat), w) = Waited(stat, sw_data)
  <2>1. Awake(stat) /\ ~Awake(Asleep(stat))
    BY <1>1, WatchFacts DEF Awake
  <2>2. sw_data.sec_cnt \in Nat
    BY <1>1, RunsWithin
  <2> QED BY <1>2, <2>1, <2>2 DEF Waited
<1>6. w.sec_cnt < Timeout(w.op_step)
  <2>1. Timeout(sw_data.op_step) \in Nat /\ sw_data.sec_cnt \in Nat
    BY <1>1, WatchFacts, WithinOK, Facts
  <2> QED BY <1>1, <1>2, <2>1 DEF TimedOut
<1>7. Within(Asleep(stat), w, silence)
  BY <1>4, <1>5, <1>6 DEF Within, SilenceInv
<1> QED BY <1>1, <1>2, <1>7, WatchFacts, SleepWithin

(* The search begins: the detection is spent.                                 *)
LEMMA SuspectWithin ==
  ASSUME IsFiniteSet(Threads), SilenceInv, Suspect PROVE Within(stat', sw_data', silence')
<1> DEFINE w == [sw_data EXCEPT !.sec_cnt = 0, !.op_step = 1, !.lowest_thread = None]
<1>1. cur = Watch /\ TimedOut /\ sw_data.op_step = 0 /\ Sleep(stat, ready, w)
  BY SMTT(30) DEF Suspect
<1>2. w \in SwData
  BY <1>1, WatchFacts, FieldsOK
<1>3. w.op_step = 1 /\ w.sec_cnt = 0
  BY <1>1, WatchFacts DEF SwData
<1> HIDE DEF w
<1>4. silence <= RESUME_DLY + EXCEPT_TIMEOUT
  BY <1>1, RunsWithin, WatchFacts, WithinOK, Facts
<1>5. CONFIRM_TMO * Cardinality(Dead(Asleep(stat), w)) \in Nat
  BY ConfirmMono DEF Dead
<1>6. ~Awake(Asleep(stat)) /\ silence \in Nat
  BY <1>1, WatchFacts
<1>7. Waited(Asleep(stat), w) = 0
  BY <1>3, <1>6 DEF Waited
<1>8. Within(Asleep(stat), w, silence)
  BY <1>2, <1>3, <1>4, <1>5, <1>6, <1>7, WithinOK, Facts DEF Within
<1> QED BY <1>1, <1>2, <1>8, WatchFacts, SleepWithin

(* The loop that resumes ends: the silence fits into the resume delay.        *)
LEMMA ResumeEndsWithin ==
  ASSUME IsFiniteSet(Threads), SilenceInv, ResumeEnds PROVE Within(stat', sw_data', silence')
<1> DEFINE w == [sw_data EXCEPT !.sec_cnt = 0, !.op_step = 0]
<1>1. cur = Watch /\ sw_data.op_step = 2 /\ Sleep(stat, ready, w)
  BY SMTT(30) DEF ResumeEnds
<1>2. w \in SwData
  BY <1>1, WatchFacts, FieldsOK
<1>3. w.op_step = 0 /\ w.sec_cnt = 0
  BY <1>1, WatchFacts DEF SwData
<1> HIDE DEF w
<1>4. silence <= RESUME_DLY
  BY <1>1, RunsWithin, WatchFacts, WithinOK, Facts
<1>5. ~Awake(Asleep(stat)) /\ silence \in Nat
  BY <1>1, WatchFacts
<1>6. Waited(Asleep(stat), w) = 0
  BY <1>3, <1>5 DEF Waited
<1>7. Within(Asleep(stat), w, silence)
  BY <1>2, <1>3, <1>4, <1>5, <1>6, WithinOK, Facts DEF Within
<1> QED BY <1>1, <1>2, <1>7, WatchFacts, SleepWithin

(* A confirmation ends: its seconds are spent, and its thread is dead.        *)
LEMMA ResolveWithin ==
  ASSUME IsFiniteSet(Threads), SilenceInv, Resolve PROVE Within(stat', sw_data', silence')
<1> DEFINE t == sw_data.lowest_thread
<1>1. /\ cur = Watch /\ sw_data.op_step = 1
      /\ \/ Kill(t, [Resolved EXCEPT !.wait_resume_slist = Append(@, t)])
         \/ Kill(t, Resolved)
  BY DEF Resolve
<1>2. t \in Victims /\ t \in Threads /\ t # Watch /\ t # Idle
  BY ResolveOK DEF SilenceInv, Victims
<1>3. PICK w : /\ w \in {Resolved, [Resolved EXCEPT !.wait_resume_slist = Append(@, t)]}
               /\ Kill(t, w)
  BY <1>1
<1>4. w \in SwData /\ w.op_step = 1 /\ w.sec_cnt = 0 /\ w.lowest_thread = None
  <2>1. sw_data \in SwData /\ sw_data.wait_resume_slist \in Seq(Threads)
    BY <1>1, WatchFacts, AsleepFacts DEF SilenceInv
  <2>2. /\ Resolved \in SwData /\ Resolved.op_step = 1 /\ Resolved.sec_cnt = 0
        /\ Resolved.lowest_thread = None
        /\ Resolved.wait_resume_slist = sw_data.wait_resume_slist
    BY <1>1, <2>1, FieldsOK DEF Resolved, SwData
  <2>3. Append(sw_data.wait_resume_slist, t) \in Seq(Threads)
    BY <1>2, <2>1, AppendProperties
  <2>4. PICK r : r = Resolved
    OBVIOUS
  <2>5. CASE w = r
    BY <2>2, <2>4, <2>5
  <2>6. CASE w = [r EXCEPT !.wait_resume_slist = Append(@, t)]
    BY <2>2, <2>3, <2>4, <2>6 DEF SwData
  <2> QED BY <1>3, <2>4, <2>5, <2>6
<1> DEFINE st == [stat EXCEPT ![t] = "closed"]
           rq == IF stat[t] = "closed" THEN ready ELSE Remove(ready, t)
<1>5. /\ st \in [Threads -> Stats] /\ st[t] = "closed"
      /\ \A u \in Threads \ {t} : st[u] = stat[u]
  BY <1>1, <1>2, WatchFacts DEF Typed, Stats
<1>6. Sleep(st, rq, w) /\ Typed(st, rq) /\ Queues(st, rq)
  <2>1. CASE stat[t] = "closed"
    <3>1. st = stat
      BY <2>1, <1>1, <1>2, WatchFacts DEF Typed
    <3> HIDE DEF st
    <3> QED BY <2>1, <3>1, <1>1, <1>3, WatchFacts DEF Kill
  <2>2. CASE stat[t] # "closed"
    BY <2>2, <1>1, <1>2, <1>3, WatchFacts, RemoveOK DEF Kill, Closed
  <2> QED BY <2>1, <2>2
<1> HIDE DEF st, rq
<1>7. /\ st[Watch] = "running" /\ Alive(st)
      /\ \A u \in Threads : st[u] = "running" => u = Watch
  BY <1>1, <1>2, <1>5, WatchFacts, Facts DEF Alive
<1>8. \A u \in Victims : Asleep(st)[u] = st[u]
  BY <1>5, Facts DEF Asleep, Victims
<1>9. /\ Dead(Asleep(st), w) \in SUBSET Victims
      /\ Dead(stat, sw_data) \in SUBSET Dead(Asleep(st), w)
      /\ t \in Dead(Asleep(st), w) /\ t \notin Dead(stat, sw_data)
  BY <1>2, <1>4, <1>5, <1>8, Facts DEF Dead, Victims
<1>10. CONFIRM_TMO * Cardinality(Dead(stat, sw_data)) + CONFIRM_TMO
         <= CONFIRM_TMO * Cardinality(Dead(Asleep(st), w))
  BY <1>9, ConfirmMore
<1>11. CONFIRM_TMO * Cardinality(Dead(Asleep(st), w)) \in Nat
  BY <1>9, ConfirmMono
<1>12. silence <= RESUME_DLY + EXCEPT_TIMEOUT + CONFIRM_TMO * Cardinality(Dead(stat, sw_data))
                  + CONFIRM_TMO
  <2>1. PICK n : n = CONFIRM_TMO * Cardinality(Dead(stat, sw_data))
    OBVIOUS
  <2>2. /\ n \in Nat /\ sw_data.sec_cnt \in Nat /\ silence \in Nat
        /\ silence <= RESUME_DLY + EXCEPT_TIMEOUT + n + sw_data.sec_cnt + 1
        /\ sw_data.sec_cnt < Timeout(sw_data.op_step)
    BY <1>1, <2>1, RunsWithin
  <2>3. Timeout(sw_data.op_step) = CONFIRM_TMO
    BY <1>1, WatchFacts, WithinOK
  <2>4. silence <= RESUME_DLY + EXCEPT_TIMEOUT + n + CONFIRM_TMO
    BY <2>2, <2>3, Facts
  <2> QED BY <2>1, <2>4
<1>13. ~Awake(Asleep(st))
  BY <1>5, Facts DEF Awake, Asleep
<1>14. Waited(Asleep(st), w) = 0
  BY <1>4, <1>13 DEF Waited
<1>15. silence \in Nat /\ CONFIRM_TMO * Cardinality(Dead(stat, sw_data)) \in Nat
  BY <1>1, RunsWithin
<1>16. Within(Asleep(st), w, silence)
  BY <1>4, <1>10, <1>11, <1>12, <1>14, <1>15, WithinOK, Facts DEF Within
<1> QED BY <1>1, <1>4, <1>6, <1>7, <1>15, <1>16, SleepWithin

(* While syswatch resumes threads, nobody counts.                             *)
LEMMA ResumeWithin ==
  ASSUME IsFiniteSet(Threads), SilenceInv, Resume PROVE Within(stat', sw_data', silence')
<1>1. /\ cur = Watch /\ cur' = Watch /\ sw_data.op_step = 2 /\ silence' = silence
      /\ sw_data' = [sw_data EXCEPT !.wait_resume_slist = Tail(@)]
  BY DEF Resume
<1>2. sw_data'.op_step = 2 /\ sw_data'.sec_cnt = sw_data.sec_cnt
  BY <1>1, WatchFacts DEF SwData
<1>3. sw_data' \in SwData /\ Awake(stat')
  <2>1. IInv'
    BY ResumeOK DEF SilenceInv
  <2>2. sw_data' \in SwData /\ stat'[Watch] = "running"
    BY <1>1, <2>1, Facts DEF IInv, Data, Switched
  <2> QED BY <2>2 DEF Awake
<1>4. silence \in Nat /\ silence <= sw_data.sec_cnt + 1 /\ sw_data.sec_cnt < RESUME_DLY
  BY <1>1, RunsWithin, WatchFacts, WithinOK
<1>5. Waited(stat', sw_data') = sw_data.sec_cnt + 1
  BY <1>2, <1>3 DEF Waited
<1>6. Spent(stat', sw_data') = 0 /\ Timeout(sw_data'.op_step) = RESUME_DLY
  BY <1>2, <1>3 DEF Spent, Timeout
<1>7. silence' <= Spent(stat', sw_data') + Waited(stat', sw_data')
  BY <1>1, <1>4, <1>5, <1>6, RunsWithin
<1>8. sw_data'.sec_cnt < Timeout(sw_data'.op_step)
  BY <1>2, <1>4, <1>6
<1> QED BY <1>7, <1>8 DEF Within

-----------------------------------------------------------------------------
(* The invariant holds initially and is inductive.                            *)
LEMMA InitSilence == ASSUME IsFiniteSet(Threads), Init PROVE SilenceInv
<1>1. IInv
  BY InitOK
<1>2. sw_data \in SwData /\ sw_data.op_step = 0 /\ sw_data.sec_cnt = 0 /\ silence = 0
  BY DEF Init, SwData
<1>3. silence \in Nat
  BY <1>2
<1>4. /\ Spent(stat, sw_data) \in Nat /\ Waited(stat, sw_data) \in Nat
      /\ Timeout(sw_data.op_step) = EXCEPT_TIMEOUT
  BY <1>2, <1>3, WithinOK
<1> QED BY <1>1, <1>2, <1>4, Facts DEF SilenceInv, Within

(* Every step keeps the invariant.                                            *)
LEMMA NextSilence == ASSUME IsFiniteSet(Threads), SilenceInv, [Next]_vars PROVE SilenceInv'
<1>1. IInv'
  BY NextOK DEF SilenceInv
<1>2. Within(stat', sw_data', silence')
  <2>1. CASE \E t \in Threads : Wake(t)
    BY <2>1, WakeWithin
  <2>2. CASE Block \/ Exit \/ Slice \/ Second
    BY <2>2, BlockWithin, ExitWithin, SliceWithin, SecondWithin
  <2>3. CASE Hang \/ IdleFrees
    BY <2>3 DEF Hang, IdleFrees, kernel, SilenceInv
  <2>4. CASE Fsm
    BY <2>4, CountWithin, SuspectWithin, ResolveWithin, ResumeWithin, ResumeEndsWithin DEF Fsm
  <2>5. CASE UNCHANGED vars
    BY <2>5 DEF vars, kernel, SilenceInv
  <2> QED BY <2>1, <2>2, <2>3, <2>4, <2>5 DEF Next
<1> QED BY <1>1, <1>2 DEF SilenceInv

(* In step 1 lowest_thread is not dead for the count, so that there is always *)
(* room for the confirmation that runs.                                       *)
LEMMA SilenceEnds == ASSUME IsFiniteSet(Threads), SilenceInv PROVE SilenceBounded
<1> DEFINE w == sw_data  D == Dead(stat, w)  all == CONFIRM_TMO * Cardinality(Victims)
<1>1. w \in SwData /\ silence \in Nat /\ Within(stat, w, silence)
  BY RunningOK DEF SilenceInv
<1>2. w.sec_cnt \in Nat /\ w.sec_cnt < Timeout(w.op_step) /\ w.op_step \in {0, 1, 2}
      /\ Waited(stat, w) \in Nat /\ Waited(stat, w) <= w.sec_cnt + 1
  BY <1>1, WithinOK DEF Within, Waited
<1>3. D \in SUBSET Victims /\ all \in Nat
  BY ConfirmMono DEF Dead
<1> HIDE DEF D, all
<1>4. silence <= RESUME_DLY + EXCEPT_TIMEOUT + all
  <2>1. CASE w.op_step = 0
    BY <2>1, <1>1, <1>2, <1>3, WithinOK, Facts DEF Within
  <2>2. CASE w.op_step = 1
    <3>1. w.lowest_thread \in Victims /\ w.lowest_thread \notin D
      BY <2>2 DEF SilenceInv, IInv, Data, LowOK, D, Dead
    <3>2. CONFIRM_TMO * Cardinality(D) + CONFIRM_TMO <= all
      BY <1>3, <3>1, ConfirmMore DEF all
    <3>3. CONFIRM_TMO * Cardinality(D) \in Nat
      BY <1>3, ConfirmMono
    <3>4. silence <= RESUME_DLY + EXCEPT_TIMEOUT + CONFIRM_TMO * Cardinality(D) + Waited(stat, w)
      BY <2>2, <1>1, WithinOK DEF Within, D
    <3>5. Waited(stat, w) <= CONFIRM_TMO
      BY <2>2, <1>1, <1>2, WithinOK, Facts
    <3> QED BY <1>1, <1>2, <1>3, <3>2, <3>3, <3>4, <3>5, Facts
  <2>3. CASE w.op_step = 2
    BY <2>3, <1>1, <1>2, <1>3, WithinOK, Facts DEF Within
  <2> QED BY <1>2, <2>1, <2>2, <2>3
<1> QED BY <1>4 DEF SilenceBounded, Victims, all

(* Whatever the threads do, and however many there are, the idle thread is    *)
(* out of reach for no longer than SilenceBounded says: the killing of        *)
(* syswatch_thread_except_resolve always makes progress.                      *)
THEOREM SilenceHasAnEnd == ASSUME IsFiniteSet(Threads) PROVE Spec => []SilenceBounded
<1>1. Init => SilenceInv
  BY InitSilence
<1>2. SilenceInv /\ [Next]_vars => SilenceInv'
  BY NextSilence
<1>3. SilenceInv => SilenceBounded
  BY SilenceEnds
<1> QED BY <1>1, <1>2, <1>3, PTL DEF Spec
=============================================================================
