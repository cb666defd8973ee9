------------------------------ MODULE Syswatch -------------------------------
(* syswatch.c in mode 2 on the scheduler of the kernel. Every second the       *)
(* syswatch thread, which has the highest priority, feeds the hardware         *)
(* watchdog and takes a step of its state machine; the scheduler calls its     *)
(* hook on every switch. When the idle thread was not reached for              *)
(* EXCEPT_TIMEOUT seconds, the hook looks for the lowest thread that is        *)
(* switched to; every CONFIRM_TMO seconds that thread is saved and killed      *)
(* until the idle thread is reached again, and RESUME_DLY seconds later every  *)
(* saved thread is created anew.                                               *)
(*                                                                             *)
(* The second is what the timers of the kernel give; a step of a thread is     *)
(* what it does between two calls of the scheduler.                            *)
EXTENDS Scheduler, FiniteSets

CONSTANTS
  Watch,            \* the syswatch thread
  None,             \* RT_NULL
  EXCEPT_TIMEOUT, CONFIRM_TMO, RESUME_DLY,    \* seconds
  Ends,             \* the threads whose entry function may return
  Overload,         \* whether a thread that is well may still run at the end of a second
  MaxFails          \* bound: how many allocations of syswatch may fail

ASSUME SyswatchAssumption ==
  /\ Watch \in Threads \ {Idle}
  /\ \A t \in Threads \ {Watch} : Prio[Watch] < Prio[t]
  /\ None \notin Threads
  /\ EXCEPT_TIMEOUT \in Nat \ {0} /\ CONFIRM_TMO \in Nat \ {0} /\ RESUME_DLY \in Nat \ {0}
  /\ Ends \subseteq Threads \ {Watch, Idle}
  /\ Overload \in BOOLEAN /\ MaxFails \in Nat

VARIABLES
  sw_data,  \* sec_cnt, op_step, lowest_thread, wait_resume_slist
  hung,     \* the threads that will never again block, end or yield by themselves
  lost,     \* the threads there was no memory for, to save or to create them
  silence,  \* seconds since the idle thread was last switched to
  hogs,     \* the threads that were running at the end of one of these seconds
  fresh     \* without Overload: the threads woken in this second, after syswatch slept

vars == <<kernel, sw_data, hung, lost, silence, hogs, fresh>>

SwData == [sec_cnt : Nat, op_step : 0..2, lowest_thread : Threads \cup {None},
           wait_resume_slist : Seq(Threads)]

TypeOK ==
  /\ KernelTypeOK
  /\ sw_data \in SwData
  /\ hung \subseteq Threads \ {Watch, Idle}
  /\ lost \subseteq Threads \ {Watch, Idle}
  /\ silence \in Nat
  /\ hogs \subseteq Threads /\ fresh \subseteq Threads

-----------------------------------------------------------------------------
(* syswatch_thread_switch_hook. w is sw_data before the call; the hook runs    *)
(* before from is put back, so that runs tells whether from still wants the    *)
(* CPU: it was preempted or its time slice is over.                            *)
IdleReachedForgets(w) ==    \* mutant: the saved threads are not looked for
  IF w.op_step = 2 THEN w ELSE [w EXCEPT !.sec_cnt = 0, !.op_step = 0]
IdleReachedKeeps(w) ==      \* mutant: the seconds before the last visit count
  IF w.op_step = 1
  THEN [w EXCEPT !.sec_cnt = 0, !.op_step = IF w.wait_resume_slist = <<>> THEN 0 ELSE 2]
  ELSE w
IdleReached(w) ==
  CASE w.op_step = 0 -> [w EXCEPT !.sec_cnt = 0]
    [] w.op_step = 1 -> [w EXCEPT !.sec_cnt = 0,
                                  !.op_step = IF w.wait_resume_slist = <<>> THEN 0 ELSE 2]
    [] OTHER -> w

LowestIsHighest(low, from, to, runs) ==    \* mutant: the comparison the wrong way round
  IF low = None \/ Prio[to] < Prio[low] THEN to ELSE low
Lowest(low, from, to, runs) ==
  CASE low = None -> to
    [] low # None /\ Prio[to] > Prio[low] -> to
    [] low # None /\ Prio[to] = Prio[low] /\ Prio[to] = Prio[from] /\ runs -> from
    [] OTHER -> low

Hook(w, from, to, runs) ==
  CASE Prio[from] > Prio[to] -> w
    [] Prio[from] <= Prio[to] /\ to = Idle -> IdleReached(w)
    [] Prio[from] <= Prio[to] /\ to # Idle /\ w.op_step = 1 ->
         [w EXCEPT !.lowest_thread = Lowest(@, from, to, runs)]
    [] OTHER -> w

(* rt_schedule with its hook, called with the states st and the queues rq.     *)
(* s and h are silence and hogs before a switch to the idle thread ends them.  *)
Schedule(st, rq, yields, w, s, h) ==
  \/ /\ Stays(st, rq, yields)
     /\ cur' = cur /\ stat' = st /\ ready' = rq /\ sw_data' = w
     /\ silence' = s /\ hogs' = h
  \/ /\ ~Stays(st, rq, yields)
     /\ SwitchTo(To(rq), st, rq)
     /\ sw_data' = Hook(w, cur, To(rq), st[cur] = "running")
     /\ silence' = IF To(rq) = Idle THEN 0 ELSE s
     /\ hogs' = IF To(rq) = Idle THEN {} ELSE h

Reschedule(st, rq, yields) == Schedule(st, rq, yields, sw_data, silence, hogs)

-----------------------------------------------------------------------------
(* The threads. What one does between two switches does not matter; whether it *)
(* blocks, ends, uses up its time slice or hangs does.                         *)

(* Its timeout ends or what it waits for arrives: _thread_timeout from the     *)
(* tick interrupt, rt_thread_resume.                                           *)
Wake(t) ==
  /\ t # Watch /\ stat[t] = "suspended"
  /\ Reschedule(MadeReady(stat, t), Insert(ready, t), FALSE)
  /\ fresh' = IF Overload \/ cur = Watch THEN fresh ELSE fresh \cup {t}
  /\ UNCHANGED <<defunct, hung, lost>>

Well == cur \notin hung \cup {Watch, Idle}

(* rt_thread_suspend and rt_schedule: a delay, a wait for a semaphore.         *)
Block ==
  /\ Well
  /\ Reschedule([stat EXCEPT ![cur] = "suspended"], ready, FALSE)
  /\ UNCHANGED <<defunct, hung, lost, fresh>>

(* The entry function returns: _thread_exit.                                   *)
Exit ==
  /\ Well /\ cur \in Ends
  /\ defunct' = defunct \cup {cur}
  /\ Reschedule(Closed(stat, cur), ready, FALSE)
  /\ UNCHANGED <<hung, lost, fresh>>

(* The tick that ends the time slice of the current thread: rt_tick_increase.  *)
Slice ==
  /\ ready[Prio[cur]] # <<>>
  /\ Reschedule(stat, ready, TRUE)
  /\ UNCHANGED <<defunct, hung, lost, fresh>>

(* The thread enters a loop it never leaves.                                   *)
Hang ==
  /\ Well
  /\ hung' = hung \cup {cur}
  /\ UNCHANGED <<kernel, sw_data, lost, silence, hogs, fresh>>

(* rt_defunct_execute: the idle thread frees every closed thread.              *)
IdleFrees ==
  /\ cur = Idle /\ defunct # {}
  /\ defunct' = {}
  /\ UNCHANGED <<stat, ready, cur, sw_data, hung, lost, silence, hogs, fresh>>

-----------------------------------------------------------------------------
(* Without Overload, threads that are well are done within the second: at its  *)
(* end one that hangs or the idle thread runs, and behind it wait at most      *)
(* threads that hang and threads that were just woken, since a time slice is   *)
(* much shorter than a second.                                                 *)
InTime ==
  /\ cur \in hung \cup {Idle}
  /\ \A i \in 1..Len(ready[Prio[cur]]) : ready[Prio[cur]][i] \in hung \cup fresh

(* syswatch_thread_entry: rt_thread_delay(RT_TICK_PER_SECOND) ends.            *)
Second ==
  /\ stat[Watch] = "suspended"
  /\ Overload \/ InTime
  /\ fresh' = {}
  /\ Schedule(MadeReady(stat, Watch), Insert(ready, Watch), FALSE, sw_data,
              silence + 1, hogs \cup ({cur} \ {Idle}))
  /\ UNCHANGED <<defunct, hung, lost>>

(* syswatch_check_timeout.                                                     *)
Timeout(step) == <<EXCEPT_TIMEOUT, CONFIRM_TMO, RESUME_DLY>>[step + 1]
TimedOut == sw_data.sec_cnt + 1 >= Timeout(sw_data.op_step)

(* The next delay begins, in the states st and with the queues rq.             *)
Sleep(st, rq, w) ==
  Schedule([st EXCEPT ![Watch] = "suspended"], rq, FALSE, w, silence, hogs)

Count ==
  /\ cur = Watch /\ ~TimedOut
  /\ Sleep(stat, ready, [sw_data EXCEPT !.sec_cnt = @ + 1])
  /\ UNCHANGED <<defunct, hung, lost, fresh>>

(* Step 0: the idle thread was not reached in time, the search begins.         *)
SuspectStale ==    \* mutant: the pointer of the last search is kept
  /\ cur = Watch /\ TimedOut /\ sw_data.op_step = 0
  /\ Sleep(stat, ready, [sw_data EXCEPT !.sec_cnt = 0, !.op_step = 1])
  /\ UNCHANGED <<defunct, hung, lost, fresh>>

Suspect ==
  /\ cur = Watch /\ TimedOut /\ sw_data.op_step = 0
  /\ Sleep(stat, ready, [sw_data EXCEPT !.sec_cnt = 0, !.op_step = 1, !.lowest_thread = None])
  /\ UNCHANGED <<defunct, hung, lost, fresh>>

(* Step 1: syswatch_thread_except_resolve saves and kills lowest_thread. When  *)
(* there is no memory for the message, it is killed all the same. The code     *)
(* returns early when lowest_thread is RT_NULL or syswatch; by NoDangling it   *)
(* never is.                                                                   *)
ResolvedWaits == [sw_data EXCEPT !.sec_cnt = 0, !.op_step = 0]    \* mutant: one kill per detection
Resolved == [sw_data EXCEPT !.sec_cnt = 0, !.lowest_thread = None]

Kill(t, w) ==
  /\ hung' = hung \ {t}
  /\ \/ /\ stat[t] = "closed"
        /\ Sleep(stat, ready, w)
        /\ UNCHANGED defunct
     \/ /\ stat[t] # "closed"
        /\ defunct' = defunct \cup {t}
        /\ Sleep(Closed(stat, t), Remove(ready, t), w)

Resolve ==
  /\ cur = Watch /\ TimedOut /\ sw_data.op_step = 1
  /\ UNCHANGED fresh
  /\ LET t == sw_data.lowest_thread
     IN  \/ /\ Kill(t, [Resolved EXCEPT !.wait_resume_slist = Append(@, t)])
            /\ UNCHANGED lost
         \/ /\ Cardinality(lost) < MaxFails /\ lost' = lost \cup {t}
            /\ Kill(t, Resolved)

(* Step 2: syswatch_thread_except_resolve_resume_all, one round for every      *)
(* message of the list, and the end of the loop.                               *)
ResumeGivesUp ==    \* mutant: a failure ends the loop, and the other messages are freed
  /\ cur = Watch /\ TimedOut /\ sw_data.op_step = 2
  /\ sw_data.wait_resume_slist # <<>>
  /\ LET t == Head(sw_data.wait_resume_slist)
     IN  \/ /\ stat' = MadeReady(stat, t)
            /\ ready' = Insert(ready, t)
            /\ sw_data' = [sw_data EXCEPT !.wait_resume_slist = Tail(@)]
            /\ UNCHANGED lost
         \/ /\ Cardinality(lost) < MaxFails /\ lost' = lost \cup {t}
            /\ sw_data' = [sw_data EXCEPT !.wait_resume_slist = <<>>]
            /\ UNCHANGED <<stat, ready>>
  /\ UNCHANGED <<cur, defunct, hung, silence, hogs, fresh>>

Resume ==
  /\ cur = Watch /\ TimedOut /\ sw_data.op_step = 2
  /\ sw_data.wait_resume_slist # <<>>
  /\ sw_data' = [sw_data EXCEPT !.wait_resume_slist = Tail(@)]
  /\ LET t == Head(sw_data.wait_resume_slist)
     IN  \/ /\ stat' = MadeReady(stat, t)
            /\ ready' = Insert(ready, t)
            /\ UNCHANGED lost
         \/ /\ Cardinality(lost) < MaxFails /\ lost' = lost \cup {t}
            /\ UNCHANGED <<stat, ready>>
  /\ UNCHANGED <<cur, defunct, hung, silence, hogs, fresh>>

ResumeEnds ==
  /\ cur = Watch /\ TimedOut /\ sw_data.op_step = 2
  /\ sw_data.wait_resume_slist = <<>>
  /\ Sleep(stat, ready, [sw_data EXCEPT !.sec_cnt = 0, !.op_step = 0])
  /\ UNCHANGED <<defunct, hung, lost, fresh>>

Fsm == Count \/ Suspect \/ Resolve \/ Resume \/ ResumeEnds

-----------------------------------------------------------------------------
(* Every thread waits for its first event; syswatch is in its first delay.     *)
Init ==
  /\ stat = [t \in Threads |-> IF t = Idle THEN "running" ELSE "suspended"]
  /\ ready = [p \in Priorities |-> <<>>]
  /\ cur = Idle
  /\ defunct = {}
  /\ sw_data = [sec_cnt |-> 0, op_step |-> 0, lowest_thread |-> None,
                wait_resume_slist |-> <<>>]
  /\ hung = {} /\ lost = {} /\ silence = 0 /\ hogs = {} /\ fresh = {}

Next ==
  \/ \E t \in Threads : Wake(t)
  \/ Block \/ Exit \/ Slice \/ Hang \/ IdleFrees
  \/ Second
  \/ Fsm

(* The tick interrupt never stops and the syswatch thread has the highest      *)
(* priority: seconds end and their work is done. Nothing is assumed of the     *)
(* other threads.                                                              *)
Fairness == WF_vars(Second) /\ WF_vars(Fsm)

Spec == Init /\ [][Next]_vars /\ Fairness
-----------------------------------------------------------------------------
(* The queues and the states of the threads agree: the current thread runs, a  *)
(* thread is ready exactly when it is in the queue of its priority, there      *)
(* once, and no ready thread has a higher priority than the current one. What  *)
(* threads and syswatch do to each other (kill, resume, wake) never breaks it. *)
SchedulerOK ==
  /\ \A t \in Threads :
       /\ stat[t] = "running" <=> t = cur
       /\ stat[t] = "ready" => \E i \in 1..Len(ready[Prio[t]]) : ready[Prio[t]][i] = t
  /\ \A p \in Priorities : \A i \in 1..Len(ready[p]) :
       /\ stat[ready[p][i]] = "ready" /\ Prio[ready[p][i]] = p /\ Prio[cur] <= p
       /\ \A j \in 1..i-1 : ready[p][j] # ready[p][i]

(* The hook and the state machine agree: a thread is in the list only between  *)
(* its death and its resurrection, never twice; the list is empty while no     *)
(* exception is known, and once the resume delay runs it has someone to        *)
(* resume. No killed thread is forgotten in the list, none is created twice.   *)
ListMatchesStep ==
  LET list == sw_data.wait_resume_slist
  IN  /\ sw_data.op_step = 0 => list = <<>>
      /\ sw_data.op_step = 2 /\ cur # Watch => list # <<>>
      /\ \A i, j \in 1..Len(list) : stat[list[i]] = "closed" /\ (list[i] = list[j] => i = j)

(* lowest_thread, a pointer that is kept over many switches, is dereferenced   *)
(* by the hook and by the kill only while its object exists: the idle thread,  *)
(* which frees objects, is not reached while the pointer is in use. When a     *)
(* confirmation ends it points to a thread that may be killed.                 *)
NoDangling ==
  LET low == sw_data.lowest_thread
  IN  sw_data.op_step = 1 =>
        /\ low # None => stat[low] # "closed" \/ low \in defunct
        /\ cur # Watch \/ TimedOut => low \in Threads \ {Watch, Idle}

(* Whatever the threads do, the time without the idle thread has an end:       *)
(* the detection, at most one confirmation for every thread, and a resume      *)
(* delay that was running when the silence began.                              *)
SilenceBounded ==
  silence <= RESUME_DLY + EXCEPT_TIMEOUT + CONFIRM_TMO * Cardinality(Threads \ {Watch, Idle})

Killed(t) == cur = Watch /\ stat[t] # "closed" /\ stat'[t] = "closed"

(* Nobody is killed unless the idle thread was out of reach for the whole      *)
(* detection and confirmation time: a late visit of the idle thread, in any    *)
(* step of the state machine, always starts the count again.                   *)
KillsAfterSilence ==
  [][\A t \in Threads : Killed(t) => silence >= EXCEPT_TIMEOUT + CONFIRM_TMO]_vars

(* A killed thread has at most the priority of some thread that was running    *)
(* at the end of a second without idle: threads above every hog are spared,    *)
(* also when they preempt it, yield, or were the first to be noticed.          *)
SparesHigher ==
  [][\A t \in Threads : Killed(t) => \E h \in hogs : Prio[h] <= Prio[t]]_vars

(* Every saved thread comes back, unless there was no memory to create that    *)
(* very thread: when one allocation fails, all the others are still resumed.   *)
ComesBack ==
  \A t \in Threads \ {Watch, Idle} :
    (\E i \in 1..Len(sw_data.wait_resume_slist) : sw_data.wait_resume_slist[i] = t)
      ~> (stat[t] # "closed" \/ t \in lost)

(* readme.md of syswatch: it detects and confirms which thread blocks          *)
(* abnormally. The thread it kills is one that hangs.                          *)
KillsOnlyHung == [][\A t \in Threads : Killed(t) => t \in hung]_vars
=============================================================================
