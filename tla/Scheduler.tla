------------------------------ MODULE Scheduler ------------------------------
(* The part of the RT-Thread kernel that syswatch and quick_led rely on, on    *)
(* one CPU: the state of every thread, one FIFO queue of ready threads per     *)
(* priority and rt_schedule (scheduler.c), and the list of closed threads that *)
(* wait for the idle thread to free them (thread.c, idle.c).                   *)
(*                                                                             *)
(* Smaller numbers are higher priorities. Threads share no mutex here, so that *)
(* current_priority is the priority a thread was created with.                 *)
EXTENDS Integers, Sequences

CONSTANTS
  Threads,    \* the threads, with the idle thread
  Prio,       \* their priorities: [Threads -> Nat]
  Idle        \* the idle thread

ASSUME ThreadsAssumption ==
  /\ Idle \in Threads
  /\ Prio \in [Threads -> Nat]
  /\ \A t \in Threads \ {Idle} : Prio[t] < Prio[Idle]

VARIABLES
  stat,     \* rt_thread.stat of every thread: what it was last seen doing
  ready,    \* rt_thread_priority_table: the ready threads of every priority, oldest first
  cur,      \* rt_current_thread
  defunct   \* _rt_thread_defunct: the closed threads that were not freed yet

kernel == <<stat, ready, cur, defunct>>

Priorities == {Prio[t] : t \in Threads}
Stats == {"running", "ready", "suspended", "closed"}

KernelTypeOK ==
  /\ stat \in [Threads -> Stats]
  /\ ready \in [Priorities -> Seq(Threads)]
  /\ cur \in Threads
  /\ defunct \subseteq Threads

-----------------------------------------------------------------------------
(* rt_schedule_insert_thread: always behind the threads of its priority.       *)
Insert(rq, t) == [rq EXCEPT ![Prio[t]] = Append(@, t)]

(* rt_schedule_remove_thread of a thread that may be anywhere in its queue.    *)
Without(s, t) ==
  IF \E i \in 1..Len(s) : s[i] = t
  THEN LET i == CHOOSE i \in 1..Len(s) : s[i] = t
       IN  SubSeq(s, 1, i - 1) \o SubSeq(s, i + 1, Len(s))
  ELSE s

RemoveNothing(rq, t) == rq    \* mutant: a killed thread stays in its queue
Remove(rq, t) == [rq EXCEPT ![Prio[t]] = Without(@, t)]

(* _scheduler_get_highest_priority_thread: the head of the first queue that    *)
(* is not empty.                                                               *)
Waiting(rq) == {p \in Priorities : rq[p] # <<>>}
Highest(rq) == CHOOSE p \in Waiting(rq) : \A q \in Waiting(rq) : p <= q

(* rt_schedule goes on with the current thread when no thread is ready, or     *)
(* when it is still running and no ready thread has a higher priority, or the  *)
(* same one after the current thread yielded.                                  *)
Stays(st, rq, yields) ==
  \/ Waiting(rq) = {}
  \/ /\ st[cur] = "running"
     /\ \/ Prio[cur] < Highest(rq)
        \/ Prio[cur] = Highest(rq) /\ ~yields

To(rq) == Head(rq[Highest(rq)])

(* The switch: a thread that is still running goes back to its queue, the next *)
(* one leaves it. The hook between has seen the old stat of cur.               *)
Requeued(st, rq) == IF st[cur] = "running" THEN Insert(rq, cur) ELSE rq

SwitchTo(to, st, rq) ==
  /\ cur' = to
  /\ stat' = [st EXCEPT ![cur] = IF @ = "running" THEN "ready" ELSE @,
                        ![to] = "running"]
  /\ ready' = [Requeued(st, rq) EXCEPT ![Prio[to]] = Tail(@)]

(* rt_thread_init and rt_thread_startup, or the end of a wait.                 *)
MadeInit(st, t) == [st EXCEPT ![t] = "init"]    \* mutant: created, never resumed
MadeReady(st, t) == [st EXCEPT ![t] = "ready"]

(* rt_thread_delete (and _thread_exit): out of the queues and into the list    *)
(* of the idle thread; a thread that is closed already stays what it is.       *)
Closed(st, t) == [st EXCEPT ![t] = "closed"]

=============================================================================
