--------------------------- MODULE Syswatch_proofs ---------------------------
(* Theorems of Syswatch for any number of threads, any priorities with        *)
(* syswatch alone at the top and the idle thread alone at the bottom, any     *)
(* timeouts: the queues of the scheduler stay in step with the states of the  *)
(* threads, the list of saved threads and the pointer lowest_thread never go  *)
(* stale, and nobody is killed early or in the place of a lower hog.          *)
(* The argument: IInv, below, is inductive. The lemmas up to SwitchOK are     *)
(* about the queues alone (insert, take the head, remove, switch), those up   *)
(* to DataMono about the hook and the data of syswatch; then there is one     *)
(* lemma for every action.                                                    *)
EXTENDS Syswatch, SequenceTheorems, WellFoundedInduction, TLAPS

(* Thread t waits in its queue.                                               *)
In(rq, t) == \E i \in 1..Len(rq[Prio[t]]) : rq[Prio[t]][i] = t

(* The queues hold exactly the ready threads, each in the queue of its        *)
(* priority, once.                                                            *)
Queues(st, rq) ==
  /\ \A t \in Threads : st[t] = "ready" => In(rq, t)
  /\ \A p \in Priorities : \A i \in 1..Len(rq[p]) :
       st[rq[p][i]] = "ready" /\ Prio[rq[p][i]] = p
  /\ \A p \in Priorities : \A i, j \in 1..Len(rq[p]) : rq[p][i] = rq[p][j] => i = j

Typed(st, rq) == st \in [Threads -> Stats] /\ rq \in [Priorities -> Seq(Threads)]

(* Priorities are numbers, and every thread has one of them.                  *)
LEMMA PrioOK == /\ \A t \in Threads : Prio[t] \in Priorities /\ Prio[t] \in Nat
                /\ Priorities \subseteq Nat
<1> QED BY ThreadsAssumption DEF Priorities

(* When a thread is ready, Highest is the lowest number of a queue that is    *)
(* not empty: the CHOOSE of the model has a witness.                          *)
LEMMA HighestOK ==
  ASSUME NEW rq, Waiting(rq) # {}
  PROVE  /\ Highest(rq) \in Priorities /\ rq[Highest(rq)] # <<>>
         /\ \A q \in Priorities : rq[q] # <<>> => Highest(rq) <= q
<1> DEFINE R == {ss \in Nat \X Nat : ss[1] < ss[2]}
<1>1. Waiting(rq) \subseteq Nat
  BY PrioOK DEF Waiting
<1>2. IsWellFoundedOn(R, Nat)
  BY NatLessThanWellFounded DEF OpToRel
<1>3. PICK x \in Waiting(rq) : \A y \in Waiting(rq) : x <= y
  <2>1. PICK x \in Waiting(rq) : \A y \in Waiting(rq) : ~ (<<y, x>> \in R)
    <3> HIDE DEF R
    <3> QED BY <1>1, <1>2, WFMin
  <2>2. ASSUME NEW y \in Waiting(rq) PROVE x <= y
    <3>1. x \in Nat /\ y \in Nat /\ ~ (<<y, x>> \in R)
      BY <1>1, <2>1
    <3> QED BY <3>1
  <2> QED BY <2>2
<1>4. Highest(rq) \in Waiting(rq) /\ \A y \in Waiting(rq) : Highest(rq) <= y
  BY <1>3 DEF Highest
<1> QED BY <1>4 DEF Waiting

(* Making a thread ready and putting it behind its queue keeps Queues.        *)
LEMMA InsertOK ==
  ASSUME NEW st, NEW rq, Typed(st, rq), Queues(st, rq), NEW t \in Threads, st[t] # "ready"
  PROVE  /\ Typed([st EXCEPT ![t] = "ready"], Insert(rq, t))
         /\ Queues([st EXCEPT ![t] = "ready"], Insert(rq, t))
<1> DEFINE p == Prio[t]  s == rq[p]  s1 == Append(s, t)  rq1 == Insert(rq, t)
           st1 == [st EXCEPT ![t] = "ready"]
<1>1. /\ p \in Priorities /\ s \in Seq(Threads) /\ Len(s) \in Nat
      /\ s1 \in Seq(Threads) /\ Len(s1) = Len(s) + 1
      /\ \A i \in 1..Len(s) : s1[i] = s[i]
      /\ s1[Len(s) + 1] = t
  BY PrioOK, AppendProperties, LenProperties DEF Typed
<1>2. /\ rq1 \in [Priorities -> Seq(Threads)]
      /\ rq1[p] = s1 /\ \A q \in Priorities \ {p} : rq1[q] = rq[q]
  BY <1>1 DEF Insert, Typed
<1>3. st1 \in [Threads -> Stats] /\ st1[t] = "ready" /\ \A u \in Threads \ {t} : st1[u] = st[u]
  BY DEF Typed, Stats
<1>4. \A q \in Priorities : \A i \in 1..Len(rq[q]) : rq[q][i] \in Threads /\ rq[q][i] # t
  BY LenProperties DEF Typed, Queues
<1> HIDE DEF p, s, s1, rq1, st1
<1>5. \A u \in Threads : st1[u] = "ready" => In(rq1, u)
  <2> SUFFICES ASSUME NEW u \in Threads, st1[u] = "ready" PROVE In(rq1, u)
    OBVIOUS
  <2>1. CASE u = t
    BY <2>1, <1>1, <1>2 DEF In, p
  <2>2. CASE u # t
    <3>1. PICK i \in 1..Len(rq[Prio[u]]) : rq[Prio[u]][i] = u
      BY <2>2, <1>3 DEF Queues, In
    <3>2. CASE Prio[u] = p
      BY <3>1, <3>2, <1>1, <1>2 DEF In, s
    <3>3. CASE Prio[u] # p
      BY <3>1, <3>3, <1>2, PrioOK DEF In
    <3> QED BY <3>2, <3>3
  <2> QED BY <2>1, <2>2
<1>6. ASSUME NEW q \in Priorities, NEW i \in 1..Len(rq1[q])
      PROVE  st1[rq1[q][i]] = "ready" /\ Prio[rq1[q][i]] = q
  <2>1. CASE q # p
    BY <2>1, <1>2, <1>3, <1>4 DEF Queues
  <2>2. CASE q = p /\ i \in 1..Len(s)
    BY <2>2, <1>1, <1>2, <1>3, <1>4 DEF Queues, s
  <2>3. CASE q = p /\ i = Len(s) + 1
    BY <2>3, <1>1, <1>2, <1>3 DEF p
  <2> QED BY <2>1, <2>2, <2>3, <1>1, <1>2
<1>7. ASSUME NEW q \in Priorities, NEW i \in 1..Len(rq1[q]), NEW j \in 1..Len(rq1[q]),
             rq1[q][i] = rq1[q][j]
      PROVE  i = j
  <2>1. CASE q # p
    BY <2>1, <1>2, <1>7 DEF Queues
  <2>2. CASE q = p
    <3>1. \A k \in 1..Len(s) : s1[k] # t
      BY <1>1, <1>4 DEF s
    <3>2. \A k, l \in 1..Len(s) : s1[k] = s1[l] => k = l
      BY <1>1 DEF Queues, s
    <3>3. i \in 1..Len(s) \/ i = Len(s) + 1
      BY <2>2, <1>1, <1>2
    <3>4. j \in 1..Len(s) \/ j = Len(s) + 1
      BY <2>2, <1>1, <1>2
    <3> QED BY <2>2, <1>1, <1>2, <1>7, <3>1, <3>2, <3>3, <3>4
  <2> QED BY <2>1, <2>2
<1> QED BY <1>2, <1>3, <1>5, <1>6, <1>7 DEF Typed, Queues, rq1, st1

(* So does taking a thread that is no longer ready out of any place of its    *)
(* queue. st1 and rq1 are the states and queues without it.                   *)
LEMMA DroppedOK ==
  ASSUME NEW st, NEW rq, Typed(st, rq), Queues(st, rq),
         NEW t \in Threads,
         NEW k \in 1..Len(rq[Prio[t]]), rq[Prio[t]][k] = t,
         NEW st1, NEW rq1, Typed(st1, rq1),
         st1[t] # "ready", \A u \in Threads \ {t} : st1[u] = st[u],
         \A q \in Priorities \ {Prio[t]} : rq1[q] = rq[q],
         Len(rq1[Prio[t]]) = Len(rq[Prio[t]]) - 1,
         \A i \in 1..k-1 : rq1[Prio[t]][i] = rq[Prio[t]][i],
         \A i \in k..Len(rq[Prio[t]])-1 : rq1[Prio[t]][i] = rq[Prio[t]][i+1]
  PROVE  Queues(st1, rq1)
<1> DEFINE p == Prio[t]  s == rq[p]  s1 == rq1[p]  old(i) == IF i < k THEN i ELSE i + 1
<1>1. p \in Priorities /\ s \in Seq(Threads) /\ Len(s) \in Nat /\ k \in 1..Len(s)
  BY PrioOK, LenProperties DEF Typed
<1>2. \A i \in 1..Len(s1) : old(i) \in 1..Len(s) /\ old(i) # k /\ s1[i] = s[old(i)]
  BY <1>1
<1>3. \A i \in 1..Len(s) : i # k => \E j \in 1..Len(s1) : old(j) = i
  <2>1. SUFFICES ASSUME NEW i \in 1..Len(s), i # k PROVE \E j \in 1..Len(s1) : old(j) = i
    OBVIOUS
  <2>2. CASE i < k
    <3>1. i \in 1..Len(s1) /\ old(i) = i
      BY <1>1, <2>2
    <3> QED BY <3>1
  <2>3. CASE i > k
    <3>1. i - 1 \in 1..Len(s1) /\ old(i - 1) = i
      BY <1>1, <2>3
    <3> QED BY <3>1
  <2> QED BY <1>1, <2>1, <2>2, <2>3
<1>4. \A i, j \in 1..Len(s1) : old(i) = old(j) => i = j
  BY <1>1
<1>5. s[k] = t /\ \A i \in 1..Len(s) : s[i] = t => i = k
  BY <1>1 DEF Queues
<1>6. \A q \in Priorities \ {p} : \A i \in 1..Len(rq[q]) : rq[q][i] \in Threads /\ rq[q][i] # t
  BY LenProperties DEF Typed, Queues
<1>7. \A i \in 1..Len(s) : s[i] \in Threads
  BY <1>1, LenProperties
<1>8. \A q \in Priorities \ {p} : rq1[q] = rq[q]
  OBVIOUS
<1>9. rq[p] = s /\ rq1[p] = s1
  OBVIOUS
<1>10. p = Prio[t]
  OBVIOUS
<1> HIDE DEF p, s, s1, old
<1>11. \A u \in Threads : st1[u] = "ready" => In(rq1, u)
  <2> SUFFICES ASSUME NEW u \in Threads, st1[u] = "ready" PROVE In(rq1, u)
    OBVIOUS
  <2>1. PICK i \in 1..Len(rq[Prio[u]]) : rq[Prio[u]][i] = u
    BY DEF Queues, In
  <2>2. CASE Prio[u] = p
    <3>1. PICK j \in 1..Len(s1) : old(j) = i
      BY <1>3, <1>5, <1>9, <2>1, <2>2
    <3> QED BY <3>1, <2>1, <2>2, <1>2, <1>9 DEF In
  <2>3. CASE Prio[u] # p
    BY <2>1, <2>3, <1>8, PrioOK DEF In
  <2> QED BY <2>2, <2>3
<1>12. ASSUME NEW q \in Priorities, NEW i \in 1..Len(rq1[q])
       PROVE  st1[rq1[q][i]] = "ready" /\ Prio[rq1[q][i]] = q
  <2>1. CASE q # p
    BY <2>1, <1>6, <1>8 DEF Queues
  <2>2. CASE q = p
    <3>1. st[s[old(i)]] = "ready" /\ Prio[s[old(i)]] = p
      BY <2>2, <1>1, <1>2, <1>9 DEF Queues
    <3>2. s[old(i)] \in Threads \ {t}
      BY <2>2, <1>2, <1>5, <1>7, <1>9
    <3> QED BY <2>2, <3>1, <3>2, <1>2, <1>9
  <2> QED BY <2>1, <2>2
<1>13. ASSUME NEW q \in Priorities, NEW i \in 1..Len(rq1[q]), NEW j \in 1..Len(rq1[q]),
              rq1[q][i] = rq1[q][j]
       PROVE  i = j
  <2>1. CASE q # p
    BY <2>1, <1>8, <1>13 DEF Queues
  <2>2. CASE q = p
    <3>1. \A m, n \in 1..Len(s) : s[m] = s[n] => m = n
      BY <1>1, <1>9 DEF Queues
    <3> QED BY <2>2, <3>1, <1>2, <1>4, <1>9, <1>13
  <2> QED BY <2>1, <2>2
<1> QED BY <1>11, <1>12, <1>13 DEF Queues

(* The head of a queue is a ready thread of that priority.                    *)
LEMMA FirstOK ==
  ASSUME NEW st, NEW rq, Typed(st, rq), Queues(st, rq), NEW p \in Priorities, rq[p] # <<>>
  PROVE  Head(rq[p]) \in Threads /\ st[Head(rq[p])] = "ready" /\ Prio[Head(rq[p])] = p
<1>1. rq[p] \in Seq(Threads) /\ Len(rq[p]) \in Nat \ {0} /\ Head(rq[p]) = rq[p][1]
  BY LenProperties, EmptySeq DEF Typed
<1> QED BY <1>1, HeadTailProperties DEF Queues

(* Running the head of a queue keeps Queues.                                  *)
LEMMA HeadOK ==
  ASSUME NEW st, NEW rq, Typed(st, rq), Queues(st, rq), NEW p \in Priorities, rq[p] # <<>>
  PROVE  LET t == Head(rq[p])  st1 == [st EXCEPT ![t] = "running"]
             rq1 == [rq EXCEPT ![p] = Tail(@)]
         IN  /\ t \in Threads /\ st[t] = "ready" /\ Prio[t] = p
             /\ Typed(st1, rq1) /\ Queues(st1, rq1)
<1> DEFINE t == Head(rq[p])  st1 == [st EXCEPT ![t] = "running"]
           rq1 == [rq EXCEPT ![p] = Tail(@)]
<1>1. rq[p] \in Seq(Threads) /\ Len(rq[p]) \in Nat \ {0} /\ t = rq[p][1]
  BY LenProperties, EmptySeq DEF Typed
<1>2. t \in Threads /\ st[t] = "ready" /\ Prio[t] = p
  BY FirstOK
<1>3. /\ rq1[p] = Tail(rq[p]) /\ rq1[p] \in Seq(Threads) /\ Len(rq1[p]) = Len(rq[p]) - 1
      /\ \A i \in 1..Len(rq1[p]) : rq1[p][i] = rq[p][i+1]
      /\ rq1 \in [Priorities -> Seq(Threads)]
      /\ \A q \in Priorities \ {p} : rq1[q] = rq[q]
  BY <1>1, HeadTailProperties DEF Typed
<1>4. /\ st1 \in [Threads -> Stats] /\ st1[t] # "ready"
      /\ \A u \in Threads \ {t} : st1[u] = st[u]
  BY <1>2 DEF Typed, Stats
<1>5. Typed(st1, rq1)
  BY <1>3, <1>4 DEF Typed
<1> HIDE DEF t, st1, rq1
<1>6. /\ 1 \in 1..Len(rq[Prio[t]]) /\ rq[Prio[t]][1] = t
      /\ \A q \in Priorities \ {Prio[t]} : rq1[q] = rq[q]
      /\ Len(rq1[Prio[t]]) = Len(rq[Prio[t]]) - 1
      /\ \A i \in 1..1-1 : rq1[Prio[t]][i] = rq[Prio[t]][i]
      /\ \A i \in 1..Len(rq[Prio[t]])-1 : rq1[Prio[t]][i] = rq[Prio[t]][i+1]
  BY <1>1, <1>2, <1>3
<1>7. Queues(st1, rq1)
  BY SMTT(30), <1>2, <1>4, <1>5, <1>6, DroppedOK
<1> QED BY <1>2, <1>5, <1>7 DEF t, st1, rq1

(* Closing a thread and removing it, wherever it is, keeps Queues.            *)
LEMMA RemoveOK ==
  ASSUME NEW st, NEW rq, Typed(st, rq), Queues(st, rq), NEW t \in Threads
  PROVE  Typed(Closed(st, t), Remove(rq, t)) /\ Queues(Closed(st, t), Remove(rq, t))
<1> DEFINE p == Prio[t]  s == rq[p]  st1 == Closed(st, t)  rq1 == Remove(rq, t)
<1>1. p \in Priorities /\ s \in Seq(Threads) /\ Len(s) \in Nat
      /\ \A i \in 1..Len(s) : s[i] \in Threads
  BY PrioOK, LenProperties DEF Typed
<1>2. /\ st1 \in [Threads -> Stats] /\ st1[t] # "ready"
      /\ \A u \in Threads \ {t} : st1[u] = st[u]
  BY DEF Closed, Typed, Stats
<1>3. /\ rq1[p] = Without(s, t) /\ \A q \in Priorities \ {p} : rq1[q] = rq[q]
      /\ (Without(s, t) \in Seq(Threads) => rq1 \in [Priorities -> Seq(Threads)])
  BY <1>1 DEF Remove, Typed
<1>4. CASE \E i \in 1..Len(s) : s[i] = t
  <2> DEFINE k == CHOOSE i \in 1..Len(s) : s[i] = t
  <2>1. k \in 1..Len(s) /\ s[k] = t
    BY SMTT(30), <1>4
  <2>2. Without(s, t) = SubSeq(s, 1, k - 1) \o SubSeq(s, k + 1, Len(s))
    BY <1>4 DEF Without
  <2> HIDE DEF k
  <2>3. /\ SubSeq(s, 1, k - 1) \in Seq(Threads) /\ Len(SubSeq(s, 1, k - 1)) = k - 1
        /\ \A i \in 1..k-1 : SubSeq(s, 1, k - 1)[i] = s[i]
    BY <1>1, <2>1, SubSeqProperties
  <2>4. /\ SubSeq(s, k + 1, Len(s)) \in Seq(Threads)
        /\ Len(SubSeq(s, k + 1, Len(s))) = Len(s) - k
        /\ \A i \in 1..Len(s)-k : SubSeq(s, k + 1, Len(s))[i] = s[k+i]
    BY <1>1, <2>1, SubSeqProperties
  <2> DEFINE s1 == Without(s, t)
  <2>5. /\ s1 \in Seq(Threads) /\ Len(s1) = Len(s) - 1
        /\ \A i \in 1..k-1 : s1[i] = s[i]
        /\ \A i \in k..Len(s)-1 : s1[i] = s[i+1]
    <3> DEFINE a == SubSeq(s, 1, k - 1)  b == SubSeq(s, k + 1, Len(s))
    <3>1. /\ s1 = a \o b /\ a \in Seq(Threads) /\ b \in Seq(Threads)
          /\ Len(a) = k - 1 /\ Len(b) = Len(s) - k
          /\ \A i \in 1..k-1 : a[i] = s[i]
          /\ \A i \in 1..Len(s)-k : b[i] = s[k+i]
      BY <2>2, <2>3, <2>4
    <3> HIDE DEF a, b, s1
    <3>2. /\ s1 \in Seq(Threads) /\ Len(s1) = Len(a) + Len(b)
          /\ \A i \in 1..Len(a)+Len(b) : s1[i] = IF i <= Len(a) THEN a[i] ELSE b[i - Len(a)]
      BY <3>1, ConcatProperties
    <3>3. ASSUME NEW i \in 1..k-1 PROVE s1[i] = s[i]
      <4>1. i \in 1..Len(a)+Len(b) /\ i <= Len(a)
        BY <1>1, <2>1, <3>1
      <4> QED BY <4>1, <3>1, <3>2
    <3>4. ASSUME NEW i \in k..Len(s)-1 PROVE s1[i] = s[i+1]
      <4>1. /\ i \in 1..Len(a)+Len(b) /\ ~(i <= Len(a))
            /\ i - Len(a) \in 1..Len(s)-k /\ k + (i - Len(a)) = i + 1
        BY <1>1, <2>1, <3>1
      <4>2. s1[i] = b[i - Len(a)]
        BY <4>1, <3>2
      <4> QED BY <4>1, <4>2, <3>1
    <3>5. Len(s1) = Len(s) - 1
      BY <1>1, <2>1, <3>1, <3>2
    <3> QED BY <3>2, <3>3, <3>4, <3>5
  <2> HIDE DEF s1
  <2>6. Typed(st1, rq1) /\ rq1[p] = s1
    BY <1>2, <1>3, <2>5 DEF Typed, s1
  <2>7. /\ k \in 1..Len(rq[Prio[t]]) /\ rq[Prio[t]][k] = t
        /\ \A q \in Priorities \ {Prio[t]} : rq1[q] = rq[q]
        /\ Len(rq1[Prio[t]]) = Len(rq[Prio[t]]) - 1
        /\ \A i \in 1..k-1 : rq1[Prio[t]][i] = rq[Prio[t]][i]
        /\ \A i \in k..Len(rq[Prio[t]])-1 : rq1[Prio[t]][i] = rq[Prio[t]][i+1]
    BY <1>3, <2>1, <2>5, <2>6
  <2> HIDE DEF st1, rq1
  <2>8. Queues(st1, rq1)
    BY SMTT(30), <1>2, <2>6, <2>7, DroppedOK
  <2> QED BY <2>6, <2>8 DEF st1, rq1
<1>5. CASE \A i \in 1..Len(s) : s[i] # t
  <2>1. Without(s, t) = s
    BY <1>5 DEF Without
  <2>2. Typed(st1, rq1)
    BY <1>1, <1>2, <1>3, <2>1 DEF Typed
  <2>3. \A q \in Priorities : rq1[q] = rq[q]
    BY <1>3, <2>1
  <2>4. \A q \in Priorities : \A i \in 1..Len(rq[q]) : rq[q][i] \in Threads /\ rq[q][i] # t
    BY <1>5, LenProperties DEF Typed, Queues
  <2>5. Queues(st1, rq1)
    <3> HIDE DEF st1, rq1
    <3>1. \A u \in Threads : st1[u] = "ready" => In(rq1, u)
      <4>1. \A u \in Threads : st1[u] = "ready" => In(rq, u)
        BY <1>2 DEF Queues
      <4> QED BY <4>1, <2>3, PrioOK DEF In
    <3>2. \A q \in Priorities : \A i \in 1..Len(rq1[q]) :
            st1[rq1[q][i]] = "ready" /\ Prio[rq1[q][i]] = q
      <4> SUFFICES ASSUME NEW q \in Priorities, NEW i \in 1..Len(rq[q])
                   PROVE  st1[rq[q][i]] = "ready" /\ Prio[rq[q][i]] = q
        BY <2>3
      <4>1. rq[q][i] \in Threads \ {t} /\ st[rq[q][i]] = "ready" /\ Prio[rq[q][i]] = q
        BY <2>4 DEF Queues
      <4> QED BY <4>1, <1>2
    <3>3. \A q \in Priorities : \A i, j \in 1..Len(rq1[q]) : rq1[q][i] = rq1[q][j] => i = j
      BY <2>3 DEF Queues
    <3> QED BY <3>1, <3>2, <3>3 DEF Queues
  <2> QED BY <2>2, <2>5
<1> QED BY <1>4, <1>5

(* The idle thread is never suspended or closed: the scheduler always finds   *)
(* a thread.                                                                  *)
Alive(st) == st[Idle] \in {"ready", "running"}

(* What rt_schedule may be called with: the current thread runs or has just   *)
(* stopped.                                                                   *)
Schedulable(st, rq) ==
  /\ Typed(st, rq) /\ Queues(st, rq) /\ cur \in Threads
  /\ st[cur] # "ready" /\ \A t \in Threads : st[t] = "running" => t = cur
  /\ Alive(st)

(* What it leaves: c is the one running thread, and no ready thread is        *)
(* higher.                                                                    *)
Switched(st, rq, c) ==
  /\ Typed(st, rq) /\ Queues(st, rq) /\ c \in Threads
  /\ \A t \in Threads : st[t] = "running" <=> t = c
  /\ \A p \in Priorities : rq[p] # <<>> => Prio[c] <= p
  /\ Alive(st)

(* When rt_schedule goes on with the current thread, that one runs.           *)
LEMMA StaysOK ==
  ASSUME NEW st, NEW rq, NEW yields, Schedulable(st, rq), Stays(st, rq, yields)
  PROVE  Switched(st, rq, cur)
<1>1. st[cur] = "running"
  <2>1. CASE Waiting(rq) = {}
    <3>1. ~ In(rq, Idle)
      BY <2>1, PrioOK, LenProperties, EmptySeq, ThreadsAssumption DEF Waiting, In, Schedulable, Typed
    <3> QED BY <3>1, ThreadsAssumption DEF Schedulable, Queues, Alive
  <2> QED BY <2>1 DEF Stays
<1>2. ASSUME NEW p \in Priorities, rq[p] # <<>> PROVE Prio[cur] <= p
  <2>1. Waiting(rq) # {}
    BY <1>2 DEF Waiting
  <2>2. Highest(rq) <= p /\ Highest(rq) \in Priorities
    BY <1>2, <2>1, HighestOK
  <2>3. Prio[cur] \in Nat /\ Highest(rq) \in Nat /\ p \in Nat
    BY <2>2, PrioOK DEF Schedulable
  <2>4. Prio[cur] <= Highest(rq)
    BY <2>1, <2>3 DEF Stays
  <2> QED BY <2>2, <2>3, <2>4
<1> QED BY <1>1, <1>2 DEF Schedulable, Switched

(* When it switches, it is to a ready thread no queue has a higher one than.  *)
LEMMA ToOK ==
  ASSUME NEW st, NEW rq, NEW yields, Schedulable(st, rq), ~Stays(st, rq, yields)
  PROVE  /\ Highest(rq) \in Priorities /\ rq[Highest(rq)] # <<>>
         /\ To(rq) \in Threads /\ st[To(rq)] = "ready" /\ To(rq) # cur
         /\ Prio[To(rq)] = Highest(rq)
         /\ \A q \in Priorities : rq[q] # <<>> => Highest(rq) <= q
         /\ st[cur] = "running" => Highest(rq) <= Prio[cur]
<1>1. Waiting(rq) # {}
  BY DEF Stays
<1>2. /\ Highest(rq) \in Priorities /\ rq[Highest(rq)] # <<>>
      /\ \A q \in Priorities : rq[q] # <<>> => Highest(rq) <= q
  BY <1>1, HighestOK
<1>3. To(rq) \in Threads /\ st[To(rq)] = "ready" /\ Prio[To(rq)] = Highest(rq)
  <2>1. Typed(st, rq) /\ Queues(st, rq)
    BY DEF Schedulable
  <2> QED BY <1>2, <2>1, FirstOK DEF To
<1>4. ASSUME st[cur] = "running" PROVE Highest(rq) <= Prio[cur]
  <2>1. Prio[cur] \in Nat /\ Highest(rq) \in Nat
    BY <1>2, PrioOK DEF Schedulable
  <2>2. ~(Prio[cur] < Highest(rq))
    BY <1>4 DEF Stays
  <2> QED BY <2>1, <2>2
<1> QED BY <1>2, <1>3, <1>4 DEF Schedulable

(* The switch leaves what Switched says and closes nobody.                    *)
LEMMA SwitchOK ==
  ASSUME NEW st, NEW rq, NEW yields, Schedulable(st, rq), ~Stays(st, rq, yields),
         SwitchTo(To(rq), st, rq)
  PROVE  /\ cur' = To(rq)
         /\ Switched(stat', ready', cur')
         /\ \A t \in Threads : stat'[t] = "closed" <=> st[t] = "closed"
<1> DEFINE to == To(rq)  st1 == [st EXCEPT ![cur] = IF @ = "running" THEN "ready" ELSE @]
           rq1 == Requeued(st, rq)
<1>1. /\ Highest(rq) \in Priorities /\ rq[Highest(rq)] # <<>>
      /\ to \in Threads /\ st[to] = "ready" /\ to # cur /\ Prio[to] = Highest(rq)
      /\ \A q \in Priorities : rq[q] # <<>> => Prio[to] <= q
      /\ st[cur] = "running" => Prio[to] <= Prio[cur]
  BY ToOK
<1>2. /\ Typed(st, rq) /\ Queues(st, rq) /\ cur \in Threads
      /\ st[cur] # "ready" /\ \A t \in Threads : st[t] = "running" => t = cur
      /\ Alive(st)
  BY DEF Schedulable
<1>3. /\ Typed(st1, rq1) /\ Queues(st1, rq1)
      /\ rq1[Prio[to]] # <<>> /\ Head(rq1[Prio[to]]) = to
      /\ \A q \in Priorities : rq1[q] # <<>> => Prio[to] <= q
      /\ st1 \in [Threads -> Stats] /\ st1[cur] # "running" /\ st1[to] = "ready"
      /\ \A t \in Threads \ {cur} : st1[t] = st[t]
      /\ st1[cur] = "closed" <=> st[cur] = "closed"
      /\ Alive(st1)
  <2>0. /\ st1 \in [Threads -> Stats] /\ st1[cur] # "running"
        /\ \A t \in Threads \ {cur} : st1[t] = st[t]
        /\ st1[cur] = IF st[cur] = "running" THEN "ready" ELSE st[cur]
    BY <1>1, <1>2 DEF Typed, Stats
  <2>1. CASE st[cur] = "running"
    <3>1. st1 = [st EXCEPT ![cur] = "ready"] /\ rq1 = Insert(rq, cur)
      BY <2>1 DEF Requeued
    <3>2. Typed(st1, rq1) /\ Queues(st1, rq1)
      <4> HIDE DEF st1, rq1
      <4> QED BY <1>2, <2>1, <3>1, InsertOK
    <3>3. Prio[to] \in Priorities /\ rq[Prio[to]] \in Seq(Threads) /\ Prio[cur] \in Priorities
          /\ rq[Prio[cur]] \in Seq(Threads)
      BY <1>1, <1>2, PrioOK DEF Typed
    <3>4. rq1[Prio[cur]] = Append(rq[Prio[cur]], cur)
          /\ \A q \in Priorities \ {Prio[cur]} : rq1[q] = rq[q]
      BY <1>2, <3>1, <3>3 DEF Insert, Typed
    <3>5. rq1[Prio[to]] # <<>> /\ Head(rq1[Prio[to]]) = to
      <4>1. rq[Prio[to]] # <<>> /\ Head(rq[Prio[to]]) = to
        BY <1>1 DEF To
      <4>2. CASE Prio[to] = Prio[cur]
        <5>1. Append(rq[Prio[cur]], cur) # <<>>
          BY <1>2, <3>3, AppendProperties
        <5>2. Head(Append(rq[Prio[cur]], cur)) = Head(rq[Prio[cur]])
          BY <1>2, <3>3, <4>1, <4>2, HeadTailAppend
        <5> QED BY <3>4, <4>1, <4>2, <5>1, <5>2
      <4>3. CASE Prio[to] # Prio[cur]
        BY <3>3, <3>4, <4>1, <4>3
      <4> QED BY <4>2, <4>3
    <3>6. \A q \in Priorities : rq1[q] # <<>> => Prio[to] <= q
      BY <1>1, <2>1, <3>4
    <3> QED BY <1>1, <1>2, <2>0, <2>1, <3>2, <3>5, <3>6, ThreadsAssumption DEF Alive
  <2>2. CASE st[cur] # "running"
    <3>1. st1 = st
      BY <2>2, <1>2 DEF Typed
    <3>2. rq1 = rq
      BY <2>2 DEF Requeued
    <3> HIDE DEF st1, rq1
    <3> QED BY <1>1, <1>2, <2>0, <2>2, <3>1, <3>2 DEF To, Typed
  <2> QED BY <2>1, <2>2
<1>4. /\ cur' = to
      /\ stat' = [st1 EXCEPT ![to] = "running"]
      /\ ready' = [rq1 EXCEPT ![Prio[to]] = Tail(@)]
  BY <1>1, <1>2 DEF SwitchTo, Typed
<1> HIDE DEF st1, rq1, to
<1>5. Typed(stat', ready') /\ Queues(stat', ready')
  BY <1>1, <1>3, <1>4, HeadOK, PrioOK
<1>6. \A t \in Threads : stat'[t] = IF t = to THEN "running" ELSE st1[t]
  BY <1>3, <1>4
<1>7. \A t \in Threads : stat'[t] = "running" <=> t = cur'
  BY <1>1, <1>2, <1>3, <1>4, <1>6
<1>8. ASSUME NEW q \in Priorities, ready'[q] # <<>> PROVE Prio[cur'] <= q
  <2>1. CASE q = Prio[to]
    BY <2>1, <1>4, PrioOK
  <2>2. CASE q # Prio[to]
    BY <2>2, <1>3, <1>4, <1>8 DEF Typed
  <2> QED BY <2>1, <2>2
<1>9. Alive(stat')
  BY <1>3, <1>6, ThreadsAssumption DEF Alive
<1>10. \A t \in Threads : stat'[t] = "closed" <=> st[t] = "closed"
  BY <1>1, <1>2, <1>3, <1>6
<1> QED BY <1>1, <1>4, <1>5, <1>7, <1>8, <1>9, <1>10 DEF Switched, to

-----------------------------------------------------------------------------
(* Syswatch is between the end of a delay and the beginning of the next one.  *)
Awake(st) == st[Watch] \in {"ready", "running"}
(* The threads that may hang, be killed and come back.                        *)
Victims == Threads \ {Watch, Idle}

(* The saved threads are closed and different; there are some in step 2,      *)
(* until the last round of the loop that resumes them, and none in step 0.    *)
ListOK(st, w) ==
  /\ \A i \in 1..Len(w.wait_resume_slist) :
       w.wait_resume_slist[i] \in Victims /\ st[w.wait_resume_slist[i]] = "closed"
  /\ \A i, j \in 1..Len(w.wait_resume_slist) :
       w.wait_resume_slist[i] = w.wait_resume_slist[j] => i = j
  /\ w.op_step = 0 => w.wait_resume_slist = <<>>
  /\ w.op_step = 2 /\ w.wait_resume_slist = <<>> => Awake(st) /\ w.sec_cnt + 1 >= RESUME_DLY

(* The thread noticed during a search can be killed: it is neither syswatch   *)
(* nor idle, its object exists, and it is not yet in the list.                *)
LowOK(st, w, df) ==
  w.op_step = 1 /\ w.lowest_thread # None =>
    /\ w.lowest_thread \in Victims
    /\ st[w.lowest_thread] # "closed" \/ w.lowest_thread \in df
    /\ \A i \in 1..Len(w.wait_resume_slist) : w.wait_resume_slist[i] # w.lowest_thread

(* sec_cnt, with the second that has ended but was not counted, is covered    *)
(* by the silence s; in step 1 the detection comes on top.                    *)
CountOK(st, w, s) ==
  LET n == w.sec_cnt + (IF Awake(st) THEN 1 ELSE 0)
  IN  /\ w.op_step = 0 => s >= n
      /\ w.op_step = 1 => s >= EXCEPT_TIMEOUT + n

(* The thread noticed is as low as the current one while syswatch sleeps,     *)
(* hence, at the end of a second, as low as a hog of that second.             *)
HogsOK(st, w, h, c) ==
  w.op_step = 1 /\ w.lowest_thread # None =>
    IF Awake(st) THEN \E t \in h : Prio[t] <= Prio[w.lowest_thread]
                 ELSE Prio[c] <= Prio[w.lowest_thread]

(* The data of syswatch fits the states st, the silence s, the hogs h, the    *)
(* defunct threads df and the current thread c. A search is over when the     *)
(* idle thread is reached.                                                    *)
Data(st, w, s, h, df, c) ==
  /\ w \in SwData /\ s \in Nat /\ h \subseteq Threads
  /\ ListOK(st, w) /\ LowOK(st, w, df) /\ CountOK(st, w, s) /\ HogsOK(st, w, h, c)
  /\ w.op_step = 1 => c # Idle

(* What the hook makes of w, by the priorities of the two threads.            *)
HookResult(w, from, to, runs, r) ==
  /\ Prio[from] > Prio[to] => r = w
  /\ Prio[from] <= Prio[to] /\ to = Idle =>
       /\ r \in SwData /\ r.op_step # 1 /\ r.wait_resume_slist = w.wait_resume_slist
       /\ r.op_step = 0 => r.sec_cnt = 0
       /\ w.op_step = 0 => r.op_step = 0
       /\ w.op_step = 1 => (r.op_step = 0 <=> w.wait_resume_slist = <<>>)
       /\ w.op_step = 2 => r = w
  /\ Prio[from] <= Prio[to] /\ to # Idle /\ w.op_step # 1 => r = w
  /\ Prio[from] <= Prio[to] /\ to # Idle /\ w.op_step = 1 =>
       /\ r \in SwData /\ r.op_step = 1 /\ r.sec_cnt = w.sec_cnt
       /\ r.wait_resume_slist = w.wait_resume_slist
       /\ \/ r.lowest_thread = to
          \/ r.lowest_thread = from /\ runs /\ Prio[from] = Prio[to]
          \/ r.lowest_thread = w.lowest_thread /\ w.lowest_thread # None
       /\ Prio[to] <= Prio[r.lowest_thread]

(* The hook does what HookResult says, with any data of the right type.       *)
LEMMA HookOK ==
  ASSUME NEW w \in SwData, NEW from \in Threads, NEW to \in Threads, NEW runs \in BOOLEAN,
         NEW r, r = Hook(w, from, to, runs)
  PROVE  HookResult(w, from, to, runs, r)
<1>1. /\ w.op_step \in 0..2 /\ w.sec_cnt \in Nat /\ w.lowest_thread \in Threads \cup {None}
      /\ w.wait_resume_slist \in Seq(Threads)
  BY DEF SwData
<1>2. Prio[from] \in Nat /\ Prio[to] \in Nat /\ None \notin Threads
  BY PrioOK, SyswatchAssumption
<1>3. Prio[from] > Prio[to] => r = w
  BY <1>2 DEF Hook
<1>4. ASSUME Prio[from] <= Prio[to], to = Idle
      PROVE  /\ r \in SwData /\ r.op_step # 1 /\ r.wait_resume_slist = w.wait_resume_slist
             /\ r.op_step = 0 => r.sec_cnt = 0
             /\ w.op_step = 0 => r.op_step = 0
             /\ w.op_step = 1 => (r.op_step = 0 <=> w.wait_resume_slist = <<>>)
             /\ w.op_step = 2 => r = w
  <2>1. r = IdleReached(w)
    BY <1>2, <1>4 DEF Hook
  <2>2. CASE w.op_step = 0
    <3>1. r = [w EXCEPT !.sec_cnt = 0]
      BY <2>1, <2>2 DEF IdleReached
    <3> QED BY <2>2, <3>1 DEF SwData
  <2>3. CASE w.op_step = 1
    <3>1. r = [w EXCEPT !.sec_cnt = 0, !.op_step = IF w.wait_resume_slist = <<>> THEN 0 ELSE 2]
      BY <2>1, <2>3 DEF IdleReached
    <3>2. CASE w.wait_resume_slist = <<>>
      <4>1. r = [w EXCEPT !.sec_cnt = 0, !.op_step = 0]
        BY <3>1, <3>2
      <4>2. r.op_step = 0 /\ r.sec_cnt = 0 /\ r.wait_resume_slist = w.wait_resume_slist
        BY <4>1 DEF SwData
      <4>3. r = [sec_cnt |-> 0, op_step |-> 0, lowest_thread |-> w.lowest_thread,
                 wait_resume_slist |-> w.wait_resume_slist]
        BY <4>1 DEF SwData
      <4>4. r \in SwData
        BY <1>1, <4>3 DEF SwData
      <4> QED BY <4>4, <2>3, <3>2, <4>2, <4>3
    <3>3. CASE w.wait_resume_slist # <<>>
      <4>1. r = [w EXCEPT !.sec_cnt = 0, !.op_step = 2]
        BY <3>1, <3>3
      <4>2. r.op_step = 2 /\ r.wait_resume_slist = w.wait_resume_slist
        BY <4>1 DEF SwData
      <4>3. r = [sec_cnt |-> 0, op_step |-> 2, lowest_thread |-> w.lowest_thread,
                 wait_resume_slist |-> w.wait_resume_slist]
        BY <4>1 DEF SwData
      <4>4. r \in SwData
        BY <1>1, <4>3 DEF SwData
      <4> QED BY <4>4, <2>3, <3>3, <4>2, <4>3
    <3> QED BY <3>2, <3>3
  <2>4. CASE w.op_step = 2
    <3>1. r = w
      BY <2>1, <2>4 DEF IdleReached
    <3> QED BY <2>4, <3>1
  <2> QED BY <1>1, <2>2, <2>3, <2>4
<1>5. Prio[from] <= Prio[to] /\ to # Idle /\ w.op_step # 1 => r = w
  BY <1>2 DEF Hook
<1>6. ASSUME Prio[from] <= Prio[to], to # Idle, w.op_step = 1
      PROVE  /\ r \in SwData /\ r.op_step = 1 /\ r.sec_cnt = w.sec_cnt
             /\ r.wait_resume_slist = w.wait_resume_slist
             /\ \/ r.lowest_thread = to
                \/ r.lowest_thread = from /\ runs /\ Prio[from] = Prio[to]
                \/ r.lowest_thread = w.lowest_thread /\ w.lowest_thread # None
             /\ Prio[to] <= Prio[r.lowest_thread]
  <2> DEFINE low == Lowest(w.lowest_thread, from, to, runs)
  <2>1. r = [w EXCEPT !.lowest_thread = low]
    BY <1>2, <1>6 DEF Hook
  <2>2. /\ \/ low = to
           \/ low = from /\ runs /\ Prio[from] = Prio[to]
           \/ low = w.lowest_thread /\ w.lowest_thread # None
        /\ Prio[to] <= Prio[low]
    <3>1. CASE w.lowest_thread = None
      BY <1>2, <3>1 DEF Lowest
    <3>2. CASE w.lowest_thread \in Threads
      <4>1. Prio[w.lowest_thread] \in Nat /\ w.lowest_thread # None
        BY <3>2, <1>2, PrioOK
      <4> QED BY <1>2, <4>1 DEF Lowest
    <3> QED BY <1>1, <3>1, <3>2
  <2> HIDE DEF low
  <2>3. low \in Threads \cup {None}
    BY <1>1, <2>2
  <2> QED BY <1>6, <2>1, <2>2, <2>3 DEF SwData
<1> QED BY <1>3, <1>4, <1>5, <1>6 DEF HookResult

(* rt_schedule with its hook keeps Data. Only the delay that begins a search  *)
(* is entered without a thread noticed; the switch away from syswatch         *)
(* notices one.                                                               *)
LEMMA ScheduleOK ==
  ASSUME NEW st, NEW rq, NEW yields, NEW w, NEW s, NEW h, NEW df,
         Schedulable(st, rq), Data(st, w, s, h, df, cur),
         w.op_step = 1 /\ w.lowest_thread = None => cur = Watch /\ ~Awake(st),
         Schedule(st, rq, yields, w, s, h)
  PROVE  /\ Switched(stat', ready', cur')
         /\ Data(stat', sw_data', silence', hogs', df, cur')
         /\ sw_data'.op_step = 1 => sw_data'.lowest_thread # None
         /\ \A t \in Threads : stat'[t] = "closed" <=> st[t] = "closed"
<1>1. /\ cur \in Threads /\ st[cur] # "ready" /\ Typed(st, rq) /\ Queues(st, rq)
      /\ \A t \in Threads : st[t] = "running" => t = cur
  BY DEF Schedulable
<1>2. /\ Watch \in Threads /\ Idle \in Threads /\ Watch # Idle /\ None \notin Threads
      /\ \A t \in Threads \ {Watch} : Prio[Watch] < Prio[t]
      /\ \A t \in Threads \ {Idle} : Prio[t] < Prio[Idle]
      /\ \A t \in Threads : Prio[t] \in Nat /\ Prio[t] \in Priorities
  BY ThreadsAssumption, SyswatchAssumption, PrioOK
<1>3. CASE /\ Stays(st, rq, yields) /\ cur' = cur /\ stat' = st /\ ready' = rq
           /\ sw_data' = w /\ silence' = s /\ hogs' = h
  <2>1. Switched(st, rq, cur)
    BY <1>3, StaysOK
  <2>2. cur = Watch => Awake(st)
    BY <1>1, <2>1 DEF Switched, Awake
  <2> QED BY <1>3, <2>1, <2>2
<1>4. CASE /\ ~Stays(st, rq, yields) /\ SwitchTo(To(rq), st, rq)
           /\ sw_data' = Hook(w, cur, To(rq), st[cur] = "running")
           /\ silence' = IF To(rq) = Idle THEN 0 ELSE s
           /\ hogs' = IF To(rq) = Idle THEN {} ELSE h
  <2> DEFINE to == To(rq)
  <2>1. /\ cur' = to /\ Switched(stat', ready', cur')
        /\ \A t \in Threads : stat'[t] = "closed" <=> st[t] = "closed"
    BY <1>4, SwitchOK
  <2>2. /\ to \in Threads /\ st[to] = "ready" /\ to # cur
        /\ \A q \in Priorities : rq[q] # <<>> => Prio[to] <= q
        /\ st[cur] = "running" => Prio[to] <= Prio[cur]
    BY <1>4, ToOK
  <2>3. /\ stat' = [st EXCEPT ![cur] = IF @ = "running" THEN "ready" ELSE @, ![to] = "running"]
        /\ st \in [Threads -> Stats]
    BY <1>1, <1>4 DEF SwitchTo, Typed
  <2> HIDE DEF to
  <2>4. Awake(stat') <=> Awake(st)
    BY <1>1, <1>2, <2>2, <2>3 DEF Awake
  <2>5. Awake(st) => to = Watch
    <3>1. CASE st[Watch] = "running"
      BY <1>1, <1>2, <2>2, <3>1
    <3>2. CASE st[Watch] = "ready"
      <4>1. rq[Prio[Watch]] # <<>>
        <5>1. PICK i \in 1..Len(rq[Prio[Watch]]) : rq[Prio[Watch]][i] = Watch
          BY <1>1, <1>2, <3>2 DEF Queues, In
        <5>2. rq[Prio[Watch]] \in Seq(Threads)
          BY <1>1, <1>2 DEF Typed
        <5> QED BY <5>1, <5>2, EmptySeq
      <4> QED BY <1>2, <2>2, <4>1
    <3> QED BY <3>1, <3>2 DEF Awake
  <2>6. w \in SwData /\ s \in Nat /\ h \subseteq Threads
    BY DEF Data
  <2> DEFINE r == sw_data'
  <2>7. HookResult(w, cur, to, st[cur] = "running", r)
    <3> DEFINE runs == st[cur] = "running"
    <3>1. r = Hook(w, cur, to, runs) /\ runs \in BOOLEAN
      BY <1>4 DEF to
    <3>2. w \in SwData /\ cur \in Threads /\ to \in Threads
      BY <1>1, <2>2, <2>6
    <3> HIDE DEF r, runs
    <3>3. HookResult(w, cur, to, runs, r)
      BY <3>1, <3>2, HookOK
    <3> QED BY <3>3 DEF runs
  <2>8. Prio[cur] \in Nat /\ Prio[to] \in Nat
    BY <1>1, <1>2, <2>2
  <2>9. /\ to # Idle => silence' = s /\ hogs' = h
        /\ to = Idle => silence' = 0 /\ hogs' = {}
    BY <1>4 DEF to
  <2> HIDE DEF r
  <2>10. CASE to = Idle
    <3>1. ~Awake(st) /\ Prio[cur] <= Prio[to]
      BY <1>1, <1>2, <2>2, <2>5, <2>10
    <3>2. /\ r \in SwData /\ r.op_step # 1 /\ r.op_step \in {0, 2}
          /\ r.wait_resume_slist = w.wait_resume_slist
          /\ r.op_step = 0 => r.sec_cnt = 0
      BY <2>7, <2>10, <3>1 DEF SwData, HookResult
    <3>3. ListOK(stat', r)
      BY <2>1, <2>4, <2>6, <2>7, <2>10, <3>1, <3>2 DEF ListOK, Data, SwData, Victims, HookResult
    <3>4. CountOK(stat', r, silence') /\ LowOK(stat', r, df) /\ HogsOK(stat', r, hogs', cur')
      BY <2>4, <2>9, <2>10, <3>1, <3>2 DEF CountOK, LowOK, HogsOK
    <3> QED BY <2>1, <2>9, <2>10, <3>2, <3>3, <3>4 DEF Data, r
  <2>11. CASE to # Idle
    <3>1. r \in SwData /\ r.op_step = w.op_step /\ r.sec_cnt = w.sec_cnt
          /\ r.wait_resume_slist = w.wait_resume_slist
      BY <2>6, <2>7, <2>8, <2>11 DEF HookResult
    <3>2. ListOK(stat', r)
      BY <2>1, <2>4, <3>1 DEF ListOK, Data, Victims
    <3>3. CountOK(stat', r, silence')
      BY <2>4, <2>9, <2>11, <3>1 DEF CountOK, Data
    <3>4. CASE w.op_step # 1
      BY <2>1, <2>6, <2>9, <2>11, <3>1, <3>2, <3>3, <3>4 DEF Data, LowOK, HogsOK, r
    <3>5. CASE w.op_step = 1
      <4>1. /\ r.lowest_thread # None
            /\ \/ r.lowest_thread = to
               \/ r.lowest_thread = cur /\ st[cur] = "running"
               \/ r.lowest_thread = w.lowest_thread
        <5>1. CASE Prio[cur] > Prio[to]
          <6>1. cur # Watch
            BY <1>1, <1>2, <2>2, <2>8, <5>1
          <6> QED BY <2>7, <3>5, <5>1, <6>1 DEF HookResult
        <5>2. CASE Prio[cur] <= Prio[to]
          BY <1>1, <1>2, <2>2, <2>7, <2>11, <3>5, <5>2 DEF HookResult
        <5> QED BY <2>8, <5>1, <5>2
      <4>2. CASE Awake(st)
        <5>1. to = Watch /\ cur # Watch
          BY <2>2, <2>5, <4>2
        <5>2. r = w
          BY <1>1, <1>2, <2>7, <2>8, <5>1 DEF HookResult
        <5>3. LowOK(stat', r, df)
          BY <2>1, <4>1, <5>2 DEF LowOK, Data, Victims
        <5>4. HogsOK(stat', r, hogs', cur')
          BY <2>4, <2>9, <2>11, <4>2, <5>2 DEF HogsOK, Data
        <5> QED BY <2>1, <2>6, <2>9, <2>11, <3>1, <3>2, <3>3, <4>1, <5>3, <5>4 DEF Data, r
      <4>3. CASE ~Awake(st)
        <5>1. to # Watch /\ (st[cur] = "running" => cur # Watch)
          BY <2>2, <4>3 DEF Awake
        <5>2. cur # Idle
          BY <3>5 DEF Data
        <5>3. LowOK(stat', r, df)
          <6>1. CASE r.lowest_thread = to
            <7>1. to \in Victims /\ stat'[to] # "closed"
              BY <2>1, <2>2, <2>11, <5>1 DEF Victims
            <7>2. \A i \in 1..Len(w.wait_resume_slist) : w.wait_resume_slist[i] # to
              BY <2>2 DEF Data, ListOK
            <7> QED BY <3>1, <6>1, <7>1, <7>2 DEF LowOK
          <6>2. CASE r.lowest_thread = cur /\ st[cur] = "running"
            <7>1. cur \in Victims /\ stat'[cur] # "closed"
              BY <1>1, <2>1, <5>1, <5>2, <6>2 DEF Victims
            <7>2. \A i \in 1..Len(w.wait_resume_slist) : w.wait_resume_slist[i] # cur
              BY <6>2 DEF Data, ListOK
            <7> QED BY <3>1, <6>2, <7>1, <7>2 DEF LowOK
          <6>3. CASE r.lowest_thread = w.lowest_thread
            BY <2>1, <3>1, <3>5, <4>1, <6>3 DEF LowOK, Data, Victims
          <6> QED BY <4>1, <6>1, <6>2, <6>3
        <5>4. Prio[to] <= Prio[r.lowest_thread]
          <6>1. CASE Prio[cur] <= Prio[to]
            BY <2>7, <2>11, <3>5, <6>1 DEF HookResult
          <6>2. CASE Prio[cur] > Prio[to]
            <7>1. r = w
              BY <2>7, <6>2 DEF HookResult
            <7>2. Prio[cur] <= Prio[w.lowest_thread] /\ w.lowest_thread \in Threads
              BY <3>5, <4>1, <4>3, <7>1 DEF Data, HogsOK, LowOK, Victims
            <7> QED BY <1>2, <2>8, <6>2, <7>1, <7>2
          <6> QED BY <2>8, <6>1, <6>2
        <5>5. HogsOK(stat', r, hogs', cur')
          BY <2>1, <2>4, <4>3, <5>4 DEF HogsOK
        <5> QED BY <2>1, <2>6, <2>9, <2>11, <3>1, <3>2, <3>3, <4>1, <5>3, <5>5 DEF Data, r
      <4> QED BY <4>2, <4>3
    <3> QED BY <3>4, <3>5
  <2> QED BY <2>10, <2>11
<1> QED BY <1>3, <1>4 DEF Schedule

(* Threads that end, and objects that are not freed yet, do no harm to Data.  *)
LEMMA DataMono ==
  ASSUME NEW st, NEW st1, NEW w, NEW s, NEW h, NEW df, NEW df1, NEW c,
         Data(st, w, s, h, df, c), Awake(st1) <=> Awake(st), df \subseteq df1,
         \A t \in Threads : st[t] = "closed" => st1[t] = "closed",
         \A t \in Threads : st1[t] = "closed" /\ st[t] # "closed" => t \in df1
  PROVE  Data(st1, w, s, h, df1, c)
<1>1. ListOK(st1, w)
  BY DEF ListOK, Data, Victims
<1>2. LowOK(st1, w, df1)
  BY DEF LowOK, Data, Victims
<1>3. CountOK(st1, w, s) /\ HogsOK(st1, w, h, c)
  BY DEF CountOK, HogsOK, Data
<1> QED BY <1>1, <1>2, <1>3 DEF Data

(* A thread that is in no queue may take any state but ready.                 *)
LEMMA StoppedOK ==
  ASSUME NEW st, NEW rq, Typed(st, rq), Queues(st, rq), NEW t \in Threads, st[t] # "ready",
         NEW v \in Stats \ {"ready"}
  PROVE  Typed([st EXCEPT ![t] = v], rq) /\ Queues([st EXCEPT ![t] = v], rq)
<1> DEFINE st1 == [st EXCEPT ![t] = v]
<1>1. st1 \in [Threads -> Stats] /\ st1[t] = v /\ \A u \in Threads \ {t} : st1[u] = st[u]
  BY DEF Typed
<1>2. \A q \in Priorities : \A i \in 1..Len(rq[q]) : rq[q][i] \in Threads /\ rq[q][i] # t
  BY LenProperties DEF Typed, Queues
<1> HIDE DEF st1
<1>3. \A u \in Threads : st1[u] = "ready" => In(rq, u)
  BY <1>1 DEF Queues
<1>4. \A q \in Priorities : \A i \in 1..Len(rq[q]) : st1[rq[q][i]] = "ready" /\ Prio[rq[q][i]] = q
  BY <1>1, <1>2 DEF Queues
<1>5. \A q \in Priorities : \A i, j \in 1..Len(rq[q]) : rq[q][i] = rq[q][j] => i = j
  BY DEF Queues
<1>6. Queues(st1, rq)
  BY <1>3, <1>4, <1>5 DEF Queues
<1> QED BY <1>1, <1>6 DEF Typed, st1

-----------------------------------------------------------------------------
(* The inductive invariant. A search that syswatch sleeps through, and thus   *)
(* every confirmation that ends, has a thread noticed.                        *)
IInv ==
  /\ hung \subseteq Victims /\ lost \subseteq Victims
  /\ fresh \subseteq Threads /\ defunct \subseteq Threads
  /\ Switched(stat, ready, cur)
  /\ Data(stat, sw_data, silence, hogs, defunct, cur)
  /\ sw_data.op_step = 1 => sw_data.lowest_thread # None

(* What the assumptions say of syswatch, the idle thread and the constants.   *)
LEMMA Facts ==
  /\ Watch \in Threads /\ Idle \in Threads /\ Watch # Idle /\ None \notin Threads
  /\ \A t \in Threads \ {Watch} : Prio[Watch] < Prio[t]
  /\ \A t \in Threads \ {Idle} : Prio[t] < Prio[Idle]
  /\ \A t \in Threads : Prio[t] \in Nat /\ Prio[t] \in Priorities
  /\ EXCEPT_TIMEOUT \in Nat \ {0} /\ CONFIRM_TMO \in Nat \ {0} /\ RESUME_DLY \in Nat \ {0}
  /\ MaxFails \in Nat /\ Ends \subseteq Victims
<1> QED BY ThreadsAssumption, SyswatchAssumption, PrioOK DEF Victims

(* The initial states satisfy it.                                             *)
LEMMA InitOK == Init => IInv
<1> SUFFICES ASSUME Init PROVE IInv
  OBVIOUS
<1>1. /\ stat \in [Threads -> Stats] /\ stat[Idle] = "running" /\ cur = Idle
      /\ \A t \in Threads \ {Idle} : stat[t] = "suspended"
  BY Facts DEF Init, Stats
<1>2. ready \in [Priorities -> Seq(Threads)] /\ \A p \in Priorities : ready[p] = <<>>
  BY DEF Init
<1>3. Switched(stat, ready, cur)
  BY <1>1, <1>2, Facts, EmptySeq DEF Switched, Typed, Queues, Alive
<1>4. /\ sw_data \in SwData /\ sw_data.op_step = 0 /\ sw_data.sec_cnt = 0
      /\ sw_data.wait_resume_slist = <<>> /\ silence = 0 /\ hogs = {}
  BY DEF Init, SwData
<1>5. ~Awake(stat)
  BY <1>1, Facts DEF Awake
<1>6. Data(stat, sw_data, silence, hogs, defunct, cur)
  BY <1>4, <1>5, EmptySeq DEF Data, ListOK, LowOK, CountOK, HogsOK
<1> QED BY <1>3, <1>4, <1>6, Facts DEF Init, IInv

(* The invariant, in the form the actions need: syswatch is awake exactly     *)
(* when it is the current thread.                                             *)
LEMMA RunningOK ==
  ASSUME IInv
  PROVE  /\ Typed(stat, ready) /\ Queues(stat, ready) /\ cur \in Threads
         /\ stat[cur] = "running" /\ \A t \in Threads : stat[t] = "running" <=> t = cur
         /\ Alive(stat) /\ Schedulable(stat, ready)
         /\ \A p \in Priorities : ready[p] # <<>> => Prio[cur] <= p
         /\ Awake(stat) <=> cur = Watch
         /\ Data(stat, sw_data, silence, hogs, defunct, cur)
         /\ sw_data \in SwData /\ silence \in Nat /\ hogs \subseteq Threads
<1>1. /\ Typed(stat, ready) /\ Queues(stat, ready) /\ cur \in Threads
      /\ \A t \in Threads : stat[t] = "running" <=> t = cur
      /\ Alive(stat) /\ \A p \in Priorities : ready[p] # <<>> => Prio[cur] <= p
  BY DEF IInv, Switched
<1>2. stat[cur] = "running" /\ Schedulable(stat, ready)
  BY <1>1 DEF Schedulable
<1>3. Awake(stat) <=> cur = Watch
  <2>1. CASE cur = Watch
    BY <1>2, <2>1 DEF Awake
  <2>2. CASE cur # Watch
    <3>1. stat[Watch] # "ready"
      <4> SUFFICES ASSUME stat[Watch] = "ready" PROVE FALSE
        OBVIOUS
      <4>1. PICK i \in 1..Len(ready[Prio[Watch]]) : ready[Prio[Watch]][i] = Watch
        BY <1>1, Facts DEF Queues, In
      <4>2. ready[Prio[Watch]] # <<>>
        BY <1>1, <4>1, Facts, EmptySeq DEF Typed
      <4>3. Prio[cur] <= Prio[Watch] /\ Prio[Watch] < Prio[cur] /\ Prio[cur] \in Nat /\ Prio[Watch] \in Nat
        BY <1>1, <2>2, <4>2, Facts
      <4> QED BY <4>3
    <3> QED BY <1>1, <2>2, <3>1, Facts DEF Awake
  <2> QED BY <2>1, <2>2
<1> QED BY <1>1, <1>2, <1>3 DEF IInv, Data

(* One lemma for every action of the other threads and for the end of a       *)
(* second.                                                                    *)
LEMMA WakeOK ==
  ASSUME IInv, NEW t \in Threads, Wake(t)
  PROVE  IInv' /\ \A u \in Threads : stat'[u] = "closed" <=> stat[u] = "closed"
<1> DEFINE st == MadeReady(stat, t)  rq == Insert(ready, t)
<1>1. /\ t # Watch /\ stat[t] = "suspended" /\ Reschedule(st, rq, FALSE)
      /\ UNCHANGED <<defunct, hung, lost>> /\ fresh' \subseteq Threads
  BY DEF Wake, IInv
<1>2. Typed(st, rq) /\ Queues(st, rq)
  BY <1>1, RunningOK, InsertOK DEF MadeReady
<1>3. /\ st \in [Threads -> Stats] /\ st[t] = "ready" /\ \A u \in Threads \ {t} : st[u] = stat[u]
  BY RunningOK DEF MadeReady, Typed, Stats
<1> HIDE DEF st, rq
<1>4. Schedulable(st, rq)
  BY <1>1, <1>2, <1>3, RunningOK, Facts DEF Schedulable, Alive
<1>5. /\ \A u \in Threads : st[u] = "closed" <=> stat[u] = "closed"
      /\ Awake(st) <=> Awake(stat)
  BY <1>1, <1>3, Facts DEF Awake
<1>6. Data(st, sw_data, silence, hogs, defunct, cur)
  BY <1>5, RunningOK, DataMono
<1>7. sw_data.op_step = 1 => sw_data.lowest_thread # None
  BY DEF IInv
<1>8. /\ Switched(stat', ready', cur')
      /\ Data(stat', sw_data', silence', hogs', defunct, cur')
      /\ sw_data'.op_step = 1 => sw_data'.lowest_thread # None
      /\ \A u \in Threads : stat'[u] = "closed" <=> st[u] = "closed"
  BY <1>1, <1>4, <1>6, <1>7, ScheduleOK DEF Reschedule
<1> QED BY <1>1, <1>5, <1>8 DEF IInv

(* Block and Exit: the current thread gives up the CPU.                       *)
LEMMA StopOK ==
  ASSUME IInv, NEW v \in {"suspended", "closed"}, cur \in Victims,
         NEW df, defunct \subseteq df, df \subseteq Threads, v = "closed" => cur \in df,
         Reschedule([stat EXCEPT ![cur] = v], ready, FALSE),
         defunct' = df, UNCHANGED <<hung, lost, fresh>>
  PROVE  IInv'
<1> DEFINE st == [stat EXCEPT ![cur] = v]
<1>1. Typed(st, ready) /\ Queues(st, ready)
  BY RunningOK, StoppedOK DEF Stats
<1>2. st \in [Threads -> Stats] /\ st[cur] = v /\ \A u \in Threads \ {cur} : st[u] = stat[u]
  BY RunningOK DEF Typed, Stats
<1>3. Reschedule(st, ready, FALSE)
  OBVIOUS
<1> HIDE DEF st
<1>4. Schedulable(st, ready)
  BY <1>1, <1>2, RunningOK, Facts DEF Schedulable, Alive, Victims
<1>5. /\ \A u \in Threads : stat[u] = "closed" => st[u] = "closed"
      /\ \A u \in Threads : st[u] = "closed" /\ stat[u] # "closed" => u \in df
      /\ Awake(st) <=> Awake(stat)
  BY <1>2, RunningOK, Facts DEF Awake, Victims
<1>6. Data(st, sw_data, silence, hogs, df, cur)
  BY <1>5, RunningOK, DataMono
<1>7. sw_data.op_step = 1 => sw_data.lowest_thread # None
  BY DEF IInv
<1>8. /\ Switched(stat', ready', cur')
      /\ Data(stat', sw_data', silence', hogs', df, cur')
      /\ sw_data'.op_step = 1 => sw_data'.lowest_thread # None
  BY <1>3, <1>4, <1>6, <1>7, ScheduleOK DEF Reschedule
<1> QED BY <1>8 DEF IInv

(* A thread blocks.                                                           *)
LEMMA BlockOK == ASSUME IInv, Block PROVE IInv'
<1>1. cur \in Victims
  BY RunningOK DEF Block, Well, Victims
<1> QED BY <1>1, StopOK DEF Block, IInv

(* A thread ends: it is closed and waits for the idle thread.                 *)
LEMMA ExitOK == ASSUME IInv, Exit PROVE IInv'
<1>1. cur \in Victims
  BY RunningOK DEF Exit, Well, Victims
<1> QED BY <1>1, RunningOK, StopOK DEF Exit, Closed, IInv

(* A time slice ends; nobody is closed.                                       *)
LEMMA SliceOK ==
  ASSUME IInv, Slice
  PROVE  IInv' /\ \A u \in Threads : stat'[u] = "closed" <=> stat[u] = "closed"
<1>1. sw_data.op_step = 1 => sw_data.lowest_thread # None
  BY DEF IInv
<1> QED BY <1>1, RunningOK, ScheduleOK DEF Slice, Reschedule, IInv

(* A second ends: syswatch is ready, the silence and the hogs grow.           *)
LEMMA SecondOK == ASSUME IInv, Second PROVE IInv'
<1> DEFINE st == MadeReady(stat, Watch)  rq == Insert(ready, Watch)
           s == silence + 1  h == hogs \cup ({cur} \ {Idle})
<1>1. /\ stat[Watch] = "suspended" /\ Schedule(st, rq, FALSE, sw_data, s, h)
      /\ UNCHANGED <<defunct, hung, lost>> /\ fresh' = {}
  BY DEF Second
<1>2. Typed(st, rq) /\ Queues(st, rq)
  BY <1>1, RunningOK, InsertOK, Facts DEF MadeReady
<1>3. st \in [Threads -> Stats] /\ st[Watch] = "ready" /\ \A u \in Threads \ {Watch} : st[u] = stat[u]
  BY RunningOK, Facts DEF MadeReady, Typed, Stats
<1>4. s \in Nat /\ s >= silence + 1 /\ h \subseteq Threads /\ (cur # Idle => cur \in h)
  BY RunningOK
<1> HIDE DEF st, rq, s, h
<1>5. Schedulable(st, rq)
  BY <1>1, <1>2, <1>3, RunningOK, Facts DEF Schedulable, Alive
<1>6. ~Awake(stat) /\ Awake(st) /\ \A u \in Threads : st[u] = "closed" <=> stat[u] = "closed"
  BY <1>1, <1>3, Facts DEF Awake
<1>7. sw_data.op_step = 1 => sw_data.lowest_thread # None
  BY DEF IInv
<1>8. ListOK(st, sw_data) /\ LowOK(st, sw_data, defunct)
  BY <1>6, RunningOK DEF Data, ListOK, LowOK, Victims
<1>9. CountOK(st, sw_data, s)
  BY <1>4, <1>6, RunningOK, Facts DEF Data, CountOK, SwData
<1>10. HogsOK(st, sw_data, h, cur)
  BY <1>4, <1>6, RunningOK DEF Data, HogsOK
<1>11. Data(st, sw_data, s, h, defunct, cur)
  BY <1>4, <1>8, <1>9, <1>10, RunningOK DEF Data
<1>12. /\ Switched(stat', ready', cur')
       /\ Data(stat', sw_data', silence', hogs', defunct, cur')
       /\ sw_data'.op_step = 1 => sw_data'.lowest_thread # None
  BY <1>1, <1>5, <1>7, <1>11, ScheduleOK
<1> QED BY <1>1, <1>12 DEF IInv

-----------------------------------------------------------------------------
(* The states once syswatch has begun its next delay.                         *)
Asleep(st) == [st EXCEPT ![Watch] = "suspended"]

(* The step of the state machine ends with a delay: what it made of the data  *)
(* must fit those states.                                                     *)
LEMMA SleepOK ==
  ASSUME NEW st, NEW rq, NEW w, NEW df, cur = Watch,
         Typed(st, rq), Queues(st, rq), st[Watch] = "running", Alive(st),
         \A t \in Threads : st[t] = "running" => t = Watch,
         Data(Asleep(st), w, silence, hogs, df, Watch), Sleep(st, rq, w)
  PROVE  /\ Switched(stat', ready', cur')
         /\ Data(stat', sw_data', silence', hogs', df, cur')
         /\ sw_data'.op_step = 1 => sw_data'.lowest_thread # None
         /\ \A t \in Threads : stat'[t] = "closed" <=> st[t] = "closed"
<1>1. /\ Asleep(st) \in [Threads -> Stats] /\ Asleep(st)[Watch] = "suspended"
      /\ \A u \in Threads \ {Watch} : Asleep(st)[u] = st[u]
  BY Facts DEF Asleep, Typed, Stats
<1>2. Typed(Asleep(st), rq) /\ Queues(Asleep(st), rq)
  BY Facts, StoppedOK DEF Asleep, Stats
<1>3. Schedulable(Asleep(st), rq)
  BY <1>1, <1>2, Facts DEF Schedulable, Alive
<1>4. ~Awake(Asleep(st))
  BY <1>1 DEF Awake
<1>5. /\ Switched(stat', ready', cur')
      /\ Data(stat', sw_data', silence', hogs', df, cur')
      /\ sw_data'.op_step = 1 => sw_data'.lowest_thread # None
      /\ \A t \in Threads : stat'[t] = "closed" <=> Asleep(st)[t] = "closed"
  <2>1. Schedule(Asleep(st), rq, FALSE, w, silence, hogs)
    BY DEF Sleep, Asleep
  <2> QED BY <1>3, <1>4, <2>1, ScheduleOK
<1>6. \A t \in Threads : Asleep(st)[t] = "closed" <=> st[t] = "closed"
  BY <1>1, Facts
<1> QED BY <1>5, <1>6

(* What is known when syswatch runs: which timeout counts, the silence        *)
(* behind its counter and, in step 1, the thread to kill.                     *)
LEMMA AsleepFacts ==
  ASSUME IInv, cur = Watch
  PROVE  /\ Typed(stat, ready) /\ Queues(stat, ready) /\ stat[Watch] = "running" /\ Alive(stat)
         /\ \A t \in Threads : stat[t] = "running" => t = Watch
         /\ ~Awake(Asleep(stat)) /\ Awake(stat)
         /\ \A t \in Threads : Asleep(stat)[t] = "closed" <=> stat[t] = "closed"
         /\ sw_data.op_step \in 0..2 /\ sw_data.sec_cnt \in Nat
         /\ sw_data.lowest_thread \in Threads \cup {None}
         /\ sw_data.wait_resume_slist \in Seq(Threads)
         /\ sw_data.op_step = 0 => /\ Timeout(sw_data.op_step) = EXCEPT_TIMEOUT
                                   /\ silence >= sw_data.sec_cnt + 1
         /\ sw_data.op_step = 1 => /\ Timeout(sw_data.op_step) = CONFIRM_TMO
                                   /\ silence >= EXCEPT_TIMEOUT + sw_data.sec_cnt + 1
                                   /\ sw_data.lowest_thread \in Victims
         /\ sw_data.op_step = 2 => Timeout(sw_data.op_step) = RESUME_DLY
<1>1. stat[Watch] = "running" /\ ~Awake(Asleep(stat)) /\ Awake(stat)
      /\ \A t \in Threads : Asleep(stat)[t] = "closed" <=> stat[t] = "closed"
  BY RunningOK, Facts DEF Awake, Asleep, Typed
<1>2. /\ sw_data.op_step \in 0..2 /\ sw_data.sec_cnt \in Nat
      /\ sw_data.lowest_thread \in Threads \cup {None}
      /\ sw_data.wait_resume_slist \in Seq(Threads)
  BY RunningOK DEF SwData
<1>3. /\ sw_data.op_step = 0 => silence >= sw_data.sec_cnt + 1
      /\ sw_data.op_step = 1 => silence >= EXCEPT_TIMEOUT + (sw_data.sec_cnt + 1)
  BY <1>1, RunningOK DEF Data, CountOK
<1>4. sw_data.op_step = 1 => sw_data.lowest_thread \in Victims
  BY DEF IInv, Data, LowOK
<1>5. /\ sw_data.op_step = 0 => Timeout(sw_data.op_step) = EXCEPT_TIMEOUT
      /\ sw_data.op_step = 1 => Timeout(sw_data.op_step) = CONFIRM_TMO
      /\ sw_data.op_step = 2 => Timeout(sw_data.op_step) = RESUME_DLY
  BY DEF Timeout
<1> QED BY <1>1, <1>2, <1>3, <1>4, <1>5, RunningOK, Facts

(* The assignments to the fields of sw_data keep its type.                    *)
LEMMA FieldsOK ==
  ASSUME NEW w \in SwData
  PROVE  /\ [w EXCEPT !.sec_cnt = 0, !.op_step = 1, !.lowest_thread = None] \in SwData
         /\ [w EXCEPT !.sec_cnt = 0, !.op_step = 0] \in SwData
         /\ [w EXCEPT !.sec_cnt = 0, !.lowest_thread = None] \in SwData
<1>1. /\ w.op_step \in 0..2 /\ w.sec_cnt \in Nat /\ w.lowest_thread \in Threads \cup {None}
      /\ w.wait_resume_slist \in Seq(Threads)
  BY DEF SwData
<1>2. [w EXCEPT !.sec_cnt = 0, !.op_step = 1, !.lowest_thread = None] \in SwData
  <2>1. PICK r : r = [w EXCEPT !.sec_cnt = 0, !.op_step = 1, !.lowest_thread = None]
    OBVIOUS
  <2>2. r = [sec_cnt |-> 0, op_step |-> 1, lowest_thread |-> None,
             wait_resume_slist |-> w.wait_resume_slist]
    BY <2>1 DEF SwData
  <2>3. r \in SwData
    BY <1>1, <2>2 DEF SwData
  <2> QED BY <2>1, <2>3
<1>3. [w EXCEPT !.sec_cnt = 0, !.op_step = 0] \in SwData
  <2>1. PICK r : r = [w EXCEPT !.sec_cnt = 0, !.op_step = 0]
    OBVIOUS
  <2>2. r = [sec_cnt |-> 0, op_step |-> 0, lowest_thread |-> w.lowest_thread,
             wait_resume_slist |-> w.wait_resume_slist]
    BY <2>1 DEF SwData
  <2>3. r \in SwData
    BY <1>1, <2>2 DEF SwData
  <2> QED BY <2>1, <2>3
<1>4. [w EXCEPT !.sec_cnt = 0, !.lowest_thread = None] \in SwData
  <2>1. PICK r : r = [w EXCEPT !.sec_cnt = 0, !.lowest_thread = None]
    OBVIOUS
  <2>2. r = [sec_cnt |-> 0, op_step |-> w.op_step, lowest_thread |-> None,
             wait_resume_slist |-> w.wait_resume_slist]
    BY <2>1 DEF SwData
  <2>3. r \in SwData
    BY <1>1, <2>2 DEF SwData
  <2> QED BY <2>1, <2>3
<1> QED BY <1>2, <1>3, <1>4

(* One lemma for every step of the state machine.                             *)
LEMMA CountStepOK ==
  ASSUME IInv, Count
  PROVE  IInv' /\ \A u \in Threads : stat'[u] = "closed" <=> stat[u] = "closed"
<1> DEFINE w == [sw_data EXCEPT !.sec_cnt = @ + 1]
<1>1. cur = Watch /\ ~TimedOut /\ Sleep(stat, ready, w) /\ UNCHANGED <<defunct, hung, lost, fresh>>
  BY DEF Count
<1>2. /\ w \in SwData /\ w.op_step = sw_data.op_step /\ w.sec_cnt = sw_data.sec_cnt + 1
      /\ w.lowest_thread = sw_data.lowest_thread
      /\ w.wait_resume_slist = sw_data.wait_resume_slist
  BY RunningOK DEF SwData
<1> HIDE DEF w
<1>3. ListOK(Asleep(stat), w)
  BY <1>1, <1>2, AsleepFacts, RunningOK, Facts DEF Data, ListOK, Victims, TimedOut
<1>4. LowOK(Asleep(stat), w, defunct)
  BY <1>1, <1>2, AsleepFacts, RunningOK DEF Data, LowOK, Victims
<1>5. CountOK(Asleep(stat), w, silence)
  BY <1>1, <1>2, AsleepFacts, RunningOK, Facts DEF CountOK
<1>6. HogsOK(Asleep(stat), w, hogs, Watch)
  <2>1. sw_data.op_step = 1 => Prio[Watch] <= Prio[sw_data.lowest_thread]
    BY <1>1, AsleepFacts, Facts DEF Victims
  <2> QED BY <1>1, <1>2, <2>1, AsleepFacts DEF HogsOK
<1>7. Data(Asleep(stat), w, silence, hogs, defunct, Watch)
  BY <1>2, <1>3, <1>4, <1>5, <1>6, RunningOK, Facts DEF Data
<1>8. /\ Switched(stat', ready', cur')
      /\ Data(stat', sw_data', silence', hogs', defunct, cur')
      /\ sw_data'.op_step = 1 => sw_data'.lowest_thread # None
      /\ \A t \in Threads : stat'[t] = "closed" <=> stat[t] = "closed"
  BY <1>1, <1>7, AsleepFacts, SleepOK
<1> QED BY <1>1, <1>8 DEF IInv

(* The search begins: the silence covers the whole detection time.            *)
LEMMA SuspectOK ==
  ASSUME IInv, Suspect
  PROVE  IInv' /\ \A u \in Threads : stat'[u] = "closed" <=> stat[u] = "closed"
<1> DEFINE w == [sw_data EXCEPT !.sec_cnt = 0, !.op_step = 1, !.lowest_thread = None]
<1>1. /\ cur = Watch /\ TimedOut /\ sw_data.op_step = 0 /\ Sleep(stat, ready, w)
      /\ UNCHANGED <<defunct, hung, lost, fresh>>
  BY SMTT(30) DEF Suspect
<1>2. /\ w.op_step = 1 /\ w.sec_cnt = 0 /\ w.lowest_thread = None
      /\ w.wait_resume_slist = sw_data.wait_resume_slist
  BY SMTT(30), RunningOK DEF SwData
<1>3. w \in SwData
  <2>1. sw_data \in SwData /\ sw_data.wait_resume_slist \in Seq(Threads)
    BY <1>1, RunningOK, AsleepFacts
  <2> HIDE DEF w
  <2> QED BY <2>1, FieldsOK DEF w
<1> HIDE DEF w
<1>4. ListOK(Asleep(stat), w)
  BY <1>1, <1>2, AsleepFacts, RunningOK DEF Data, ListOK, Victims
<1>5. CountOK(Asleep(stat), w, silence)
  BY <1>1, <1>2, AsleepFacts, RunningOK, Facts DEF CountOK, TimedOut
<1>6. Data(Asleep(stat), w, silence, hogs, defunct, Watch)
  BY <1>2, <1>3, <1>4, <1>5, RunningOK, Facts DEF Data, LowOK, HogsOK
<1>7. /\ Switched(stat', ready', cur')
      /\ Data(stat', sw_data', silence', hogs', defunct, cur')
      /\ sw_data'.op_step = 1 => sw_data'.lowest_thread # None
      /\ \A t \in Threads : stat'[t] = "closed" <=> stat[t] = "closed"
  BY <1>1, <1>6, AsleepFacts, SleepOK
<1> QED BY <1>1, <1>7 DEF IInv

(* The loop ends with an empty list.                                          *)
LEMMA ResumeEndsOK ==
  ASSUME IInv, ResumeEnds
  PROVE  IInv' /\ \A u \in Threads : stat'[u] = "closed" <=> stat[u] = "closed"
<1> DEFINE w == [sw_data EXCEPT !.sec_cnt = 0, !.op_step = 0]
<1>1. /\ cur = Watch /\ sw_data.wait_resume_slist = <<>> /\ Sleep(stat, ready, w)
      /\ UNCHANGED <<defunct, hung, lost, fresh>>
  BY DEF ResumeEnds
<1>2. /\ w.op_step = 0 /\ w.sec_cnt = 0 /\ w.wait_resume_slist = <<>>
  BY SMTT(30), <1>1, RunningOK DEF SwData
<1>3. w \in SwData
  <2>1. /\ sw_data \in SwData /\ sw_data.wait_resume_slist \in Seq(Threads)
        /\ sw_data.lowest_thread \in Threads \cup {None}
    BY <1>1, RunningOK, AsleepFacts
  <2> HIDE DEF w
  <2> QED BY <2>1, FieldsOK DEF w
<1> HIDE DEF w
<1>4. ListOK(Asleep(stat), w)
  BY <1>2, EmptySeq DEF ListOK
<1>5. CountOK(Asleep(stat), w, silence)
  BY <1>1, <1>2, AsleepFacts, RunningOK DEF CountOK
<1>6. Data(Asleep(stat), w, silence, hogs, defunct, Watch)
  BY <1>2, <1>3, <1>4, <1>5, RunningOK, Facts DEF Data, LowOK, HogsOK
<1>7. /\ Switched(stat', ready', cur')
      /\ Data(stat', sw_data', silence', hogs', defunct, cur')
      /\ sw_data'.op_step = 1 => sw_data'.lowest_thread # None
      /\ \A t \in Threads : stat'[t] = "closed" <=> stat[t] = "closed"
  BY <1>1, <1>6, AsleepFacts, SleepOK
<1> QED BY <1>1, <1>7 DEF IInv
(* The kill. It also gives what the action properties say of it.              *)
LEMMA ResolveOK == 
  ASSUME IInv, Resolve
  PROVE  /\ IInv'
         /\ \A u \in Threads : stat'[u] = "closed" /\ stat[u] # "closed" => u = sw_data.lowest_thread
         /\ sw_data.lowest_thread \in Victims
         /\ silence >= EXCEPT_TIMEOUT + CONFIRM_TMO
         /\ \E h \in hogs : Prio[h] <= Prio[sw_data.lowest_thread]
<1> DEFINE t == sw_data.lowest_thread
<1>1. /\ cur = Watch /\ TimedOut /\ sw_data.op_step = 1 /\ UNCHANGED fresh
      /\ \/ /\ Kill(t, [Resolved EXCEPT !.wait_resume_slist = Append(@, t)])
            /\ UNCHANGED lost
         \/ /\ Cardinality(lost) < MaxFails /\ lost' = lost \cup {t}
            /\ Kill(t, Resolved)
  BY DEF Resolve
<1>2. /\ t \in Victims /\ t \in Threads /\ t # Watch /\ t # Idle
      /\ stat[t] # "closed" \/ t \in defunct
      /\ silence >= EXCEPT_TIMEOUT + CONFIRM_TMO
      /\ \E h \in hogs : Prio[h] <= Prio[t]
      /\ \A i \in 1..Len(sw_data.wait_resume_slist) : sw_data.wait_resume_slist[i] # t
  <2>1. t \in Victims /\ t # None
    BY <1>1, AsleepFacts, Facts DEF Victims
  <2>2. silence >= EXCEPT_TIMEOUT + CONFIRM_TMO
    BY <1>1, AsleepFacts, RunningOK, Facts DEF TimedOut
  <2>3. \E h \in hogs : Prio[h] <= Prio[t]
    BY <1>1, <2>1, AsleepFacts, RunningOK DEF Data, HogsOK
  <2> QED BY <1>1, <2>1, <2>2, <2>3, RunningOK DEF Victims, Data, LowOK
<1>3. PICK w : /\ w \in {Resolved, [Resolved EXCEPT !.wait_resume_slist = Append(@, t)]}
               /\ Kill(t, w)
               /\ lost' \subseteq Victims
  BY <1>1, <1>2, Facts DEF IInv
<1> DEFINE list == sw_data.wait_resume_slist
<1>4. /\ w \in SwData /\ w.op_step = 1 /\ w.sec_cnt = 0 /\ w.lowest_thread = None
      /\ w.wait_resume_slist \in {list, Append(list, t)}
      /\ list \in Seq(Threads)
  <2>1. sw_data \in SwData /\ list \in Seq(Threads)
    BY <1>1, RunningOK, AsleepFacts
  <2>2. /\ Resolved \in SwData /\ Resolved.op_step = 1 /\ Resolved.sec_cnt = 0
        /\ Resolved.lowest_thread = None /\ Resolved.wait_resume_slist = list
    BY <1>1, <2>1, FieldsOK DEF Resolved, SwData
  <2>3. Append(list, t) \in Seq(Threads)
    BY <1>2, <2>1, AppendProperties
  <2>4. PICK r : r = Resolved
    OBVIOUS
  <2>5. CASE w = r
    BY <2>1, <2>2, <2>4, <2>5
  <2>6. CASE w = [r EXCEPT !.wait_resume_slist = Append(@, t)]
    BY <2>1, <2>2, <2>3, <2>4, <2>6 DEF SwData
  <2> QED BY <1>3, <2>4, <2>5, <2>6
<1> DEFINE st == [stat EXCEPT ![t] = "closed"]
           rq == IF stat[t] = "closed" THEN ready ELSE Remove(ready, t)
           df == IF stat[t] = "closed" THEN defunct ELSE defunct \cup {t}
<1>5. /\ st \in [Threads -> Stats] /\ st[t] = "closed"
      /\ \A u \in Threads \ {t} : st[u] = stat[u]
  BY <1>2, RunningOK DEF Typed, Stats
<1>6. /\ Sleep(st, rq, w) /\ defunct' = df /\ df \subseteq Threads /\ hung' \subseteq Victims
      /\ Typed(st, rq) /\ Queues(st, rq)
  <2>1. CASE stat[t] = "closed"
    <3>1. st = stat
      BY <2>1, <1>2, RunningOK DEF Typed
    <3> HIDE DEF st
    <3> QED BY <2>1, <3>1, <1>3, RunningOK DEF Kill, IInv
  <2>2. CASE stat[t] # "closed"
    BY <2>2, <1>2, <1>3, RunningOK, RemoveOK DEF Kill, IInv, Closed
  <2> QED BY <2>1, <2>2
<1> HIDE DEF st, rq, df, list, t
<1>7. /\ st[Watch] = "running" /\ Alive(st)
      /\ \A u \in Threads : st[u] = "running" => u = Watch
  BY <1>1, <1>2, <1>5, AsleepFacts, Facts DEF Alive, Stats
<1>8. ListOK(Asleep(st), w)
  <2>1. /\ Asleep(st)[t] = "closed"
        /\ \A u \in Victims : stat[u] = "closed" => Asleep(st)[u] = "closed"
    BY <1>2, <1>5, Facts DEF Asleep, Victims
  <2>2. /\ \A i \in 1..Len(list) : list[i] \in Victims /\ stat[list[i]] = "closed" /\ list[i] # t
        /\ \A i, j \in 1..Len(list) : list[i] = list[j] => i = j
    BY <1>2, RunningOK DEF Data, ListOK, list, t
  <2>3. CASE w.wait_resume_slist = list
    BY <1>4, <2>1, <2>2, <2>3 DEF ListOK
  <2>4. CASE w.wait_resume_slist = Append(list, t)
    <3> DEFINE new == w.wait_resume_slist
    <3>1. /\ Len(list) \in Nat /\ Len(new) = Len(list) + 1 /\ new[Len(list) + 1] = t
          /\ \A i \in 1..Len(list) : new[i] = list[i]
      BY <1>2, <1>4, <2>4, AppendProperties, LenProperties
    <3>2. \A i \in 1..Len(new) : i \in 1..Len(list) \/ i = Len(list) + 1
      BY <3>1
    <3> HIDE DEF new
    <3>3. \A i \in 1..Len(new) : new[i] \in Victims /\ Asleep(st)[new[i]] = "closed"
      BY <1>2, <2>1, <2>2, <3>1, <3>2
    <3>4. \A i, j \in 1..Len(new) : new[i] = new[j] => i = j
      BY <2>2, <3>1, <3>2
    <3> QED BY <1>4, <3>3, <3>4 DEF ListOK, new
  <2> QED BY <1>4, <2>3, <2>4
<1>9. CountOK(Asleep(st), w, silence)
  <2>1. ~Awake(Asleep(st))
    BY <1>5, Facts DEF Awake, Asleep
  <2>2. silence \in Nat /\ silence >= EXCEPT_TIMEOUT
    BY <1>2, RunningOK, Facts
  <2> QED BY <1>4, <2>1, <2>2, Facts DEF CountOK
<1>10. Data(Asleep(st), w, silence, hogs, df, Watch)
  BY <1>4, <1>8, <1>9, RunningOK, Facts DEF Data, LowOK, HogsOK
<1>11. /\ Switched(stat', ready', cur')
       /\ Data(stat', sw_data', silence', hogs', df, cur')
       /\ sw_data'.op_step = 1 => sw_data'.lowest_thread # None
       /\ \A u \in Threads : stat'[u] = "closed" <=> st[u] = "closed"
  BY <1>1, <1>6, <1>7, <1>10, SleepOK
<1>12. IInv'
  BY <1>1, <1>3, <1>6, <1>11 DEF IInv
<1> QED BY <1>2, <1>5, <1>11, <1>12 DEF t

(* One round of the loop that resumes: syswatch goes on running.              *)
LEMMA ResumeOK ==
  ASSUME IInv, Resume
  PROVE  IInv' /\ \A u \in Threads : stat'[u] = "closed" => stat[u] = "closed"
<1> DEFINE list == sw_data.wait_resume_slist  t == Head(list)  w == sw_data'
<1>1. /\ cur = Watch /\ TimedOut /\ sw_data.op_step = 2 /\ list # <<>>
      /\ w = [sw_data EXCEPT !.wait_resume_slist = Tail(@)]
      /\ UNCHANGED <<cur, defunct, hung, silence, hogs, fresh>>
      /\ \/ stat' = MadeReady(stat, t) /\ ready' = Insert(ready, t) /\ UNCHANGED lost
         \/ Cardinality(lost) < MaxFails /\ lost' = lost \cup {t} /\ UNCHANGED <<stat, ready>>
  BY DEF Resume
<1>2. /\ list \in Seq(Threads) /\ Len(list) \in Nat \ {0} /\ t = list[1]
      /\ Tail(list) \in Seq(Threads) /\ Len(Tail(list)) = Len(list) - 1
      /\ \A i \in 1..Len(Tail(list)) : Tail(list)[i] = list[i+1]
  <2>1. list \in Seq(Threads)
    BY <1>1, AsleepFacts
  <2> QED BY <1>1, <2>1, LenProperties, EmptySeq, HeadTailProperties
<1>3. /\ \A i \in 1..Len(list) : list[i] \in Victims /\ stat[list[i]] = "closed"
      /\ \A i, j \in 1..Len(list) : list[i] = list[j] => i = j
  BY RunningOK DEF Data, ListOK
<1>4. t \in Victims /\ t \in Threads /\ t # Watch /\ stat[t] = "closed"
  BY <1>2, <1>3 DEF Victims
<1>5. /\ w \in SwData /\ w.op_step = 2 /\ w.sec_cnt = sw_data.sec_cnt
      /\ w.wait_resume_slist = Tail(list)
  <2>1. sw_data \in SwData
    BY RunningOK
  <2> QED BY <1>1, <1>2, <2>1 DEF SwData
<1> HIDE DEF t, w, list
<1>6. /\ Typed(stat', ready') /\ Queues(stat', ready')
      /\ lost' \subseteq Victims
      /\ stat'[t] \in {"closed", "ready"} /\ \A u \in Threads \ {t} : stat'[u] = stat[u]
  <2>1. CASE stat' = MadeReady(stat, t) /\ ready' = Insert(ready, t) /\ UNCHANGED lost
    BY <2>1, <1>4, RunningOK, InsertOK DEF MadeReady, IInv, Typed
  <2>2. CASE Cardinality(lost) < MaxFails /\ lost' = lost \cup {t} /\ UNCHANGED <<stat, ready>>
    BY <2>2, <1>4, RunningOK, Facts DEF IInv
  <2> QED BY <1>1, <2>1, <2>2
<1>7. Switched(stat', ready', cur')
  <2>1. cur' = Watch /\ stat'[Watch] = "running"
    BY <1>1, <1>4, <1>6, RunningOK
  <2>2. \A u \in Threads : stat'[u] = "running" <=> u = Watch
    BY <1>1, <1>4, <1>6, RunningOK
  <2>3. \A p \in Priorities : Prio[Watch] <= p
    BY Facts DEF Priorities
  <2>4. Alive(stat')
    BY <1>4, <1>6, RunningOK, Facts DEF Alive, Victims
  <2> QED BY <1>6, <2>1, <2>2, <2>3, <2>4, Facts DEF Switched
<1>8. ListOK(stat', w)
  <2>1. \A i \in 1..Len(Tail(list)) : i + 1 \in 1..Len(list) /\ 1 \in 1..Len(list) /\ i + 1 # 1
    BY <1>2
  <2>2. \A i \in 1..Len(Tail(list)) :
          Tail(list)[i] \in Victims /\ Tail(list)[i] # t /\ stat[Tail(list)[i]] = "closed"
    BY <1>2, <1>3, <2>1
  <2>3. \A i \in 1..Len(Tail(list)) : stat'[Tail(list)[i]] = "closed"
    BY <1>6, <2>2 DEF Victims
  <2>4. \A i, j \in 1..Len(Tail(list)) : Tail(list)[i] = Tail(list)[j] => i = j
    <3> SUFFICES ASSUME NEW i \in 1..Len(Tail(list)), NEW j \in 1..Len(Tail(list)),
                        Tail(list)[i] = Tail(list)[j]
                 PROVE  i = j
      OBVIOUS
    <3>1. i + 1 \in 1..Len(list) /\ j + 1 \in 1..Len(list) /\ list[i+1] = list[j+1]
      BY <1>2, <2>1
    <3>2. i + 1 = j + 1
      BY <1>3, <3>1
    <3> QED BY <3>2
  <2>5. Awake(stat') /\ w.sec_cnt + 1 >= RESUME_DLY
    BY <1>1, <1>4, <1>5, <1>6, AsleepFacts, RunningOK, Facts DEF TimedOut, Awake
  <2> QED BY <1>5, <2>2, <2>3, <2>4, <2>5 DEF ListOK
<1>9. Data(stat', w, silence', hogs', defunct', cur')
  BY <1>1, <1>5, <1>8, RunningOK DEF Data, LowOK, CountOK, HogsOK
<1>10. IInv'
  BY <1>1, <1>5, <1>6, <1>7, <1>9 DEF IInv, w
<1> QED BY <1>4, <1>6, <1>10

(* The idle thread frees objects only outside of a search.                    *)
LEMMA IdleFreesOK == ASSUME IInv, IdleFrees PROVE IInv' /\ UNCHANGED stat
<1>1. sw_data.op_step # 1
  BY RunningOK DEF IdleFrees, Data
<1>2. Data(stat, sw_data, silence, hogs, {}, cur)
  BY <1>1, RunningOK DEF Data, LowOK
<1> QED BY <1>2 DEF IdleFrees, IInv

(* A hang changes nothing the kernel sees.                                    *)
LEMMA HangOK == ASSUME IInv, Hang PROVE IInv' /\ UNCHANGED stat
<1>1. cur \in Victims
  BY RunningOK DEF Hang, Well, Victims
<1> QED BY <1>1 DEF Hang, IInv, kernel

(* The invariant is inductive.                                                *)
LEMMA NextOK == ASSUME IInv, [Next]_vars PROVE IInv'
<1>1. CASE \E t \in Threads : Wake(t)
  BY <1>1, WakeOK
<1>2. CASE Fsm
  BY <1>2, CountStepOK, SuspectOK, ResolveOK, ResumeOK, ResumeEndsOK DEF Fsm
<1>3. CASE UNCHANGED vars
  BY <1>3 DEF vars, kernel, IInv
<1> QED BY <1>1, <1>2, <1>3, BlockOK, ExitOK, SliceOK, HangOK, IdleFreesOK, SecondOK DEF Next

(* Only Resolve kills: no other step of syswatch closes a thread.             *)
LEMMA KillsOK ==
  ASSUME IInv, [Next]_vars, NEW t \in Threads, Killed(t)
  PROVE  /\ silence >= EXCEPT_TIMEOUT + CONFIRM_TMO
         /\ \E h \in hogs : Prio[h] <= Prio[t]
<1>1. cur = Watch /\ stat[t] # "closed" /\ stat'[t] = "closed"
  BY DEF Killed
<1>2. CASE \E u \in Threads : Wake(u)
  BY <1>1, <1>2, WakeOK
<1>3. CASE Block \/ Exit \/ Hang
  BY <1>1, <1>3 DEF Block, Exit, Hang, Well
<1>4. CASE Slice
  BY <1>1, <1>4, SliceOK
<1>5. CASE IdleFrees
  BY <1>1, <1>5 DEF IdleFrees
<1>6. CASE Second
  <2>1. stat[Watch] = "suspended"
    BY <1>6 DEF Second
  <2> QED BY <1>1, <2>1, RunningOK
<1>7. CASE Count \/ Suspect \/ Resume \/ ResumeEnds
  BY <1>1, <1>7, CountStepOK, SuspectOK, ResumeOK, ResumeEndsOK
<1>8. CASE Resolve
  BY <1>1, <1>8, ResolveOK
<1>9. CASE UNCHANGED vars
  BY <1>1, <1>9 DEF vars, kernel
<1> QED BY <1>2, <1>3, <1>4, <1>5, <1>6, <1>7, <1>8, <1>9 DEF Next, Fsm

(* What the runs check follows from the invariant.                            *)
LEMMA IInvImplies == IInv => TypeOK /\ SchedulerOK /\ ListMatchesStep /\ NoDangling
<1> SUFFICES ASSUME IInv PROVE TypeOK /\ SchedulerOK /\ ListMatchesStep /\ NoDangling
  OBVIOUS
<1>1. TypeOK
  BY RunningOK DEF TypeOK, KernelTypeOK, Typed, IInv, Victims
<1>2. SchedulerOK
  <2>1. ASSUME NEW t \in Threads
        PROVE  /\ stat[t] = "running" <=> t = cur
               /\ stat[t] = "ready" => \E i \in 1..Len(ready[Prio[t]]) : ready[Prio[t]][i] = t
    BY RunningOK DEF Queues, In
  <2>2. ASSUME NEW p \in Priorities, NEW i \in 1..Len(ready[p])
        PROVE  /\ stat[ready[p][i]] = "ready" /\ Prio[ready[p][i]] = p /\ Prio[cur] <= p
               /\ \A j \in 1..i-1 : ready[p][j] # ready[p][i]
    <3>1. ready[p] \in Seq(Threads) /\ Len(ready[p]) \in Nat
      BY RunningOK, LenProperties DEF Typed
    <3>2. ready[p] # <<>>
      BY <3>1, EmptySeq
    <3>3. \A j \in 1..i-1 : j \in 1..Len(ready[p]) /\ j # i
      BY <3>1
    <3> QED BY <3>2, <3>3, RunningOK DEF Queues
  <2> QED BY <2>1, <2>2 DEF SchedulerOK
<1>3. ListMatchesStep
  BY RunningOK DEF ListMatchesStep, Data, ListOK
<1>4. NoDangling
  BY RunningOK DEF NoDangling, Data, LowOK, Victims, IInv
<1> QED BY <1>1, <1>2, <1>3, <1>4

(* IInv holds in every reachable state.                                       *)
LEMMA Inductive == Spec => []IInv
<1> QED BY InitOK, NextOK, PTL DEF Spec

(* The variables keep their types whatever the threads do: in particular the  *)
(* current thread, the queues and lowest_thread always name threads.          *)
THEOREM Typing == Spec => []TypeOK
<1> QED BY Inductive, IInvImplies, PTL

(* Kill, resume, wake and every switch keep the queues and the states of the  *)
(* threads in step (SchedulerOK): no killed thread is ever switched to, no    *)
(* ready thread is lost, no thread is queued twice.                           *)
THEOREM Scheduling == Spec => []SchedulerOK
<1> QED BY Inductive, IInvImplies, PTL

(* The list of saved threads agrees with the step of the state machine        *)
(* (ListMatchesStep): whoever is in it is dead, once, and a resume delay has  *)
(* someone to resume.                                                         *)
THEOREM ListFits == Spec => []ListMatchesStep
<1> QED BY Inductive, IInvImplies, PTL

(* lowest_thread is used only while its object exists (NoDangling), and at    *)
(* the end of every confirmation it points to a thread that may be killed:    *)
(* the early return of syswatch_thread_except_resolve is never taken.         *)
THEOREM NoDanglingThread == Spec => []NoDangling
<1> QED BY Inductive, IInvImplies, PTL

(* A kill comes only after the idle thread was out of reach for the           *)
(* detection and the confirmation time together (KillsAfterSilence).          *)
THEOREM KillsLate == Spec => KillsAfterSilence
<1>1. IInv /\ [Next]_vars => [\A t \in Threads : Killed(t) => silence >= EXCEPT_TIMEOUT + CONFIRM_TMO]_vars
  BY KillsOK
<1> QED BY <1>1, Inductive, PTL DEF Spec, KillsAfterSilence

(* A kill never hits a thread that is higher than all that were running at    *)
(* the ends of those seconds (SparesHigher).                                  *)
THEOREM KillsNoHigher == Spec => SparesHigher
<1>1. IInv /\ [Next]_vars => [\A t \in Threads : Killed(t) => \E h \in hogs : Prio[h] <= Prio[t]]_vars
  BY KillsOK
<1> QED BY <1>1, Inductive, PTL DEF Spec, SparesHigher
=============================================================================
