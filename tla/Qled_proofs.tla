---------------------------- MODULE Qled_proofs ----------------------------
(***************************************************************************)
(* What the LEDs show, for any number of slots, pins and times and for     *)
(* sequences of any times.                                                 *)
(***************************************************************************)
EXTENDS Qled, WellFoundedInduction, TLAPS

-----------------------------------------------------------------------------
(* Definitions.                                                            *)

\* The table has no lock, and the boot loader keeps it this way: one thread
\* calls at a time, and not for an LED whose callback is going to remove it.
Alone == Careful /\ \A c, d \in Clients : c = d

BlinkPlans == [ton : Times, toff : Times]
SpecialPlans == [datas : Patterns, over_cb : Callbacks]

PlanFits(mode, plan) ==
    /\ mode = "BLINK" => plan \in BlinkPlans
    /\ mode = "SPECIAL" => plan \in SpecialPlans

\* A slot has the times of its mode and is at one of them.
SlotFits(d) ==
    /\ PlanFits(d.mode, d.plan)
    /\ d.mode = "SPECIAL" => d.idx < Len(d.plan.datas)

Port == [out : BOOLEAN, high : BOOLEAN]
Typed(s) ==
    /\ s \in [datas : [Slots -> Slot], port : [Pins -> Port]]
    /\ \A i \in Slots : SlotFits(s.datas[i])

WishOK(w) == w \in Wishes /\ PlanFits(w.mode, w.plan)

\* A call sets what its steps are about to set.
CallOK(k) ==
    /\ k \in Calls
    /\ k # NoCall =>
        /\ WishOK(k.wish)
        /\ k.at \in {"set_mode", "set_switch"} => k.wish.mode \in {"OFF", "ON"}
        /\ k.at = "set_run" => k.wish.mode \in {"BLINK", "SPECIAL"}
        /\ k.at \in {"add_init", "add_off", "add_store"} => k.wish.mode = "added"
        /\ k.at \in {"remove_deinit", "remove_clear"} => k.wish = Removed

Types ==
    /\ Typed(State)
    /\ call \in [Clients -> Calls] /\ \A c \in Clients : CallOK(call[c])
    /\ asked \in [Pins -> Wishes] /\ \A p \in Pins : WishOK(asked[p])
    /\ age \in [Pins -> Nat]

-----------------------------------------------------------------------------
(* The table, for the pins that nobody is busy with and for the others.    *)

\* No pin has two slots, and every slot knows the level of its pin.
Distinct(d) == \A i, j \in Slots : d[i].pin = d[j].pin /\ d[i].pin # None => i = j
Levels == \A i \in Slots : datas[i].pin # None => datas[i].level = Wired[datas[i].pin]

\* An LED that its callback is going to remove is in the table, and nobody
\* calls for it.
Removing(d) == d.mode = "SPECIAL" /\ d.plan.over_cb = "remove"
Removals ==
    \A i \in Slots : Removing(datas[i]) => datas[i].pin # None /\ \A p \in Pins : Busy(p) => datas[i].pin # p

\* Slot i belongs to pin p; or it is free, and p has none.
Holds(i, p) == datas[i].pin = p
NoSlot(p) == \A j \in Slots : datas[j].pin # p
Free(i, p) == NoSlot(p) /\ datas[i].pin = None

CallFits(p, i, at, mode) ==
    /\ at = "add_init" => Free(i, p) \/ (Holds(i, p) /\ port[p].out)
    /\ at \in {"add_off", "add_store"} => (Free(i, p) \/ Holds(i, p)) /\ port[p].out
    /\ at \in {"remove_deinit", "set_mode", "set_switch", "set_run"} => Holds(i, p) /\ port[p].out
    /\ at = "set_switch" => datas[i].mode = mode
    /\ at = "remove_clear" => Holds(i, p) /\ ~port[p].out

CallsFit ==
    \A c \in Clients, k \in Calls :
        call[c] = k /\ k # NoCall => CallFits(k.pin, k.idx, k.at, k.wish.mode)

\* Where in its times a slot is, n passes after they were asked for.
BlinkAt(d, plan, n) ==
    \/ d.idx = 0 /\ n < Lasts(plan.ton) /\ d.cnt + n = plan.ton
    \/ /\ d.idx = 1 /\ n >= Lasts(plan.ton) /\ n < Lasts(plan.ton) + Lasts(plan.toff)
       /\ d.cnt + (n - Lasts(plan.ton)) = plan.toff

SpecialAt(d, seq, n) ==
    /\ d.idx < Len(seq)
    /\ n >= Until(seq, d.idx) /\ n < Until(seq, d.idx + 1)
    /\ d.cnt + (n - Until(seq, d.idx)) = seq[d.idx + 1]

Follows(d, w, n) ==
    /\ w.mode \in {"OFF", "ON"} => d.mode = w.mode
    /\ w.mode = "BLINK" => d.mode = "BLINK" /\ d.plan = w.plan /\ BlinkAt(d, w.plan, n)
    /\ w.mode = "SPECIAL" =>
        \/ d.mode = "SPECIAL" /\ d.plan = w.plan /\ SpecialAt(d, w.plan.datas, n)
        \/ d.mode = "OFF" /\ w.plan.over_cb = "null" /\ n >= Length(w.plan.datas)

\* What holds of a pin that nobody is busy with: it has a slot if it should,
\* the slot is where it should be in its times, and so is the light.
Good(p) ==
    /\ IF asked[p].mode = "removed" THEN NoSlot(p) /\ ~port[p].out
       ELSE (\E i \in Slots : Holds(i, p)) /\ port[p].out
    /\ \A i \in Slots : Holds(i, p) => Follows(datas[i], asked[p], age[p])
    /\ asked[p].mode # "added" => (Lit(p) <=> ShouldBeLit(asked[p], age[p]))

\* The inductive invariant.
InStep == Distinct(datas) /\ Levels /\ Removals /\ CallsFit /\ \A p \in Pins : ~Busy(p) => Good(p)

-----------------------------------------------------------------------------
(* Induction, and the two recursive functions: the sum of the times of a   *)
(* sequence, and the pass over the table.                                  *)

\* Induction on the natural numbers, for a set of them.
LEMMA SetInduction ==
  ASSUME NEW S \in SUBSET Nat, 0 \in S, \A n \in S : n + 1 \in S
  PROVE  \A n \in Nat : n \in S
<1> DEFINE R == {ss \in Nat \X Nat : ss[1] < ss[2]}  T == Nat \ S
<1>1. IsWellFoundedOn(R, Nat)
  BY NatLessThanWellFounded DEF OpToRel
<1>2. SUFFICES ASSUME T # {} PROVE FALSE
  OBVIOUS
<1>3. PICK x \in T : \A y \in T : ~ (<<y, x>> \in R)
  <2>1. T \subseteq Nat
    OBVIOUS
  <2> HIDE DEF R, T
  <2> QED BY <1>1, <1>2, <2>1, WFMin
<1>4. x # 0 /\ x \in Nat /\ x - 1 \in Nat
  BY <1>3
<1>5. x - 1 \notin T
  <2>1. <<x - 1, x>> \in R
    BY <1>4
  <2> QED BY <1>3, <2>1
<1>6. x - 1 \in S
  BY <1>4, <1>5
<1>7. (x - 1) + 1 \in S
  BY <1>6
<1> QED BY <1>3, <1>4, <1>7

IsSum(g, seq, k) == g = [i \in 0 .. k |-> IF i = 0 THEN 0 ELSE g[i - 1] + Lasts(seq[i])]

\* The elements of the sum, for any sequence of numbers.
LEMMA SumAt ==
  ASSUME NEW seq, NEW k \in Nat, NEW g, IsSum(g, seq, k), NEW i \in 0 .. k
  PROVE  g[i] = IF i = 0 THEN 0 ELSE g[i - 1] + Lasts(seq[i])
<1> DEFINE G(j) == IF j = 0 THEN 0 ELSE g[j - 1] + Lasts(seq[j])
<1>1. g = [j \in 0 .. k |-> G(j)]
  BY DEF IsSum
<1> HIDE DEF G
<1>2. g[i] = G(i)
  BY <1>1
<1> QED BY <1>2 DEF G

\* A function with those elements is the sum.
LEMMA SumIs ==
  ASSUME NEW seq, NEW k \in Nat, NEW h, h = [i \in 0 .. k |-> h[i]],
         \A i \in 0 .. k : h[i] = IF i = 0 THEN 0 ELSE h[i - 1] + Lasts(seq[i])
  PROVE  IsSum(h, seq, k)
<1> DEFINE G(j) == IF j = 0 THEN 0 ELSE h[j - 1] + Lasts(seq[j])
<1>1. \A j \in 0 .. k : h[j] = G(j)
  OBVIOUS
<1> HIDE DEF G
<1>2. h = [j \in 0 .. k |-> G(j)]
  BY <1>1
<1> QED BY <1>2 DEF G, IsSum

\* The sum exists up to every position.
LEMMA SumExists ==
  ASSUME NEW seq
  PROVE  \A k \in Nat : \E g : IsSum(g, seq, k)
<1> DEFINE S == {m \in Nat : \E g : IsSum(g, seq, m)}
<1>1. 0 \in S
  <2> DEFINE h == [i \in 0 .. 0 |-> 0]
  <2>1. h = [i \in 0 .. 0 |-> h[i]] /\ \A i \in 0 .. 0 : i = 0 /\ h[i] = 0
    OBVIOUS
  <2> HIDE DEF h
  <2>2. \A i \in 0 .. 0 : h[i] = IF i = 0 THEN 0 ELSE h[i - 1] + Lasts(seq[i])
    BY <2>1
  <2>3. 0 \in Nat
    OBVIOUS
  <2>4. IsSum(h, seq, 0)
    BY <2>1, <2>2, <2>3, SumIs
  <2> QED BY <2>4
<1>2. ASSUME NEW m \in S PROVE m + 1 \in S
  <2>1. m \in Nat
    OBVIOUS
  <2>2. PICK g : IsSum(g, seq, m)
    OBVIOUS
  <2> DEFINE h == [i \in 0 .. m + 1 |-> IF i \in 0 .. m THEN g[i] ELSE g[i - 1] + Lasts(seq[i])]
  <2>3. \A i \in 0 .. m : g[i] = IF i = 0 THEN 0 ELSE g[i - 1] + Lasts(seq[i])
    BY <2>1, <2>2, SumAt
  <2>4. \A i \in 0 .. m + 1 : h[i] = IF i = 0 THEN 0 ELSE g[i - 1] + Lasts(seq[i])
    BY <2>1, <2>3
  <2>5. \A i \in 0 .. m : h[i] = g[i]
    BY <2>1
  <2>6. \A i \in 0 .. m + 1 : i # 0 => i - 1 \in 0 .. m
    BY <2>1
  <2>7. h = [i \in 0 .. m + 1 |-> h[i]]
    OBVIOUS
  <2> HIDE DEF h
  <2>8. \A i \in 0 .. m + 1 : h[i] = IF i = 0 THEN 0 ELSE h[i - 1] + Lasts(seq[i])
    BY <2>4, <2>5, <2>6
  <2>9. m + 1 \in Nat
    BY <2>1
  <2>10. IsSum(h, seq, m + 1)
    BY <2>7, <2>8, <2>9, SumIs
  <2> QED BY <2>9, <2>10
<1>3. \A m \in Nat : m \in S
  <2>1. S \in SUBSET Nat
    OBVIOUS
  <2> HIDE DEF S
  <2> QED BY <1>1, <1>2, <2>1, SetInduction
<1> QED BY <1>3

\* The sum up to a position does not depend on what comes after it.
LEMMA SumUnique ==
  ASSUME NEW seq, NEW k \in Nat, NEW g, NEW h, IsSum(g, seq, k), IsSum(h, seq, k + 1)
  PROVE  g[k] = h[k]
<1> DEFINE S == {j \in Nat : j <= k => g[j] = h[j]}
<1>1. \A j \in 0 .. k : /\ g[j] = IF j = 0 THEN 0 ELSE g[j - 1] + Lasts(seq[j])
                        /\ h[j] = IF j = 0 THEN 0 ELSE h[j - 1] + Lasts(seq[j])
  <2>1. k + 1 \in Nat /\ \A j \in 0 .. k : j \in 0 .. k + 1
    OBVIOUS
  <2> QED BY <2>1, SumAt
<1>2. 0 \in S
  BY <1>1
<1>3. ASSUME NEW j \in S PROVE j + 1 \in S
  <2>1. j \in Nat /\ j + 1 \in Nat /\ (j + 1) - 1 = j /\ j + 1 # 0
    OBVIOUS
  <2>2. ASSUME j + 1 <= k PROVE g[j + 1] = h[j + 1]
    <3>1. g[j] = h[j] /\ j + 1 \in 0 .. k
      BY <2>1, <2>2
    <3> QED BY <1>1, <2>1, <3>1
  <2> QED BY <2>1, <2>2
<1>4. \A j \in Nat : j \in S
  <2>1. S \in SUBSET Nat
    OBVIOUS
  <2> HIDE DEF S
  <2> QED BY <1>2, <1>3, <2>1, SetInduction
<1> QED BY <1>4

\* Until is the sum of the first k times.
LEMMA UntilIs ==
  ASSUME NEW seq, NEW k \in Nat
  PROVE  \E g : IsSum(g, seq, k) /\ Until(seq, k) = g[k]
<1> DEFINE f == CHOOSE g : g = [i \in 0 .. k |-> IF i = 0 THEN 0 ELSE g[i - 1] + Lasts(seq[i])]
<1>1. \E g : g = [i \in 0 .. k |-> IF i = 0 THEN 0 ELSE g[i - 1] + Lasts(seq[i])]
  BY SumExists DEF IsSum
<1>2. f = [i \in 0 .. k |-> IF i = 0 THEN 0 ELSE f[i - 1] + Lasts(seq[i])]
  BY <1>1
<1>3. Until(seq, k) = f[k]
  BY DEF Until
<1> HIDE DEF f
<1>4. IsSum(f, seq, k)
  BY <1>2 DEF IsSum
<1> QED BY <1>3, <1>4

\* One more time is added.
LEMMA UntilNext ==
  ASSUME NEW seq, NEW k \in Nat
  PROVE  Until(seq, 0) = 0 /\ Until(seq, k + 1) = Until(seq, k) + Lasts(seq[k + 1])
<1>1. Until(seq, 0) = 0
  <2>1. PICK g : IsSum(g, seq, 0) /\ Until(seq, 0) = g[0]
    BY UntilIs
  <2>2. PICK z \in Nat : z = 0 /\ z \in 0 .. z
    OBVIOUS
  <2>3. IsSum(g, seq, z)
    BY <2>1, <2>2
  <2>4. g[z] = IF z = 0 THEN 0 ELSE g[z - 1] + Lasts(seq[z])
    BY <2>2, <2>3, SumAt
  <2> QED BY <2>1, <2>2, <2>4
<1>2. PICK g : IsSum(g, seq, k) /\ Until(seq, k) = g[k]
  BY UntilIs
<1>3. k + 1 \in Nat /\ k + 1 \in 0 .. k + 1 /\ k + 1 # 0 /\ (k + 1) - 1 = k
  OBVIOUS
<1>4. PICK h : IsSum(h, seq, k + 1) /\ Until(seq, k + 1) = h[k + 1]
  BY <1>3, UntilIs
<1>5. h[k + 1] = h[k] + Lasts(seq[k + 1])
  <2>1. h[k + 1] = IF k + 1 = 0 THEN 0 ELSE h[(k + 1) - 1] + Lasts(seq[k + 1])
    BY <1>3, <1>4, SumAt
  <2> QED BY <1>3, <2>1
<1>6. h[k] = g[k]
  BY <1>2, <1>4, SumUnique
<1> QED BY <1>1, <1>2, <1>4, <1>5, <1>6

\* The times of a sequence follow each other: none is empty, and where one
\* begins all earlier ones have ended.
LEMMA UntilGrows ==
  ASSUME NEW seq \in Seq(Nat)
  PROVE  /\ \A k \in 0 .. Len(seq) : Until(seq, k) \in Nat
         /\ \A j, k \in 0 .. Len(seq) : j < k => Until(seq, j) < Until(seq, k)
<1> DEFINE S == {m \in Nat : m <= Len(seq) =>
              /\ Until(seq, m) \in Nat
              /\ \A j \in 0 .. m : Until(seq, j) \in Nat /\ (j < m => Until(seq, j) < Until(seq, m))}
<1>1. 0 \in S
  BY UntilNext
<1>2. ASSUME NEW m \in S PROVE m + 1 \in S
  <2>1. m \in Nat /\ m + 1 \in Nat
    OBVIOUS
  <2>2. ASSUME m + 1 <= Len(seq)
        PROVE  /\ Until(seq, m + 1) \in Nat
               /\ \A j \in 0 .. m + 1 :
                    Until(seq, j) \in Nat /\ (j < m + 1 => Until(seq, j) < Until(seq, m + 1))
    <3>1. Lasts(seq[m + 1]) \in Nat /\ Lasts(seq[m + 1]) >= 1
      <4>1. seq[m + 1] \in Nat
        BY <2>1, <2>2
      <4> QED BY <4>1 DEF Lasts
    <3>2. Until(seq, m + 1) = Until(seq, m) + Lasts(seq[m + 1])
      BY <2>1, UntilNext
    <3>3. Until(seq, m) \in Nat /\ \A j \in 0 .. m :
            Until(seq, j) \in Nat /\ (j < m => Until(seq, j) < Until(seq, m))
      BY <2>1, <2>2
    <3>4. ASSUME NEW j \in 0 .. m + 1, j < m + 1 PROVE Until(seq, j) < Until(seq, m + 1)
      <4>1. CASE j = m
        BY <4>1, <3>1, <3>2, <3>3
      <4>2. CASE j # m
        <5>1. j \in 0 .. m /\ j < m /\ 0 \in 0 .. m
          BY <2>1, <3>4, <4>2
        <5>2. PICK u : u = Until(seq, j)
          OBVIOUS
        <5>3. u \in Nat /\ u < Until(seq, m)
          BY <3>3, <5>1, <5>2
        <5>4. j \in 0 .. Len(seq)
          BY <2>2, <5>1
        <5> QED BY <3>1, <3>2, <3>3, <5>2, <5>3
      <4> QED BY <4>1, <4>2
    <3>5. ASSUME NEW j \in 0 .. m + 1 PROVE Until(seq, j) \in Nat
      <4>1. j = m + 1 \/ j \in 0 .. m
        BY <2>1
      <4> QED BY <3>1, <3>2, <3>3, <4>1
    <3> QED BY <3>1, <3>2, <3>3, <3>4, <3>5
  <2> QED BY <2>1, <2>2
<1>3. \A m \in Nat : m \in S
  <2>1. S \in SUBSET Nat
    OBVIOUS
  <2> HIDE DEF S
  <2> QED BY <1>1, <1>2, <2>1, SetInduction
<1>4. Len(seq) \in Nat
  OBVIOUS
<1> QED BY <1>3, <1>4

-----------------------------------------------------------------------------
(* One slot of the pass.                                                   *)

\* The state after slot i and the level of its pin were written.
Put(s, i, d, lit) ==
    [datas |-> [s.datas EXCEPT ![i] = d],
     port |-> IF d.pin \in Pins
              THEN [s.port EXCEPT ![d.pin] = [out |-> s.port[d.pin].out, high |-> (lit = d.level)]]
              ELSE s.port]

BlinkIdx(d) == IF Elapsed(d) THEN ((d.idx + 1) % U8) % 2 ELSE d.idx
Blinked(d) ==
    [d EXCEPT !.idx = BlinkIdx(d),
              !.cnt = IF ~Elapsed(d) THEN d.cnt - 1
                      ELSE IF BlinkIdx(d) = 0 THEN d.plan.ton ELSE d.plan.toff]

NextIdx(d) == (d.idx + 1) % U8
PlayedSlot(d) ==
    IF ~Elapsed(d) THEN [d EXCEPT !.cnt = d.cnt - 1]
    ELSE IF ~Over(d) THEN [d EXCEPT !.idx = NextIdx(d), !.cnt = d.plan.datas[NextIdx(d) + 1]]
    ELSE Stopped(d)
PlayedLit(d) ==
    IF ~Elapsed(d) THEN d.idx % 2 = 0
    ELSE NextIdx(d) % 2 = 0 /\ (Over(d) => d.plan.over_cb = "null")

\* A slot whose times were just set.
Started(d, w) ==
    [d EXCEPT !.mode = w.mode, !.idx = 0, !.plan = w.plan,
              !.cnt = IF w.mode = "BLINK" THEN w.plan.ton ELSE w.plan.datas[1]]

\* The fields that Typed is about.
Shape(s) == s \in [datas : [Slots -> Slot], port : [Pins -> Port]]

\* A slot is written and its LED switched.
LEMMA SwitchPut ==
  ASSUME NEW s, Shape(s), NEW i \in Slots, NEW d \in Slot, NEW lit \in BOOLEAN
  PROVE  Switch([s EXCEPT !.datas[i] = d], i, lit) = Put(s, i, d, lit)
<1> DEFINE t == [s EXCEPT !.datas[i] = d]
<1>1. t = [datas |-> [s.datas EXCEPT ![i] = d], port |-> s.port]
  BY DEF Shape
<1>2. t.datas[i] = d /\ t.datas = [s.datas EXCEPT ![i] = d] /\ t.port = s.port
  BY <1>1 DEF Shape
<1> HIDE DEF t
<1>3. PICK high \in BOOLEAN : high = (lit = d.level)
  OBVIOUS
<1>4. Switch(t, i, lit) = Write(t, d.pin, high)
  BY <1>2, <1>3 DEF Switch
<1>5. ASSUME d.pin \in Pins PROVE Switch(t, i, lit) = Put(s, i, d, lit)
  <2>1. s.port \in [Pins -> Port]
    BY DEF Shape
  <2>2. Write(t, d.pin, high) = [t EXCEPT !.port[d.pin].high = high]
    BY <1>5 DEF Write
  <2>3. [t EXCEPT !.port[d.pin].high = high]
         = [datas |-> t.datas, port |-> [t.port EXCEPT ![d.pin].high = high]]
    BY <1>1
  <2>4. [s.port EXCEPT ![d.pin].high = high] = [s.port EXCEPT ![d.pin] = [s.port[d.pin] EXCEPT !.high = high]]
    BY <1>5, <2>1
  <2>5. s.port[d.pin] \in Port
    BY <1>5, <2>1
  <2>6. \A q \in Port : [q EXCEPT !.high = high] = [out |-> q.out, high |-> high]
    BY DEF Port
  <2>7. [s.port EXCEPT ![d.pin].high = high] = [s.port EXCEPT ![d.pin] = [out |-> s.port[d.pin].out, high |-> high]]
    BY <2>4, <2>5, <2>6
  <2>8. Put(s, i, d, lit) = [datas |-> [s.datas EXCEPT ![i] = d],
                             port |-> [s.port EXCEPT ![d.pin] = [out |-> s.port[d.pin].out, high |-> high]]]
    BY <1>3, <1>5 DEF Put
  <2>9. t.datas = [s.datas EXCEPT ![i] = d] /\ t.port = s.port
    BY <1>2
  <2>10. Put(s, i, d, lit) = [datas |-> t.datas, port |-> [t.port EXCEPT ![d.pin].high = high]]
    BY <2>7, <2>8, <2>9
  <2> QED BY <1>4, <2>2, <2>3, <2>10
<1>6. ASSUME d.pin \notin Pins PROVE Switch(t, i, lit) = Put(s, i, d, lit)
  <2>1. Write(t, d.pin, high) = t
    BY <1>6 DEF Write
  <2>2. Put(s, i, d, lit) = [datas |-> [s.datas EXCEPT ![i] = d], port |-> s.port]
    BY <1>6 DEF Put
  <2> QED BY <1>1, <1>4, <2>1, <2>2
<1>7. Switch(t, i, lit) = Put(s, i, d, lit)
  BY Zenon, <1>5, <1>6
<1> QED BY <1>7 DEF t

\* A slot of which fields have changed.
LEMMA SlotChanged ==
  ASSUME NEW d \in Slot
  PROVE  /\ \A cnt \in Nat : [d EXCEPT !.cnt = cnt] \in Slot
         /\ \A cnt \in Nat, idx \in 0 .. 255 : [d EXCEPT !.idx = idx, !.cnt = cnt] \in Slot
         /\ \A mode \in Modes, idx \in 0 .. 255, cnt \in Nat, plan \in Plans \cup {NoPlan} :
                [d EXCEPT !.mode = mode, !.idx = idx, !.cnt = cnt, !.plan = plan] \in Slot
         /\ \A mode \in Modes, idx \in 0 .. 255, cnt \in Nat, plan \in Plans \cup {NoPlan} :
                [d EXCEPT !.mode = mode, !.idx = idx, !.plan = plan, !.cnt = cnt] \in Slot
         /\ \A mode \in Modes, idx \in 0 .. 255, cnt \in Nat, plan \in Plans \cup {NoPlan} :
                [d EXCEPT !.mode = mode, !.cnt = cnt, !.idx = idx, !.plan = plan] \in Slot
         /\ \A pin \in Pins \cup {None} : [d EXCEPT !.pin = pin] \in Slot
         /\ \A pin \in Pins \cup {None}, level \in BOOLEAN : [d EXCEPT !.pin = pin, !.level = level] \in Slot
<1>1. Slot = [pin : Pins \cup {None}, mode : Modes, level : BOOLEAN, idx : 0 .. 255, cnt : Nat,
              plan : Plans \cup {NoPlan}]
  BY DEF Slot, U8
<1> DEFINE A == Pins \cup {None}  B == Modes  D == 0 .. 255  E == Nat  F == Plans \cup {NoPlan}
<1>2. Slot = [pin : A, mode : B, level : BOOLEAN, idx : D, cnt : E, plan : F]
  BY <1>1
<1> HIDE DEF A, B, D, E, F
<1>3. \A cnt \in E : [d EXCEPT !.cnt = cnt] \in Slot
  BY <1>2
<1>4. \A cnt \in E, idx \in D : [d EXCEPT !.idx = idx, !.cnt = cnt] \in Slot
  BY <1>2
<1>5. \A mode \in B, idx \in D, cnt \in E, plan \in F :
        [d EXCEPT !.mode = mode, !.idx = idx, !.cnt = cnt, !.plan = plan] \in Slot
  BY <1>2
<1>6. \A mode \in B, idx \in D, cnt \in E, plan \in F :
        [d EXCEPT !.mode = mode, !.idx = idx, !.plan = plan, !.cnt = cnt] \in Slot
  BY <1>2
<1>9. \A mode \in B, idx \in D, cnt \in E, plan \in F :
        [d EXCEPT !.mode = mode, !.cnt = cnt, !.idx = idx, !.plan = plan] \in Slot
  BY <1>2
<1>7. \A pin \in A : [d EXCEPT !.pin = pin] \in Slot
  BY <1>2
<1>8. \A pin \in A, level \in BOOLEAN : [d EXCEPT !.pin = pin, !.level = level] \in Slot
  BY <1>2
<1> QED BY Zenon, <1>3, <1>4, <1>5, <1>6, <1>7, <1>8, <1>9 DEF A, B, D, E, F

\* The same, one by one.
LEMMA SlotCnt ==
  ASSUME NEW d \in Slot, NEW cnt \in Nat
  PROVE  [d EXCEPT !.cnt = cnt] \in Slot
BY ZenonT(30), SlotChanged

\* The place in the times.
LEMMA SlotTime ==
  ASSUME NEW d \in Slot, NEW cnt \in Nat, NEW idx \in 0 .. 255
  PROVE  [d EXCEPT !.idx = idx, !.cnt = cnt] \in Slot
BY ZenonT(30), SlotChanged

\* The pin.
LEMMA SlotPin ==
  ASSUME NEW d \in Slot, NEW pin \in Pins \cup {None}
  PROVE  [d EXCEPT !.pin = pin] \in Slot
BY ZenonT(30), SlotChanged

\* The pin and its level.
LEMMA SlotAdded ==
  ASSUME NEW d \in Slot, NEW pin \in Pins \cup {None}, NEW level \in BOOLEAN
  PROVE  [d EXCEPT !.pin = pin, !.level = level] \in Slot
BY ZenonT(30), SlotChanged

\* The mode and all that belongs to it.
LEMMA SlotMode ==
  ASSUME NEW d \in Slot, NEW mode \in Modes, NEW idx \in 0 .. 255, NEW cnt \in Nat, NEW plan \in Plans \cup {NoPlan}
  PROVE  /\ [d EXCEPT !.mode = mode, !.idx = idx, !.cnt = cnt, !.plan = plan] \in Slot
         /\ [d EXCEPT !.mode = mode, !.idx = idx, !.plan = plan, !.cnt = cnt] \in Slot
         /\ [d EXCEPT !.mode = mode, !.cnt = cnt, !.idx = idx, !.plan = plan] \in Slot
<1>1. [d EXCEPT !.mode = mode, !.idx = idx, !.cnt = cnt, !.plan = plan] \in Slot
  BY ZenonT(30), SlotChanged
<1>2. [d EXCEPT !.mode = mode, !.idx = idx, !.plan = plan, !.cnt = cnt] \in Slot
  BY ZenonT(30), SlotChanged
<1>3. [d EXCEPT !.mode = mode, !.cnt = cnt, !.idx = idx, !.plan = plan] \in Slot
  BY ZenonT(30), SlotChanged
<1> QED BY <1>1, <1>2, <1>3

\* A time that is set or goes on is a number.
LEMMA PlanFacts ==
  /\ \A p \in BlinkPlans : p.ton \in Nat /\ p.toff \in Nat
  /\ \A p \in SpecialPlans : /\ p.datas \in Seq(Nat) /\ Len(p.datas) \in Nat
                             /\ Len(p.datas) >= 1 /\ Len(p.datas) <= 255
                             /\ \A k \in 1 .. Len(p.datas) : p.datas[k] \in Nat
                             /\ p.over_cb \in Callbacks /\ p.datas \in Patterns
  /\ \A d \in Slot : /\ d.idx \in Nat /\ d.idx < 256 /\ d.cnt \in Nat
                     /\ d.pin \in Pins \cup {None} /\ d.level \in BOOLEAN
                     /\ d.mode \in Modes /\ d.plan \in Plans \cup {NoPlan}
  /\ BlinkPlans \subseteq Plans /\ SpecialPlans \subseteq Plans
<1>1. \A p \in SpecialPlans : p.datas \in Seq(Nat) /\ Len(p.datas) \in 1 .. 255 /\ p.over_cb \in Callbacks
                              /\ p.datas \in Patterns
  BY QledAssumption DEF SpecialPlans
<1>2. \A q : q \in Seq(Nat) => \A k \in 1 .. Len(q) : q[k] \in Nat
  OBVIOUS
<1>3. \A p \in SpecialPlans : \A k \in 1 .. Len(p.datas) : p.datas[k] \in Nat
  BY <1>1, <1>2
<1>4. \A p \in BlinkPlans : p.ton \in Nat /\ p.toff \in Nat
  BY QledAssumption DEF BlinkPlans
<1>5. \A d \in Slot : /\ d.idx \in 0 .. U8 - 1 /\ d.cnt \in Nat
                      /\ d.pin \in Pins \cup {None} /\ d.level \in BOOLEAN
                      /\ d.mode \in Modes /\ d.plan \in Plans \cup {NoPlan}
  BY DEF Slot
<1>6. BlinkPlans \subseteq Plans /\ SpecialPlans \subseteq Plans
  BY DEF BlinkPlans, SpecialPlans, Plans
<1>7. \A d \in Slot : d.idx \in Nat /\ d.idx < 256
  BY <1>5 DEF U8
<1>8. \A p \in SpecialPlans : Len(p.datas) \in Nat /\ Len(p.datas) >= 1 /\ Len(p.datas) <= 255
  <2>1. \A n \in 1 .. 255 : n \in Nat /\ n >= 1 /\ n <= 255
    OBVIOUS
  <2>2. \A p \in SpecialPlans : Len(p.datas) \in 1 .. 255
    BY <1>1
  <2> QED BY <2>1, <2>2
<1> QED BY <1>1, <1>3, <1>4, <1>5, <1>6, <1>7, <1>8

\* The slot of a blinking LED after a pass.
LEMMA BlinkedFits ==
  ASSUME NEW d \in Slot, d.mode = "BLINK", d.plan \in BlinkPlans
  PROVE  Blinked(d) \in Slot /\ SlotFits(Blinked(d)) /\ BlinkIdx(d) \in Nat
         /\ Blinked(d).pin = d.pin /\ Blinked(d).level = d.level /\ Blinked(d).mode = "BLINK"
<1>1. /\ d.idx \in Nat /\ d.idx < 256 /\ d.cnt \in Nat /\ d.plan.ton \in Nat /\ d.plan.toff \in Nat
  BY PlanFacts
<1>2. BlinkIdx(d) \in Nat /\ BlinkIdx(d) < 256
  BY <1>1 DEF BlinkIdx, U8
<1> DEFINE n == IF ~Elapsed(d) THEN d.cnt - 1
                ELSE IF BlinkIdx(d) = 0 THEN d.plan.ton ELSE d.plan.toff
<1>3. n \in Nat
  BY <1>1 DEF Elapsed
<1>4. Blinked(d) = [d EXCEPT !.idx = BlinkIdx(d), !.cnt = n]
  BY DEF Blinked
<1> HIDE DEF n
<1>5. Blinked(d) \in Slot
  <2>1. BlinkIdx(d) \in 0 .. 255
    BY <1>2
  <2>2. [d EXCEPT !.idx = BlinkIdx(d), !.cnt = n] \in Slot
    BY Zenon, <1>3, <2>1, SlotTime
  <2> QED BY <1>4, <2>2
<1>6. Blinked(d).plan = d.plan /\ Blinked(d).mode = "BLINK" /\ Blinked(d).pin = d.pin /\ Blinked(d).level = d.level
  BY <1>4 DEF Slot
<1> QED BY <1>2, <1>5, <1>6 DEF SlotFits, PlanFits

\* The slot of an LED with a sequence after a pass, before its callback.
LEMMA PlayedFits ==
  ASSUME NEW d \in Slot, d.mode = "SPECIAL", d.plan \in SpecialPlans,
         Elapsed(d) \/ d.idx < Len(d.plan.datas)
  PROVE  PlayedSlot(d) \in Slot /\ SlotFits(PlayedSlot(d)) /\ PlayedLit(d) \in BOOLEAN
         /\ PlayedSlot(d).pin = d.pin /\ PlayedSlot(d).level = d.level
<1>1. /\ d.idx \in Nat /\ d.idx < 256 /\ d.cnt \in Nat /\ Len(d.plan.datas) \in Nat
      /\ \A k \in 1 .. Len(d.plan.datas) : d.plan.datas[k] \in Nat
  BY PlanFacts
<1>2. PlayedLit(d) \in BOOLEAN
  BY DEF PlayedLit
<1>3. CASE ~Elapsed(d)
  <2>1. PlayedSlot(d) = [d EXCEPT !.cnt = d.cnt - 1]
    BY <1>3 DEF PlayedSlot
  <2>2. d.cnt - 1 \in Nat
    BY <1>1, <1>3 DEF Elapsed
  <2>3. PlayedSlot(d) \in Slot
    BY Zenon, <2>1, <2>2, SlotCnt
  <2>4. /\ PlayedSlot(d).mode = "SPECIAL" /\ PlayedSlot(d).plan = d.plan /\ PlayedSlot(d).idx = d.idx
        /\ PlayedSlot(d).pin = d.pin /\ PlayedSlot(d).level = d.level
    BY <2>1 DEF Slot
  <2> QED BY <1>2, <1>3, <2>3, <2>4 DEF SlotFits, PlanFits
<1>4. CASE Elapsed(d) /\ ~Over(d)
  <2>1. PlayedSlot(d) = [d EXCEPT !.idx = NextIdx(d), !.cnt = d.plan.datas[NextIdx(d) + 1]]
    BY <1>4 DEF PlayedSlot
  <2>2. NextIdx(d) \in Nat /\ NextIdx(d) < 256 /\ NextIdx(d) < Len(d.plan.datas)
    BY <1>1, <1>4 DEF NextIdx, Over, U8
  <2>3. d.plan.datas[NextIdx(d) + 1] \in Nat
    BY <1>1, <2>2
  <2>4. PlayedSlot(d) \in Slot
    <3>1. \A k \in Nat : k < 256 => k \in 0 .. 255
      OBVIOUS
    <3>2. NextIdx(d) \in 0 .. 255
      BY <2>2, <3>1
    <3>3. [d EXCEPT !.idx = NextIdx(d), !.cnt = d.plan.datas[NextIdx(d) + 1]] \in Slot
      BY Zenon, <2>3, <3>2, SlotTime
    <3> QED BY <2>1, <3>3
  <2>5. /\ PlayedSlot(d).mode = "SPECIAL" /\ PlayedSlot(d).plan = d.plan /\ PlayedSlot(d).idx = NextIdx(d)
        /\ PlayedSlot(d).pin = d.pin /\ PlayedSlot(d).level = d.level
    BY <2>1 DEF Slot
  <2> QED BY <1>2, <2>2, <2>4, <2>5 DEF SlotFits, PlanFits
<1>5. CASE Over(d)
  <2>0. PICK n \in Nat : Stopped(d) = [Still(d, "OFF") EXCEPT !.cnt = n]
    <3>1. d.plan.datas \in Patterns
      BY DEF SpecialPlans
    <3>2. Behind[d.plan.datas] \in Nat
      BY <3>1, QledAssumption
    <3> QED BY <3>2 DEF Stopped
  <2>1. PlayedSlot(d) = [d EXCEPT !.mode = "OFF", !.idx = 0, !.cnt = n, !.plan = NoPlan]
    <3>1. PlayedSlot(d) = [Still(d, "OFF") EXCEPT !.cnt = n]
      BY <1>5, <2>0 DEF PlayedSlot, Over
    <3> QED BY <3>1 DEF Still, Slot
  <2>2. PlayedSlot(d) \in Slot
    <3>1. "OFF" \in Modes /\ 0 \in 0 .. 255 /\ NoPlan \in Plans \cup {NoPlan}
      BY DEF Modes
    <3>2. [d EXCEPT !.mode = "OFF", !.idx = 0, !.cnt = n, !.plan = NoPlan] \in Slot
      BY Zenon, <3>1, SlotMode
    <3> QED BY <2>1, <3>2
  <2>3. PlayedSlot(d).mode = "OFF" /\ PlayedSlot(d).pin = d.pin /\ PlayedSlot(d).level = d.level
    BY <2>1 DEF Slot
  <2> QED BY <1>2, <2>2, <2>3 DEF SlotFits, PlanFits
<1> QED BY <1>3, <1>4, <1>5 DEF Over

\* qled_run_blink.
LEMMA RunBlinkIs ==
  ASSUME NEW s, Shape(s), NEW i \in Slots, s.datas[i].mode = "BLINK", s.datas[i].plan \in BlinkPlans
  PROVE  RunBlink(s, i) = Put(s, i, Blinked(s.datas[i]), BlinkIdx(s.datas[i]) = 0)
<1> DEFINE d == s.datas[i]
<1>1. d \in Slot
  BY DEF Shape
<1>2. Blinked(d) \in Slot
  BY <1>1, BlinkedFits
<1>3. [s EXCEPT !.datas[i].idx = BlinkIdx(d),
                !.datas[i].cnt = IF ~Elapsed(d) THEN d.cnt - 1
                                 ELSE IF BlinkIdx(d) = 0 THEN d.plan.ton ELSE d.plan.toff]
      = [s EXCEPT !.datas[i] = Blinked(d)]
  BY <1>1 DEF Shape, Blinked, Slot
<1>4. RunBlink(s, i) = Switch([s EXCEPT !.datas[i] = Blinked(d)], i, BlinkIdx(d) = 0)
  BY <1>3 DEF RunBlink, BlinkIdx
<1> QED BY <1>2, <1>4, SwitchPut

\* qled_run_special without its callback.
LEMMA PlayedIs ==
  ASSUME NEW s, Shape(s), NEW i \in Slots, s.datas[i].mode = "SPECIAL", s.datas[i].plan \in SpecialPlans,
         Elapsed(s.datas[i]) \/ s.datas[i].idx < Len(s.datas[i].plan.datas)
  PROVE  Played(s, i) = Put(s, i, PlayedSlot(s.datas[i]), PlayedLit(s.datas[i]))
<1> DEFINE d == s.datas[i]  t == [s EXCEPT !.datas[i] = PlayedSlot(d)]
<1>1. d \in Slot /\ s.datas \in [Slots -> Slot] /\ s = [datas |-> s.datas, port |-> s.port]
  BY DEF Shape
<1>2. PlayedSlot(d) \in Slot /\ PlayedLit(d) \in BOOLEAN
  BY <1>1, PlayedFits
<1>3. CASE ~Elapsed(d)
  <2>1. [s EXCEPT !.datas[i].cnt = @ - 1] = t
    BY <1>1, <1>3 DEF PlayedSlot
  <2>2. Played(s, i) = Switch(t, i, d.idx % 2 = 0)
    BY <1>3, <2>1 DEF Played, Over
  <2> QED BY <1>2, <1>3, <2>2, SwitchPut DEF PlayedLit
<1>4. CASE Elapsed(d) /\ ~Over(d)
  <2>1. [s EXCEPT !.datas[i].idx = NextIdx(d), !.datas[i].cnt = d.plan.datas[NextIdx(d) + 1]] = t
    BY <1>1, <1>4 DEF PlayedSlot
  <2>2. Played(s, i) = Switch(t, i, NextIdx(d) % 2 = 0)
    BY <1>4, <2>1 DEF Played, NextIdx
  <2>3. PlayedLit(d) = (NextIdx(d) % 2 = 0)
    BY <1>4 DEF PlayedLit
  <2> QED BY <1>2, <2>2, <2>3, SwitchPut
<1>5. CASE Over(d)
  <2>1. [s EXCEPT !.datas[i] = Stopped(@)] = t
    BY <1>1, <1>5 DEF PlayedSlot, Over
  <2>2. Played(s, i) = Switch(t, i, d.plan.over_cb = "null" /\ NextIdx(d) % 2 = 0)
    BY <1>5, <2>1 DEF Played, NextIdx, Over
  <2>3. PlayedLit(d) = (d.plan.over_cb = "null" /\ NextIdx(d) % 2 = 0)
    BY <1>5 DEF PlayedLit, Over
  <2> QED BY <1>2, <2>2, <2>3, SwitchPut
<1> QED BY <1>3, <1>4, <1>5 DEF Over

\* The state stays one when a slot and its pin were written.
LEMMA PutFacts ==
  ASSUME NEW s, Shape(s), NEW i \in Slots, NEW d \in Slot, NEW lit
  PROVE  /\ Shape(Put(s, i, d, lit)) /\ Put(s, i, d, lit).datas = [s.datas EXCEPT ![i] = d]
         /\ (\A j \in Slots \ {i} : SlotFits(s.datas[j])) /\ SlotFits(d) => Typed(Put(s, i, d, lit))
<1> DEFINE t == Put(s, i, d, lit)
<1>1. s.datas \in [Slots -> Slot] /\ s.port \in [Pins -> Port]
  BY DEF Shape
<1>2. [s.datas EXCEPT ![i] = d] \in [Slots -> Slot]
  BY <1>1
<1>3. d.pin \in Pins =>
        [s.port EXCEPT ![d.pin] = [out |-> s.port[d.pin].out, high |-> (lit = d.level)]] \in [Pins -> Port]
  BY <1>1 DEF Port
<1>4. t.datas = [s.datas EXCEPT ![i] = d]
  BY DEF Put
<1>5. t.port \in [Pins -> Port] /\ t = [datas |-> t.datas, port |-> t.port]
  BY <1>1, <1>3 DEF Put
<1> HIDE DEF t
<1>6. Shape(t)
  BY <1>2, <1>4, <1>5 DEF Shape
<1>7. ASSUME \A j \in Slots \ {i} : SlotFits(s.datas[j]), SlotFits(d) PROVE Typed(t)
  <2>1. \A j \in Slots : t.datas[j] = IF j = i THEN d ELSE s.datas[j]
    BY <1>1, <1>4
  <2>2. \A j \in Slots : SlotFits(t.datas[j])
    BY <1>7, <2>1
  <2> QED BY <1>6, <2>2 DEF Typed, Shape
<1>8. Shape(t) /\ t.datas = [s.datas EXCEPT ![i] = d]
      /\ ((\A j \in Slots \ {i} : SlotFits(s.datas[j])) /\ SlotFits(d) => Typed(t))
  BY <1>4, <1>6, <1>7
<1> QED BY <1>8 DEF t

\* A slot that is written again.
LEMMA PutAgain ==
  ASSUME NEW s, Shape(s), NEW i \in Slots, NEW d \in Slot, NEW e \in Slot, NEW lit, NEW on,
         d.pin = e.pin
  PROVE  Put(Put(s, i, d, on), i, e, lit) = Put(s, i, e, lit)
<1>1. s.datas \in [Slots -> Slot] /\ s.port \in [Pins -> Port]
  BY DEF Shape
<1>2. [[s.datas EXCEPT ![i] = d] EXCEPT ![i] = e] = [s.datas EXCEPT ![i] = e]
  BY <1>1
<1>3. CASE e.pin \in Pins
  <2> DEFINE x == [out |-> s.port[d.pin].out, high |-> (on = d.level)]
             y == [out |-> s.port[d.pin].out, high |-> (lit = e.level)]
  <2>1. [s.port EXCEPT ![d.pin] = x][d.pin].out = s.port[d.pin].out
    BY <1>1, <1>3
  <2>2. [[s.port EXCEPT ![d.pin] = x] EXCEPT ![d.pin] = y] = [s.port EXCEPT ![d.pin] = y]
    BY <1>1, <1>3
  <2>3. Put(s, i, d, on) = [datas |-> [s.datas EXCEPT ![i] = d], port |-> [s.port EXCEPT ![d.pin] = x]]
    BY <1>3 DEF Put
  <2>4. Put(s, i, e, lit) = [datas |-> [s.datas EXCEPT ![i] = e], port |-> [s.port EXCEPT ![d.pin] = y]]
    BY <1>3 DEF Put
  <2> HIDE DEF x
  <2>5. Put(Put(s, i, d, on), i, e, lit)
         = [datas |-> [[s.datas EXCEPT ![i] = d] EXCEPT ![i] = e],
            port |-> [[s.port EXCEPT ![d.pin] = x] EXCEPT
                        ![d.pin] = [out |-> [s.port EXCEPT ![d.pin] = x][d.pin].out, high |-> (lit = e.level)]]]
    BY <1>3, <2>3 DEF Put
  <2> QED BY <1>2, <2>1, <2>2, <2>4, <2>5
<1>4. CASE e.pin \notin Pins
  BY <1>2, <1>4 DEF Put
<1> QED BY <1>3, <1>4

\* A slot whose times were just set.
LEMMA StartedFits ==
  ASSUME NEW d \in Slot, NEW w, w.mode \in {"BLINK", "SPECIAL"}, PlanFits(w.mode, w.plan)
  PROVE  /\ Started(d, w) \in Slot /\ SlotFits(Started(d, w))
         /\ Started(d, w).pin = d.pin /\ Started(d, w).level = d.level
<1> DEFINE n == IF w.mode = "BLINK" THEN w.plan.ton ELSE w.plan.datas[1]
<1>1. n \in Nat /\ w.plan \in Plans /\ (w.mode = "SPECIAL" => 0 < Len(w.plan.datas))
  <2>1. CASE w.mode = "BLINK"
    BY <2>1, PlanFacts DEF PlanFits
  <2>2. CASE w.mode = "SPECIAL"
    <3>1. w.plan \in SpecialPlans
      BY <2>2 DEF PlanFits
    <3>2. 1 \in 1 .. Len(w.plan.datas) /\ Len(w.plan.datas) \in Nat /\ Len(w.plan.datas) >= 1
      BY <3>1, PlanFacts
    <3> QED BY <2>2, <3>1, <3>2, PlanFacts
  <2> QED BY <2>1, <2>2
<1>2. Started(d, w) = [d EXCEPT !.mode = w.mode, !.idx = 0, !.plan = w.plan, !.cnt = n]
  BY DEF Started
<1> HIDE DEF n
<1>3. w.mode \in Modes /\ 0 \in 0 .. 255 /\ w.plan \in Plans \cup {NoPlan}
  BY <1>1 DEF Modes
<1>4. [d EXCEPT !.mode = w.mode, !.idx = 0, !.plan = w.plan, !.cnt = n] \in Slot
  BY Zenon, <1>1, <1>3, SlotMode
<1>5. /\ Started(d, w).mode = w.mode /\ Started(d, w).idx = 0 /\ Started(d, w).plan = w.plan
      /\ Started(d, w).pin = d.pin /\ Started(d, w).level = d.level
  BY <1>2 DEF Slot
<1> QED BY <1>1, <1>2, <1>4, <1>5 DEF SlotFits

\* The times are set and the LED is lit.
StartIn(s, i, w) == Put(s, i, Started(s.datas[i], w), TRUE)

\* Two slots that differ in their place in the times only.
LEMMA SlotSame ==
  ASSUME NEW e \in Slot, NEW f \in Slot,
         f.pin = e.pin, f.level = e.level, f.mode = e.mode, f.plan = e.plan
  PROVE  [e EXCEPT !.idx = f.idx, !.cnt = f.cnt] = f
BY DEF Slot

\* qled_set_blink and qled_set_special light the LED and set the first time.
LEMMA SetInIs ==
  ASSUME NEW s, Shape(s), NEW i \in Slots, NEW w, w.mode \in {"BLINK", "SPECIAL"}, PlanFits(w.mode, w.plan)
  PROVE  SetIn(s, i, w) = StartIn(s, i, w)
<1> DEFINE d == s.datas[i]
           e == [d EXCEPT !.mode = w.mode, !.cnt = 0, !.idx = U8 - 1, !.plan = w.plan]
           t == [s EXCEPT !.datas[i] = e]
<1>1. d \in Slot /\ s.datas \in [Slots -> Slot]
  BY DEF Shape
<1>2. Started(d, w) \in Slot /\ Started(d, w).pin = d.pin
  BY <1>1, StartedFits
<1>3. w.plan \in Plans
  BY PlanFacts DEF PlanFits
<1>4. PICK mode \in Modes, idx \in 0 .. 255, cnt \in Nat, plan \in Plans \cup {NoPlan} :
        mode = w.mode /\ idx = U8 - 1 /\ cnt = 0 /\ plan = w.plan
  <2>1. w.mode \in Modes /\ U8 - 1 \in 0 .. 255 /\ 0 \in Nat /\ w.plan \in Plans \cup {NoPlan}
    BY <1>3 DEF Modes, U8
  <2> QED BY <2>1
<1>5. e \in Slot
  <2>1. [d EXCEPT !.mode = mode, !.cnt = cnt, !.idx = idx, !.plan = plan] \in Slot
    BY Zenon, <1>1, SlotMode
  <2> QED BY <1>4, <2>1
<1>6. e.mode = w.mode /\ e.idx = 255 /\ e.cnt = 0 /\ e.plan = w.plan /\ e.pin = d.pin /\ e.level = d.level
  BY <1>1 DEF Slot, U8
<1>7. t = [datas |-> [s.datas EXCEPT ![i] = e], port |-> s.port]
  BY DEF Shape
<1>8. SetIn(s, i, w) = IF w.mode = "BLINK" THEN RunBlink(t, i) ELSE Played(t, i)
  BY DEF SetIn
<1>9. Elapsed(e)
  BY <1>6 DEF Elapsed
<1>11. Started(d, w).mode = w.mode /\ Started(d, w).idx = 0 /\ Started(d, w).plan = w.plan
       /\ Started(d, w).level = d.level
       /\ Started(d, w).cnt = (IF w.mode = "BLINK" THEN w.plan.ton ELSE w.plan.datas[1])
  BY <1>1 DEF Started, Slot
<1> HIDE DEF e, t
<1>12. [e EXCEPT !.idx = Started(d, w).idx, !.cnt = Started(d, w).cnt] = Started(d, w)
  <2>1. PICK f \in Slot : f = Started(d, w)
    BY <1>2
  <2>2. f.pin = e.pin /\ f.level = e.level /\ f.mode = e.mode /\ f.plan = e.plan
    BY <1>2, <1>6, <1>11, <2>1
  <2> QED BY <1>5, <2>1, <2>2, SlotSame
<1>13. Shape(t) /\ t.datas[i] = e /\ t.datas = [s.datas EXCEPT ![i] = e] /\ t.port = s.port
  BY <1>1, <1>5, <1>7 DEF Shape
<1>14. Put(t, i, Started(d, w), TRUE) = Put(s, i, Started(d, w), TRUE)
  <2>1. [t.datas EXCEPT ![i] = Started(d, w)] = [s.datas EXCEPT ![i] = Started(d, w)]
    BY <1>1, <1>13
  <2> QED BY <1>13, <2>1 DEF Put
<1>15. ASSUME w.mode = "BLINK" PROVE SetIn(s, i, w) = Put(s, i, Started(d, w), TRUE)
  <2>1. w.plan \in BlinkPlans
    BY <1>15 DEF PlanFits
  <2>2. BlinkIdx(e) = 0
    <3>1. BlinkIdx(e) = ((255 + 1) % 256) % 2
      BY <1>6, <1>9 DEF BlinkIdx, U8
    <3> QED BY <3>1
  <2>3. Blinked(e) = [e EXCEPT !.idx = 0, !.cnt = w.plan.ton]
    BY <1>6, <1>9, <2>2 DEF Blinked
  <2>4. Blinked(e) = Started(d, w)
    BY <1>11, <1>12, <1>15, <2>3
  <2>5. RunBlink(t, i) = Put(t, i, Blinked(e), BlinkIdx(e) = 0)
    <3>1. t.datas[i].mode = "BLINK" /\ t.datas[i].plan \in BlinkPlans
      BY <1>6, <1>13, <1>15, <2>1
    <3>2. RunBlink(t, i) = Put(t, i, Blinked(t.datas[i]), BlinkIdx(t.datas[i]) = 0)
      BY <1>13, <3>1, RunBlinkIs
    <3> QED BY <1>13, <3>2
  <2> QED BY <1>8, <1>14, <1>15, <2>2, <2>4, <2>5
<1>16. ASSUME w.mode = "SPECIAL" PROVE SetIn(s, i, w) = Put(s, i, Started(d, w), TRUE)
  <2>1. w.plan \in SpecialPlans
    BY <1>16 DEF PlanFits
  <2>2. NextIdx(e) = 0
    <3>1. NextIdx(e) = (255 + 1) % 256
      BY <1>6 DEF NextIdx, U8
    <3> QED BY <3>1
  <2>3. ~Over(e)
    <3>1. Len(w.plan.datas) \in Nat /\ Len(w.plan.datas) >= 1
      BY <2>1, PlanFacts
    <3> QED BY <1>6, <2>2, <3>1 DEF Over, NextIdx
  <2>4. PlayedSlot(e) = [e EXCEPT !.idx = 0, !.cnt = w.plan.datas[0 + 1]]
    BY <1>6, <1>9, <2>2, <2>3 DEF PlayedSlot
  <2>5. PlayedSlot(e) = Started(d, w)
    BY <1>11, <1>12, <1>16, <2>4
  <2>6. PlayedLit(e) = TRUE
    BY <1>9, <2>2, <2>3 DEF PlayedLit
  <2>7. Played(t, i) = Put(t, i, PlayedSlot(e), PlayedLit(e))
    <3>1. t.datas[i].mode = "SPECIAL" /\ t.datas[i].plan \in SpecialPlans /\ Elapsed(t.datas[i])
      BY <1>6, <1>9, <1>13, <1>16, <2>1
    <3>2. Played(t, i) = Put(t, i, PlayedSlot(t.datas[i]), PlayedLit(t.datas[i]))
      BY <1>13, <3>1, PlayedIs
    <3> QED BY <1>13, <3>2
  <2> QED BY <1>8, <1>14, <1>16, <2>5, <2>6, <2>7
<1>17. SetIn(s, i, w) = Put(s, i, Started(d, w), TRUE)
  BY <1>15, <1>16
<1> QED BY <1>17 DEF StartIn

\* The same with the slot and the light as constants.
LEMMA StartInIs ==
  ASSUME NEW s, NEW i \in Slots, NEW w, NEW e, e = Started(s.datas[i], w), NEW on \in BOOLEAN, on = TRUE
  PROVE  StartIn(s, i, w) = Put(s, i, e, on)
BY DEF StartIn

\* The first of some slots is one of them.
LEMMA FirstIn ==
  ASSUME NEW S, S \subseteq Slots, S # {}
  PROVE  First(S) \in S
<1> DEFINE R == {ss \in Nat \X Nat : ss[1] < ss[2]}
<1>1. IsWellFoundedOn(R, Nat)
  BY NatLessThanWellFounded DEF OpToRel
<1>2. S \subseteq Nat
  BY QledAssumption DEF Slots
<1>3. PICK x \in S : \A y \in S : ~ (<<y, x>> \in R)
  <2> HIDE DEF R
  <2> QED BY <1>1, <1>2, WFMin
<1>4. \A j \in S : x <= j
  <2> SUFFICES ASSUME NEW j \in S PROVE x <= j
    OBVIOUS
  <2>1. ~(j < x)
    BY <1>2, <1>3
  <2> QED BY <1>2, <2>1
<1> QED BY <1>4 DEF First

\* A state is its two fields.
LEMMA RecordIs ==
  ASSUME NEW s, Shape(s)
  PROVE  /\ s = [datas |-> s.datas, port |-> s.port]
         /\ s.datas \in [Slots -> Slot] /\ s.port \in [Pins -> Port]
         /\ \A i : [s EXCEPT !.datas[i] = s.datas[i]] = s
         /\ \A p, out : [s EXCEPT !.port[p].out = out] = [datas |-> s.datas, port |-> [s.port EXCEPT ![p].out = out]]
<1>1. s = [datas |-> s.datas, port |-> s.port] /\ s.datas \in [Slots -> Slot] /\ s.port \in [Pins -> Port]
  BY DEF Shape
<1>2. ASSUME NEW i PROVE [s EXCEPT !.datas[i] = s.datas[i]] = s
  <2>1. [s.datas EXCEPT ![i] = s.datas[i]] = s.datas
    BY <1>1
  <2>2. [s EXCEPT !.datas[i] = s.datas[i]] = [datas |-> [s.datas EXCEPT ![i] = s.datas[i]], port |-> s.port]
    BY <1>1
  <2> QED BY <1>1, <2>1, <2>2
<1>3. ASSUME NEW p, NEW out
      PROVE  [s EXCEPT !.port[p].out = out] = [datas |-> s.datas, port |-> [s.port EXCEPT ![p].out = out]]
  BY <1>1
<1> QED BY <1>1, <1>2, <1>3

\* What is written to the port of a pin.
LEMMA PortFacts ==
  ASSUME NEW port_ \in [Pins -> Port], NEW p \in Pins
  PROVE  /\ port_[p].out \in BOOLEAN /\ port_[p].high \in BOOLEAN
         /\ port_[p] = [out |-> port_[p].out, high |-> port_[p].high]
         /\ \A out : [port_ EXCEPT ![p].out = out] = [port_ EXCEPT ![p] = [out |-> out, high |-> port_[p].high]]
         /\ \A x, y, out : [[port_ EXCEPT ![p] = [out |-> x, high |-> y]] EXCEPT ![p].out = out]
                              = [port_ EXCEPT ![p] = [out |-> out, high |-> y]]
<1>1. port_[p] \in Port
  OBVIOUS
<1>2. port_[p].out \in BOOLEAN /\ port_[p].high \in BOOLEAN /\ port_[p] = [out |-> port_[p].out, high |-> port_[p].high]
  BY <1>1 DEF Port
<1>3. ASSUME NEW out
      PROVE  [port_ EXCEPT ![p].out = out] = [port_ EXCEPT ![p] = [out |-> out, high |-> port_[p].high]]
  <2>1. [port_[p] EXCEPT !.out = out] = [out |-> out, high |-> port_[p].high]
    BY <1>2
  <2> QED BY <2>1
<1>4. ASSUME NEW x, NEW y, NEW out
      PROVE  [[port_ EXCEPT ![p] = [out |-> x, high |-> y]] EXCEPT ![p].out = out]
              = [port_ EXCEPT ![p] = [out |-> out, high |-> y]]
  <2> DEFINE v == [out |-> x, high |-> y]  u == [port_ EXCEPT ![p] = v]
  <2>1. u[p] = v
    OBVIOUS
  <2>2. [v EXCEPT !.out = out] = [out |-> out, high |-> y]
    OBVIOUS
  <2>3. [u EXCEPT ![p].out = out] = [u EXCEPT ![p] = [u[p] EXCEPT !.out = out]]
    OBVIOUS
  <2>4. \A w : [u EXCEPT ![p] = w] = [port_ EXCEPT ![p] = w]
    <3> HIDE DEF v
    <3> QED OBVIOUS
  <2> HIDE DEF u, v
  <2>5. [u EXCEPT ![p].out = out] = [port_ EXCEPT ![p] = [out |-> out, high |-> y]]
    BY <2>1, <2>2, <2>3, <2>4
  <2> QED BY <2>5 DEF u, v
<1> QED BY <1>2, <1>3, <1>4

\* The slot of an LED that is removed.
LEMMA ClearPin ==
  ASSUME NEW A \in [Slots -> Slot], NEW i \in Slots, NEW Q
  PROVE  [[datas |-> A, port |-> Q] EXCEPT !.datas[i].pin = None]
          = [datas |-> [A EXCEPT ![i] = [A[i] EXCEPT !.pin = None]], port |-> Q]
<1>1. [A EXCEPT ![i].pin = None] = [A EXCEPT ![i] = [A[i] EXCEPT !.pin = None]]
  OBVIOUS
<1>2. PICK s : s = [datas |-> A, port |-> Q]
  OBVIOUS
<1>3. s.datas = A /\ s.port = Q
  BY <1>2
<1>4. [s EXCEPT !.datas[i].pin = None] = [s EXCEPT !.datas = [s.datas EXCEPT ![i].pin = None]]
  OBVIOUS
<1>5. PICK B : B = [A EXCEPT ![i] = [A[i] EXCEPT !.pin = None]]
  OBVIOUS
<1>6. [s EXCEPT !.datas = B] = [datas |-> B, port |-> Q]
  BY <1>2
<1> QED BY <1>1, <1>2, <1>3, <1>4, <1>5, <1>6

\* over_cb keeps the types, whatever it finds in the table.
LEMMA CallbackTyped ==
  ASSUME NEW s, Typed(s), NEW p \in Pins, NEW plan \in SpecialPlans
  PROVE  Typed(Callback(s, p, plan))
<1>1. plan.over_cb \in Callbacks /\ Shape(s) /\ s.datas \in [Slots -> Slot] /\ s.port \in [Pins -> Port]
  BY PlanFacts DEF Typed, Shape
<1>2. CASE plan.over_cb = "null" \/ Having(s, p) = {}
  BY <1>2 DEF Callback
<1>3. CASE plan.over_cb # "null" /\ Having(s, p) # {}
  <2>7. PICK on \in BOOLEAN, no \in BOOLEAN : on = TRUE /\ no = FALSE
    OBVIOUS
  <2>4. PICK i \in Slots : i = First(Having(s, p))
    BY <1>3, FirstIn DEF Having
  <2>5. PICK A \in [Slots -> Slot], P \in [Pins -> Port] : A = s.datas /\ P = s.port
    BY <1>1
  <2>6. PICK e \in Slot : e = A[i]
    OBVIOUS
  <2>2. CASE plan.over_cb = "again"
    <3>1. PICK w : w = Wish("SPECIAL", plan)
      OBVIOUS
    <3>2. w.mode = "SPECIAL" /\ w.plan = plan
      BY <3>1 DEF Wish
    <3>3. w.mode \in {"BLINK", "SPECIAL"} /\ PlanFits(w.mode, w.plan)
      BY <3>2 DEF PlanFits
    <3>4. Callback(s, p, plan) = SetIn(s, i, w)
      BY <1>3, <2>2, <2>4, <3>1 DEF Callback
    <3>5. SetIn(s, i, w) = Put(s, i, Started(e, w), on)
      <4>1. SetIn(s, i, w) = StartIn(s, i, w)
        BY <1>1, <3>3, SetInIs
      <4>2. PICK f : f = Started(e, w)
        OBVIOUS
      <4>3. f = Started(s.datas[i], w)
        BY <2>5, <2>6, <4>2
      <4>4. StartIn(s, i, w) = Put(s, i, f, on)
        BY <2>7, <4>3, StartInIs
      <4> QED BY <4>1, <4>2, <4>4
    <3>6. PICK f \in Slot : f = Started(e, w) /\ SlotFits(f)
      BY <3>3, StartedFits
    <3>7. \A j \in Slots \ {i} : SlotFits(s.datas[j])
      BY DEF Typed
    <3>8. Typed(Put(s, i, f, on))
      BY <1>1, <3>6, <3>7, PutFacts
    <3> QED BY <3>4, <3>5, <3>6, <3>8
  <2>3. CASE plan.over_cb = "remove"
    <3>1. Callback(s, p, plan) = [PinMode(s, p, no) EXCEPT !.datas[i].pin = None]
      BY <1>3, <2>3, <2>4, <2>7 DEF Callback
    <3>2. PinMode(s, p, no) = [datas |-> A, port |-> [P EXCEPT ![p].out = no]]
      <4>1. [s EXCEPT !.port[p].out = no] = [datas |-> s.datas, port |-> [s.port EXCEPT ![p].out = no]]
        BY <1>1, RecordIs
      <4> QED BY <2>5, <4>1 DEF PinMode
    <3>3. PICK f \in Slot : f = [e EXCEPT !.pin = None]
      BY Zenon, SlotPin
    <3>4. Callback(s, p, plan) = [datas |-> [A EXCEPT ![i] = f], port |-> [P EXCEPT ![p].out = no]]
      <4>1. PICK Q : Q = [P EXCEPT ![p].out = no]
        OBVIOUS
      <4>2. [[datas |-> A, port |-> Q] EXCEPT !.datas[i].pin = None]
             = [datas |-> [A EXCEPT ![i] = [A[i] EXCEPT !.pin = None]], port |-> Q]
        BY ClearPin
      <4>3. f = [A[i] EXCEPT !.pin = None]
        BY <2>6, <3>3
      <4>4. PinMode(s, p, no) = [datas |-> A, port |-> Q]
        BY <3>2, <4>1
      <4> QED BY <3>1, <4>1, <4>2, <4>3, <4>4
    <3>5. [P EXCEPT ![p].out = no] \in [Pins -> Port]
      BY DEF Port
    <3>6. f.mode = e.mode /\ f.plan = e.plan /\ f.idx = e.idx
      BY <3>3 DEF Slot
    <3>7. \A j \in Slots : SlotFits(A[j])
      BY <2>5 DEF Typed
    <3>8. SlotFits(f)
      BY <2>6, <3>6, <3>7 DEF SlotFits
    <3>9. PICK B \in [Slots -> Slot], Q \in [Pins -> Port] : B = [A EXCEPT ![i] = f] /\ Q = [P EXCEPT ![p].out = no]
      BY <3>5
    <3>10. \A j \in Slots : SlotFits(B[j])
      BY <3>7, <3>8, <3>9
    <3>11. Callback(s, p, plan) = [datas |-> B, port |-> Q]
      BY <3>4, <3>9
    <3> QED BY <3>10, <3>11 DEF Typed
  <2> QED BY <1>1, <1>3, <2>2, <2>3 DEF Callbacks
<1> QED BY <1>2, <1>3

\* One slot of the pass keeps the types.
LEMMA RunSlotTyped ==
  ASSUME NEW s, Typed(s), NEW i \in Slots
  PROVE  Typed(RunSlot(s, i))
<1> DEFINE d == s.datas[i]
<1>1. Shape(s) /\ d \in Slot /\ SlotFits(d) /\ \A j \in Slots \ {i} : SlotFits(s.datas[j])
  BY DEF Typed, Shape
<1>2. d.mode \in {"OFF", "ON", "BLINK", "SPECIAL"} /\ d.pin \in Pins \cup {None} /\ d.level \in BOOLEAN
  BY <1>1, PlanFacts DEF Modes
<1>3. CASE d.pin = None
  BY <1>3 DEF RunSlot
<1>4. CASE d.pin # None /\ d.mode \in {"OFF", "ON"}
  <2>1. RunSlot(s, i) = Switch(s, i, d.mode = "ON")
    BY <1>4 DEF RunSlot
  <2>2. s = [s EXCEPT !.datas[i] = d]
    BY <1>1, RecordIs
  <2>3. PICK on \in BOOLEAN : on = (d.mode = "ON")
    OBVIOUS
  <2>4. Switch(s, i, on) = Put(s, i, d, on)
    BY <1>1, <2>2, SwitchPut
  <2>5. RunSlot(s, i) = Put(s, i, d, on)
    BY <2>1, <2>3, <2>4
  <2>6. Typed(Put(s, i, d, on))
    BY <1>1, PutFacts
  <2> QED BY <2>5, <2>6
<1>5. CASE d.pin # None /\ d.mode = "BLINK"
  <2>1. d.plan \in BlinkPlans /\ RunSlot(s, i) = RunBlink(s, i)
    BY <1>1, <1>5 DEF RunSlot, SlotFits, PlanFits
  <2>2. Blinked(d) \in Slot /\ SlotFits(Blinked(d))
    BY <1>1, <1>5, <2>1, BlinkedFits
  <2>3. RunBlink(s, i) = Put(s, i, Blinked(d), BlinkIdx(d) = 0)
    BY <1>1, <1>5, <2>1, RunBlinkIs
  <2>4. Typed(Put(s, i, Blinked(d), BlinkIdx(d) = 0))
    BY <1>1, <2>2, PutFacts
  <2> QED BY <2>1, <2>3, <2>4
<1>6. CASE d.pin # None /\ d.mode = "SPECIAL"
  <2>1. d.plan \in SpecialPlans /\ RunSlot(s, i) = RunSpecial(s, i) /\ d.idx < Len(d.plan.datas) /\ d.pin \in Pins
    BY <1>1, <1>2, <1>6 DEF RunSlot, SlotFits, PlanFits
  <2>2. PlayedSlot(d) \in Slot /\ SlotFits(PlayedSlot(d))
    BY <1>1, <1>6, <2>1, PlayedFits
  <2>3. Played(s, i) = Put(s, i, PlayedSlot(d), PlayedLit(d))
    BY <1>1, <1>6, <2>1, PlayedIs
  <2>4. Typed(Put(s, i, PlayedSlot(d), PlayedLit(d)))
    BY <1>1, <2>2, PutFacts
  <2>5. Typed(Played(s, i))
    BY <2>3, <2>4
  <2>6. Typed(Callback(Played(s, i), d.pin, d.plan))
    BY <2>1, <2>5, CallbackTyped
  <2> QED BY <2>1, <2>5, <2>6 DEF RunSpecial
<1> QED BY <1>2, <1>3, <1>4, <1>5, <1>6

\* What a pass makes of a slot, and whether its LED is lit then.
After(d) ==
    IF d.pin = None \/ d.mode \in {"OFF", "ON"} THEN d
    ELSE IF d.mode = "BLINK" THEN Blinked(d)
    ELSE IF ~Over(d) \/ d.plan.over_cb = "null" THEN PlayedSlot(d)
    ELSE IF d.plan.over_cb = "again" THEN Started(PlayedSlot(d), Wish("SPECIAL", d.plan))
    ELSE [PlayedSlot(d) EXCEPT !.pin = None]

LitAfter(d) ==
    \/ d.mode = "ON"
    \/ d.mode = "BLINK" /\ BlinkIdx(d) = 0
    \/ d.mode = "SPECIAL" /\ (PlayedLit(d) \/ (Over(d) /\ d.plan.over_cb = "again"))

PortAfter(port_, d) == [out |-> port_.out /\ After(d).pin # None, high |-> (LitAfter(d) = d.level)]

\* In a table in which no pin has two slots, slot i is all that is touched.
\* What is written to the pin of an LED that stays, and of one that is removed.
LEMMA PortAfterIs ==
  ASSUME NEW q \in Port, NEW d \in Slot
  PROVE  /\ After(d).pin # None => PortAfter(q, d) = [out |-> q.out, high |-> (LitAfter(d) = d.level)]
         /\ After(d).pin = None => PortAfter(q, d).out = FALSE /\ PortAfter(q, d) = [out |-> PortAfter(q, d).out, high |-> (LitAfter(d) = d.level)]
<1>1. PortAfter(q, d) = [out |-> q.out /\ After(d).pin # None, high |-> (LitAfter(d) = d.level)]
  BY DEF PortAfter
<1>2. q.out \in BOOLEAN
  BY DEF Port
<1>3. ASSUME After(d).pin # None PROVE PortAfter(q, d) = [out |-> q.out, high |-> (LitAfter(d) = d.level)]
  <2>1. (q.out /\ After(d).pin # None) = q.out
    BY <1>2, <1>3
  <2> QED BY <1>1, <2>1
<1>4. ASSUME After(d).pin = None
      PROVE  PortAfter(q, d).out = FALSE /\ PortAfter(q, d) = [out |-> PortAfter(q, d).out, high |-> (LitAfter(d) = d.level)]
  <2>1. PICK no \in BOOLEAN, y \in BOOLEAN : no = FALSE /\ y = (LitAfter(d) = d.level)
    OBVIOUS
  <2>2. (q.out /\ After(d).pin # None) = no
    BY <1>4, <2>1
  <2>3. PortAfter(q, d) = [out |-> no, high |-> y]
    BY <1>1, <2>1, <2>2
  <2>4. PortAfter(q, d).out = no
    BY <2>3
  <2>5. PortAfter(q, d) = [out |-> PortAfter(q, d).out, high |-> y]
    BY <2>3, <2>4
  <2> QED BY <2>1, <2>4, <2>5
<1> QED BY <1>3, <1>4

\* In a table in which no pin has two slots, slot i is all that is touched.
LEMMA RunSlotIs ==
  ASSUME NEW s, Typed(s), Distinct(s.datas), NEW i \in Slots
  PROVE  /\ RunSlot(s, i).datas = [s.datas EXCEPT ![i] = After(s.datas[i])]
         /\ RunSlot(s, i).port = IF s.datas[i].pin = None THEN s.port
                                 ELSE [s.port EXCEPT ![s.datas[i].pin] = PortAfter(@, s.datas[i])]
<1>1. Shape(s) /\ s.datas \in [Slots -> Slot] /\ s.port \in [Pins -> Port] /\ \A j \in Slots : SlotFits(s.datas[j])
  BY DEF Typed, Shape
<1>2. PICK A \in [Slots -> Slot], P \in [Pins -> Port] : A = s.datas /\ P = s.port
  BY <1>1
<1>3. PICK d \in Slot : d = A[i]
  OBVIOUS
<1>4. d = s.datas[i] /\ SlotFits(d)
  BY <1>1, <1>2, <1>3
<1>5. d.mode \in {"OFF", "ON", "BLINK", "SPECIAL"} /\ d.pin \in Pins \cup {None} /\ d.level \in BOOLEAN /\ None \notin Pins
  BY PlanFacts, QledAssumption DEF Modes
<1>6. PICK on \in BOOLEAN, no \in BOOLEAN : on = TRUE /\ no = FALSE
  OBVIOUS
<1>7. s = [datas |-> A, port |-> P]
  BY <1>1, <1>2, RecordIs
<1> SUFFICES /\ RunSlot(s, i).datas = [A EXCEPT ![i] = After(d)]
             /\ RunSlot(s, i).port = IF d.pin = None THEN P ELSE [P EXCEPT ![d.pin] = PortAfter(P[d.pin], d)]
  BY <1>2, <1>4
<1>8. CASE d.pin = None
  <2>1. After(d) = d /\ RunSlot(s, i) = s
    BY <1>4, <1>8 DEF RunSlot, After
  <2>2. [A EXCEPT ![i] = d] = A
    BY <1>3
  <2>3. RunSlot(s, i).datas = A /\ RunSlot(s, i).port = P
    BY <1>2, <2>1
  <2> QED BY <1>8, <2>1, <2>2, <2>3
\* A step that writes the slot and switches the LED, and leaves the pin an output.
<1>9. ASSUME d.pin # None, NEW e \in Slot, NEW lit \in BOOLEAN, RunSlot(s, i) = Put(s, i, e, lit), e = After(d),
             e.pin = d.pin, e.level = d.level, lit = LitAfter(d)
      PROVE  /\ RunSlot(s, i).datas = [A EXCEPT ![i] = After(d)]
             /\ RunSlot(s, i).port = [P EXCEPT ![d.pin] = PortAfter(P[d.pin], d)]
  <2>1. d.pin \in Pins
    BY <1>5, <1>9
  <2>2. PICK q \in Port : q = P[d.pin]
    BY <2>1
  <2>3. PortAfter(q, d) = [out |-> q.out, high |-> (LitAfter(d) = d.level)]
    BY <1>9, PortAfterIs
  <2>5. (lit = e.level) = (LitAfter(d) = d.level)
    BY <1>9
  <2>6. PortAfter(q, d) = [out |-> q.out, high |-> (lit = e.level)]
    BY <2>3, <2>5
  <2>7. Put(s, i, e, lit) = [datas |-> [A EXCEPT ![i] = e],
                             port |-> [P EXCEPT ![d.pin] = [out |-> P[d.pin].out, high |-> (lit = e.level)]]]
    BY <1>2, <1>9, <2>1 DEF Put
  <2>8. RunSlot(s, i).datas = [A EXCEPT ![i] = e] /\ RunSlot(s, i).port = [P EXCEPT ![d.pin] = [out |-> P[d.pin].out, high |-> (lit = e.level)]]
    BY <1>9, <2>7
  <2> QED BY <1>9, <2>2, <2>6, <2>8
<1>10. CASE d.pin # None /\ d.mode \in {"OFF", "ON"}
  <2>1. RunSlot(s, i) = Switch(s, i, d.mode = "ON")
    BY <1>4, <1>10 DEF RunSlot
  <2>2. s = [s EXCEPT !.datas[i] = d]
    BY <1>1, <1>4, RecordIs
  <2>3. PICK lit \in BOOLEAN : lit = (d.mode = "ON")
    OBVIOUS
  <2>4. Switch(s, i, lit) = Put(s, i, d, lit)
    BY <1>1, <2>2, SwitchPut
  <2>5. RunSlot(s, i) = Put(s, i, d, lit)
    BY <2>1, <2>3, <2>4
  <2>6. After(d) = d /\ lit = LitAfter(d)
    BY <1>10, <2>3 DEF After, LitAfter
  <2> QED BY <1>9, <1>10, <2>5, <2>6
<1>11. CASE d.pin # None /\ d.mode = "BLINK"
  <2>1. d.plan \in BlinkPlans /\ RunSlot(s, i) = RunBlink(s, i)
    BY <1>4, <1>11 DEF RunSlot, SlotFits, PlanFits
  <2>2. Blinked(d) \in Slot /\ Blinked(d).pin = d.pin /\ Blinked(d).level = d.level
    BY <1>11, <2>1, BlinkedFits
  <2>3. PICK lit \in BOOLEAN : lit = (BlinkIdx(d) = 0)
    OBVIOUS
  <2>4. RunBlink(s, i) = Put(s, i, Blinked(d), BlinkIdx(d) = 0)
    BY <1>1, <1>4, <1>11, <2>1, RunBlinkIs
  <2>5. PICK e \in Slot : e = Blinked(d)
    BY <2>2
  <2>6. RunSlot(s, i) = Put(s, i, e, lit)
    BY <2>1, <2>3, <2>4, <2>5
  <2>7. After(d) = e /\ lit = LitAfter(d)
    BY <1>11, <2>3, <2>5 DEF After, LitAfter
  <2> QED BY <1>9, <1>11, <2>2, <2>5, <2>6, <2>7
<1>12. CASE d.pin # None /\ d.mode = "SPECIAL"
  <2>1. d.plan \in SpecialPlans /\ d.idx < Len(d.plan.datas) /\ d.pin \in Pins /\ d.plan.over_cb \in Callbacks
    BY <1>4, <1>5, <1>12, PlanFacts DEF SlotFits, PlanFits
  <2>2. RunSlot(s, i) = RunSpecial(s, i)
    BY <1>4, <1>12 DEF RunSlot
  <2>20. PICK t : t = Played(s, i)
    OBVIOUS
  <2>3. PICK e \in Slot, lit \in BOOLEAN : e = PlayedSlot(d) /\ lit = PlayedLit(d) /\ t = Played(s, i)
    BY <1>12, <2>1, <2>20, PlayedFits
  <2>4. e.pin = d.pin /\ e.level = d.level
    BY <1>12, <2>1, <2>3, PlayedFits
  <2>5. t = Put(s, i, e, lit)
    <3>1. Played(s, i) = Put(s, i, PlayedSlot(s.datas[i]), PlayedLit(s.datas[i]))
      BY <1>1, <1>4, <1>12, <2>1, PlayedIs
    <3> QED BY <1>4, <2>3, <3>1
  <2>6. PICK B \in [Slots -> Slot] : B = [A EXCEPT ![i] = e]
    OBVIOUS
  <2>7. Shape(t) /\ t.datas = B
    <3>1. Shape(t) /\ t.datas = [s.datas EXCEPT ![i] = e]
      BY <1>1, <2>5, PutFacts
    <3> QED BY <1>2, <2>6, <3>1
  <2>8. B[i] = e /\ \A j \in Slots : j # i => B[j] = A[j]
    BY <2>6
  <2>9. CASE ~Over(d) \/ d.plan.over_cb = "null"
    <3>1. RunSlot(s, i) = t
      BY <1>4, <2>2, <2>3, <2>9 DEF RunSpecial, Callback
    <3>2. After(d) = e
      BY <1>12, <2>3, <2>9 DEF After
    <3>3. LitAfter(d) = lit
      BY <1>12, <2>3, <2>9 DEF LitAfter
    <3> QED BY <1>9, <1>12, <2>4, <2>5, <3>1, <3>2, <3>3
  <2>10. CASE Over(d) /\ d.plan.over_cb # "null"
    <3>1. RunSlot(s, i) = Callback(t, d.pin, d.plan)
      BY <1>4, <2>2, <2>3, <2>10 DEF RunSpecial
    <3>2. Having(t, d.pin) = {i}
      <4>1. \A j \in Slots : A[j].pin = d.pin => j = i
        BY <1>2, <1>3, <1>12 DEF Distinct
      <4>2. \A j \in Slots : B[j].pin = d.pin <=> j = i
        BY <2>4, <2>8, <4>1
      <4> QED BY <2>7, <4>2 DEF Having
    <3>3. First(Having(t, d.pin)) = i
      <4>1. {i} \subseteq Slots /\ {i} # {}
        OBVIOUS
      <4> QED BY <3>2, <4>1, FirstIn
    <3>4. CASE d.plan.over_cb = "again"
      <4>1. PICK w : w = Wish("SPECIAL", d.plan)
        OBVIOUS
      <4>2. Callback(t, d.pin, d.plan) = SetIn(t, i, w)
        BY <3>2, <3>3, <3>4, <4>1 DEF Callback
      <4>3. w.mode = "SPECIAL" /\ w.plan = d.plan
        BY <4>1 DEF Wish
      <4>4. w.mode \in {"BLINK", "SPECIAL"} /\ PlanFits(w.mode, w.plan)
        BY <2>1, <4>3 DEF PlanFits
      <4>5. PICK f \in Slot : f = Started(e, w)
        BY <4>4, StartedFits
      <4>6. f.pin = e.pin /\ f.level = e.level
        BY <4>4, <4>5, StartedFits
      <4>7. After(d) = f
        BY <1>12, <2>3, <2>10, <3>4, <4>1, <4>5 DEF After
      <4>8. LitAfter(d) = on
        BY <1>6, <1>12, <2>10, <3>4 DEF LitAfter
      <4>9. SetIn(t, i, w) = Put(t, i, f, on)
        <5>1. SetIn(t, i, w) = StartIn(t, i, w)
          BY <2>7, <4>4, SetInIs
        <5>2. f = Started(t.datas[i], w)
          BY <2>7, <2>8, <4>5
        <5>3. StartIn(t, i, w) = Put(t, i, f, on)
          BY <1>6, <5>2, StartInIs
        <5> QED BY <5>1, <5>3
      <4>10. Put(t, i, f, on) = Put(s, i, f, on)
        <5>1. e.pin = f.pin
          BY <4>6
        <5>2. Put(Put(s, i, e, lit), i, f, on) = Put(s, i, f, on)
          BY <1>1, <5>1, PutAgain
        <5> QED BY <2>5, <5>2
      <4>11. RunSlot(s, i) = Put(s, i, f, on)
        BY <3>1, <4>2, <4>9, <4>10
      <4>12. f.pin = d.pin /\ f.level = d.level
        BY <2>4, <4>6
      <4> QED BY <1>9, <1>12, <4>7, <4>8, <4>11, <4>12
    <3>5. CASE d.plan.over_cb = "remove"
      <4>1. PICK f \in Slot : f = [e EXCEPT !.pin = None]
        BY Zenon, SlotPin
      <4>2. Callback(t, d.pin, d.plan) = [PinMode(t, d.pin, no) EXCEPT !.datas[i].pin = None]
        BY <1>6, <3>2, <3>3, <3>5 DEF Callback
      <4>3. After(d) = f
        BY <1>12, <2>3, <2>10, <3>5, <4>1 DEF After
      <4>4. LitAfter(d) = lit
        BY <1>12, <2>3, <2>10, <3>5 DEF LitAfter
      <4>5. PICK q \in Port : q = P[d.pin]
        BY <2>1
      <4>6. PICK x \in BOOLEAN, y \in BOOLEAN : x = q.out /\ y = (lit = e.level)
        BY DEF Port
      <4>7. PICK v \in Port : v = [out |-> x, high |-> y]
        BY DEF Port
      <4>8. t = [datas |-> B, port |-> [P EXCEPT ![d.pin] = v]]
        <5>1. t = [datas |-> [s.datas EXCEPT ![i] = e],
                   port |-> [s.port EXCEPT ![e.pin] = [out |-> s.port[e.pin].out, high |-> (lit = e.level)]]]
          BY <2>1, <2>4, <2>5 DEF Put
        <5>2. [out |-> s.port[e.pin].out, high |-> (lit = e.level)] = v
          BY <1>2, <2>4, <4>5, <4>6, <4>7
        <5> QED BY <1>2, <2>4, <2>6, <5>1, <5>2
      <4>9. PICK Q : Q = [P EXCEPT ![d.pin] = v]
        OBVIOUS
      <4>10. PinMode(t, d.pin, no) = [datas |-> B, port |-> [Q EXCEPT ![d.pin].out = no]]
        <5>1. t = [datas |-> B, port |-> Q]
          BY <4>8, <4>9
        <5>2. [t EXCEPT !.port[d.pin].out = no] = [datas |-> B, port |-> [Q EXCEPT ![d.pin].out = no]]
          BY <5>1
        <5> QED BY <5>2 DEF PinMode
      <4>11. [Q EXCEPT ![d.pin].out = no] = [P EXCEPT ![d.pin] = [out |-> no, high |-> y]]
        <5>1. Q \in [Pins -> Port] /\ Q[d.pin] = v
          BY <2>1, <4>9
        <5>2. [v EXCEPT !.out = no] = [out |-> no, high |-> y]
          BY <4>7
        <5>3. [Q EXCEPT ![d.pin].out = no] = [Q EXCEPT ![d.pin] = [Q[d.pin] EXCEPT !.out = no]]
          BY <5>1
        <5>4. PICK u : u = [out |-> no, high |-> y]
          OBVIOUS
        <5>5. [Q EXCEPT ![d.pin] = u] = [P EXCEPT ![d.pin] = u]
          BY <2>1, <4>9
        <5> QED BY <5>1, <5>2, <5>3, <5>4, <5>5
      <4>12. PICK C : C = [P EXCEPT ![d.pin] = [out |-> no, high |-> y]]
        OBVIOUS
      <4>13. RunSlot(s, i) = [[datas |-> B, port |-> C] EXCEPT !.datas[i].pin = None]
        BY <3>1, <4>2, <4>10, <4>11, <4>12
      <4>14. RunSlot(s, i) = [datas |-> [B EXCEPT ![i] = f], port |-> C]
        <5>1. [[datas |-> B, port |-> C] EXCEPT !.datas[i].pin = None]
               = [datas |-> [B EXCEPT ![i] = [B[i] EXCEPT !.pin = None]], port |-> C]
          BY ClearPin
        <5> QED BY <2>8, <4>1, <4>13, <5>1
      <4>15. [B EXCEPT ![i] = f] = [A EXCEPT ![i] = f]
        BY <2>6
      <4>16. PortAfter(q, d) = [out |-> no, high |-> y]
        <5>1. f.pin = None
          BY <4>1 DEF Slot
        <5>2. After(d).pin = None
          BY <4>3, <5>1
        <5>3. PortAfter(q, d).out = FALSE /\ PortAfter(q, d) = [out |-> PortAfter(q, d).out, high |-> (LitAfter(d) = d.level)]
          BY <5>2, PortAfterIs
        <5>4. y = (LitAfter(d) = d.level)
          BY <2>4, <4>4, <4>6
        <5>5. PortAfter(q, d).out = no
          BY <1>6, <5>3
        <5> QED BY <5>3, <5>4, <5>5
      <4>17. RunSlot(s, i).datas = [A EXCEPT ![i] = f] /\ RunSlot(s, i).port = C
        BY <4>14, <4>15
      <4>18. C = [P EXCEPT ![d.pin] = PortAfter(P[d.pin], d)]
        BY <4>5, <4>12, <4>16
      <4> QED BY <1>12, <4>3, <4>17, <4>18
    <3> QED BY <2>1, <2>10, <3>4, <3>5 DEF Callbacks
  <2> QED BY <2>9, <2>10
<1> QED BY <1>5, <1>8, <1>10, <1>11, <1>12

-----------------------------------------------------------------------------
(* The pass over the table.                                                *)

IsPass(g, s, k) == g = [i \in 0 .. k |-> IF i = 0 THEN s ELSE RunSlot(g[i - 1], i)]
Runs(g, s, k) == \A i \in 0 .. k : g[i] = IF i = 0 THEN s ELSE RunSlot(g[i - 1], i)

\* The states of the pass.
LEMMA PassAt ==
  ASSUME NEW s, NEW k \in Nat, NEW g, IsPass(g, s, k)
  PROVE  Runs(g, s, k)
<1> DEFINE G(j) == IF j = 0 THEN s ELSE RunSlot(g[j - 1], j)
<1>1. g = [j \in 0 .. k |-> G(j)]
  BY DEF IsPass
<1> HIDE DEF G
<1>2. \A i \in 0 .. k : g[i] = G(i)
  BY <1>1
<1> QED BY <1>2 DEF G, Runs

\* A function with those states is the pass.
LEMMA PassOf ==
  ASSUME NEW s, NEW k \in Nat, NEW h, h = [i \in 0 .. k |-> h[i]],
         \A i \in 0 .. k : h[i] = IF i = 0 THEN s ELSE RunSlot(h[i - 1], i)
  PROVE  IsPass(h, s, k)
<1> DEFINE G(j) == IF j = 0 THEN s ELSE RunSlot(h[j - 1], j)
<1>1. \A j \in 0 .. k : h[j] = G(j)
  OBVIOUS
<1> HIDE DEF G
<1>2. h = [j \in 0 .. k |-> G(j)]
  BY <1>1
<1> QED BY <1>2 DEF G, IsPass

\* A table of any length has one.
LEMMA PassExists ==
  ASSUME NEW s
  PROVE  \A k \in Nat : \E g : IsPass(g, s, k)
<1> DEFINE S == {m \in Nat : \E g : IsPass(g, s, m)}
<1>1. 0 \in S
  <2> DEFINE h == [i \in 0 .. 0 |-> s]
  <2>1. h = [i \in 0 .. 0 |-> h[i]] /\ \A i \in 0 .. 0 : i = 0 /\ h[i] = s
    OBVIOUS
  <2> HIDE DEF h
  <2>2. \A i \in 0 .. 0 : h[i] = IF i = 0 THEN s ELSE RunSlot(h[i - 1], i)
    BY <2>1
  <2>3. 0 \in Nat
    OBVIOUS
  <2>4. IsPass(h, s, 0)
    BY <2>1, <2>2, <2>3, PassOf
  <2> QED BY <2>4
<1>2. ASSUME NEW m \in S PROVE m + 1 \in S
  <2>1. m \in Nat
    OBVIOUS
  <2>2. PICK g : IsPass(g, s, m)
    OBVIOUS
  <2> DEFINE h == [i \in 0 .. m + 1 |-> IF i \in 0 .. m THEN g[i] ELSE RunSlot(g[i - 1], i)]
  <2>3. \A i \in 0 .. m : g[i] = IF i = 0 THEN s ELSE RunSlot(g[i - 1], i)
    <3>1. Runs(g, s, m)
      BY <2>1, <2>2, PassAt
    <3> QED BY <3>1 DEF Runs
  <2>4. \A i \in 0 .. m + 1 : h[i] = IF i = 0 THEN s ELSE RunSlot(g[i - 1], i)
    BY <2>1, <2>3
  <2>5. \A i \in 0 .. m : h[i] = g[i]
    BY <2>1
  <2>6. \A i \in 0 .. m + 1 : i # 0 => i - 1 \in 0 .. m
    BY <2>1
  <2>7. h = [i \in 0 .. m + 1 |-> h[i]]
    OBVIOUS
  <2> HIDE DEF h
  <2>8. \A i \in 0 .. m + 1 : h[i] = IF i = 0 THEN s ELSE RunSlot(h[i - 1], i)
    BY <2>4, <2>5, <2>6
  <2>9. m + 1 \in Nat
    BY <2>1
  <2>10. IsPass(h, s, m + 1)
    BY <2>7, <2>8, <2>9, PassOf
  <2> QED BY <2>9, <2>10
<1>3. \A m \in Nat : m \in S
  <2>1. S \in SUBSET Nat
    OBVIOUS
  <2> HIDE DEF S
  <2> QED BY <1>1, <1>2, <2>1, SetInduction
<1> QED BY <1>3

\* The pass is the last of its states.
LEMMA PassIs ==
  \E g : IsPass(g, State, QLED_TOTAL) /\ Pass = g[QLED_TOTAL]
<1>1. PICK s : s = State
  OBVIOUS
<1> DEFINE f == CHOOSE g : g = [i \in 0 .. QLED_TOTAL |-> IF i = 0 THEN s ELSE RunSlot(g[i - 1], i)]
<1>2. \E g : g = [i \in 0 .. QLED_TOTAL |-> IF i = 0 THEN s ELSE RunSlot(g[i - 1], i)]
  <2>1. QLED_TOTAL \in Nat
    BY QledAssumption
  <2>2. \E g : IsPass(g, s, QLED_TOTAL)
    BY <2>1, PassExists
  <2> QED BY <2>2 DEF IsPass
<1>3. f = [i \in 0 .. QLED_TOTAL |-> IF i = 0 THEN s ELSE RunSlot(f[i - 1], i)]
  BY <1>2
<1>4. Pass = f[QLED_TOTAL]
  BY <1>1 DEF Pass
<1> HIDE DEF f
<1>5. IsPass(f, s, QLED_TOTAL)
  BY <1>3 DEF IsPass
<1> QED BY <1>1, <1>4, <1>5

\* A slot keeps its pin, or loses it.
LEMMA AfterFits ==
  ASSUME NEW d \in Slot, SlotFits(d)
  PROVE  After(d) \in Slot /\ SlotFits(After(d)) /\ After(d).level = d.level
         /\ After(d).pin \in {d.pin, None}
<1>1. d.mode \in {"OFF", "ON", "BLINK", "SPECIAL"}
  BY PlanFacts DEF Modes
<1>2. CASE d.pin = None \/ d.mode \in {"OFF", "ON"}
  BY <1>2 DEF After
<1>3. CASE d.pin # None /\ d.mode = "BLINK"
  <2>1. d.plan \in BlinkPlans
    BY <1>3 DEF SlotFits, PlanFits
  <2>2. After(d) = Blinked(d)
    BY <1>3 DEF After
  <2> QED BY <1>3, <2>1, <2>2, BlinkedFits
<1>4. CASE d.pin # None /\ d.mode = "SPECIAL"
  <2>1. d.plan \in SpecialPlans /\ d.idx < Len(d.plan.datas)
    BY <1>4 DEF SlotFits, PlanFits
  <2>2. PICK e \in Slot : e = PlayedSlot(d) /\ SlotFits(e) /\ e.pin = d.pin /\ e.level = d.level
    BY <1>4, <2>1, PlayedFits
  <2>3. CASE ~Over(d) \/ d.plan.over_cb = "null"
    <3>1. After(d) = e
      BY <1>4, <2>2, <2>3 DEF After
    <3> QED BY <2>2, <3>1
  <2>4. CASE Over(d) /\ d.plan.over_cb = "again"
    <3>1. PICK w : w = Wish("SPECIAL", d.plan)
      OBVIOUS
    <3>2. w.mode = "SPECIAL" /\ w.plan = d.plan
      BY <3>1 DEF Wish
    <3>3. w.mode \in {"BLINK", "SPECIAL"} /\ PlanFits(w.mode, w.plan)
      BY <2>1, <3>2 DEF PlanFits
    <3>4. After(d) = Started(e, w)
      BY <1>4, <2>2, <2>4, <3>1 DEF After
    <3> QED BY <2>2, <3>3, <3>4, StartedFits
  <2>5. CASE Over(d) /\ d.plan.over_cb \notin {"null", "again"}
    <3>1. PICK f \in Slot : f = [e EXCEPT !.pin = None]
      BY Zenon, SlotPin
    <3>2. After(d) = f
      BY <1>4, <2>2, <2>5, <3>1 DEF After
    <3>3. f.mode = e.mode /\ f.plan = e.plan /\ f.idx = e.idx /\ f.pin = None /\ f.level = e.level
      BY <3>1 DEF Slot
    <3>4. SlotFits(f)
      BY <2>2, <3>3 DEF SlotFits
    <3> QED BY <2>2, <3>2, <3>3, <3>4
  <2> QED BY <2>3, <2>4, <2>5
<1> QED BY <1>1, <1>2, <1>3, <1>4

\* r is the state of the pass that began in s after its first m slots.
Ran(s, r, m) ==
    /\ Typed(r) /\ Distinct(r.datas)
    /\ \A i \in Slots : r.datas[i] = IF i <= m THEN After(s.datas[i]) ELSE s.datas[i]
    /\ \A i \in Slots : s.datas[i].pin # None =>
        r.port[s.datas[i].pin] = IF i <= m THEN PortAfter(s.port[s.datas[i].pin], s.datas[i])
                                 ELSE s.port[s.datas[i].pin]
    /\ \A p \in Pins : (\A i \in Slots : s.datas[i].pin # p) => r.port[p] = s.port[p]

\* The next slot.
LEMMA RanNext ==
  ASSUME NEW s, Typed(s), Distinct(s.datas), NEW r, NEW m \in Nat, m + 1 \in Slots, Ran(s, r, m)
  PROVE  Ran(s, RunSlot(r, m + 1), m + 1)
<1>1. PICK k \in Slots : k = m + 1
  OBVIOUS
<1>2. PICK A \in [Slots -> Slot], P \in [Pins -> Port] : A = s.datas /\ P = s.port
  BY DEF Typed
<1>3. PICK B \in [Slots -> Slot], Q \in [Pins -> Port] : B = r.datas /\ Q = r.port
  BY DEF Ran, Typed
<1>4. PICK t : t = RunSlot(r, k)
  OBVIOUS
<1>5. PICK d \in Slot : d = A[k]
  OBVIOUS
<1>6. \A i \in Slots : i \in Nat /\ (i <= k <=> i <= m \/ i = k) /\ ~(k <= m)
  BY <1>1, QledAssumption DEF Slots
<1>7. \A i \in Slots : B[i] = IF i <= m THEN After(A[i]) ELSE A[i]
  BY <1>2, <1>3 DEF Ran
<1>8. B[k] = d
  BY <1>5, <1>6, <1>7
<1>9. Typed(t)
  BY <1>4, RunSlotTyped DEF Ran
<1>10. PICK C \in [Slots -> Slot], R \in [Pins -> Port] : C = t.datas /\ R = t.port
  BY <1>9 DEF Typed
<1>11. /\ C = [B EXCEPT ![k] = After(d)]
       /\ R = IF d.pin = None THEN Q ELSE [Q EXCEPT ![d.pin] = PortAfter(Q[d.pin], d)]
  <2>1. Typed(r) /\ Distinct(r.datas)
    BY DEF Ran
  <2>2. /\ RunSlot(r, k).datas = [r.datas EXCEPT ![k] = After(r.datas[k])]
        /\ RunSlot(r, k).port = IF r.datas[k].pin = None THEN r.port
                                ELSE [r.port EXCEPT ![r.datas[k].pin] = PortAfter(@, r.datas[k])]
    BY <2>1, RunSlotIs
  <2> QED BY <1>3, <1>4, <1>8, <1>10, <2>2
<1>12. \A i \in Slots : SlotFits(A[i])
  BY <1>2 DEF Typed
<1>13. After(d) \in Slot /\ After(d).pin \in {d.pin, None}
  BY <1>5, <1>12, AfterFits
<1>14. \A i \in Slots : C[i] = IF i = k THEN After(d) ELSE B[i]
  BY <1>11, <1>13
<1>15. \A i \in Slots : t.datas[i] = IF i <= k THEN After(s.datas[i]) ELSE s.datas[i]
  BY <1>2, <1>5, <1>6, <1>7, <1>10, <1>14
<1>16. Distinct(t.datas)
  <2>1. \A i, j \in Slots : B[i].pin = B[j].pin /\ B[i].pin # None => i = j
    BY <1>3 DEF Ran, Distinct
  <2>2. \A i \in Slots : C[i].pin = B[i].pin \/ C[i].pin = None
    BY <1>8, <1>13, <1>14
  <2>3. \A i, j \in Slots : C[i].pin = C[j].pin /\ C[i].pin # None => i = j
    BY <2>1, <2>2
  <2> QED BY <1>10, <2>3 DEF Distinct
<1>17. \A i \in Slots : A[i].pin \in Pins \cup {None}
  BY PlanFacts
<1>18. \A i, j \in Slots : A[i].pin = A[j].pin /\ A[i].pin # None => i = j
  BY <1>2 DEF Distinct
<1>19. \A p \in Pins : R[p] = IF d.pin = p THEN PortAfter(Q[p], d) ELSE Q[p]
  <2>1. CASE d.pin = None
    BY <1>11, <2>1, QledAssumption
  <2>2. CASE d.pin # None
    <3>1. d.pin \in Pins
      BY <1>5, <1>17, <2>2
    <3>2. R = [Q EXCEPT ![d.pin] = PortAfter(Q[d.pin], d)]
      BY <1>11, <2>2
    <3>3. PICK x : x = PortAfter(Q[d.pin], d)
      OBVIOUS
    <3>4. R = [Q EXCEPT ![d.pin] = x]
      BY <3>2, <3>3
    <3>5. \A p \in Pins : R[p] = IF d.pin = p THEN x ELSE Q[p]
      BY <3>1, <3>4
    <3> QED BY <3>3, <3>5
  <2> QED BY <2>1, <2>2
<1>20. ASSUME NEW i \in Slots, A[i].pin # None
       PROVE  R[A[i].pin] = IF i <= k THEN PortAfter(P[A[i].pin], A[i]) ELSE P[A[i].pin]
  <2>1. A[i].pin \in Pins
    BY <1>17, <1>20
  <2>2. Q[A[i].pin] = IF i <= m THEN PortAfter(P[A[i].pin], A[i]) ELSE P[A[i].pin]
    BY <1>2, <1>3, <1>20 DEF Ran
  <2>3. R[A[i].pin] = IF d.pin = A[i].pin THEN PortAfter(Q[A[i].pin], d) ELSE Q[A[i].pin]
    BY <1>19, <2>1
  <2>4. d.pin = A[i].pin <=> i = k
    BY <1>5, <1>18, <1>20
  <2> QED BY <1>5, <1>6, <2>2, <2>3, <2>4
<1>21. ASSUME NEW p \in Pins, \A i \in Slots : A[i].pin # p PROVE R[p] = P[p]
  <2>1. Q[p] = P[p]
    BY <1>2, <1>3, <1>21 DEF Ran
  <2> QED BY <1>5, <1>19, <1>21, <2>1
<1>22. Ran(s, t, k)
  BY <1>2, <1>9, <1>10, <1>15, <1>16, <1>20, <1>21 DEF Ran
<1> QED BY <1>1, <1>4, <1>22

\* The pass keeps the types of any table.
LEMMA PassTyped ==
  ASSUME Typed(State)
  PROVE  Typed(Pass)
<1>1. PICK g : IsPass(g, State, QLED_TOTAL) /\ Pass = g[QLED_TOTAL]
  BY PassIs
<1>2. QLED_TOTAL \in Nat /\ Slots = 1 .. QLED_TOTAL
  BY QledAssumption DEF Slots
<1>3. PICK s : s = State
  OBVIOUS
<1>4. \A i \in 0 .. QLED_TOTAL : g[i] = IF i = 0 THEN s ELSE RunSlot(g[i - 1], i)
  <2>1. IsPass(g, s, QLED_TOTAL)
    BY <1>1, <1>3
  <2>2. Runs(g, s, QLED_TOTAL)
    BY <1>2, <2>1, PassAt
  <2> QED BY <2>2 DEF Runs
<1> DEFINE S == {m \in Nat : m <= QLED_TOTAL => Typed(g[m])}
<1>5. 0 \in S
  BY <1>2, <1>3, <1>4
<1>6. ASSUME NEW m \in S PROVE m + 1 \in S
  <2>1. m \in Nat /\ m + 1 \in Nat /\ (m + 1) - 1 = m /\ m + 1 # 0
    OBVIOUS
  <2>2. ASSUME m + 1 <= QLED_TOTAL PROVE Typed(g[m + 1])
    <3>1. Typed(g[m]) /\ m + 1 \in Slots /\ m + 1 \in 0 .. QLED_TOTAL
      BY <1>2, <2>1, <2>2
    <3>2. g[m + 1] = RunSlot(g[m], m + 1)
      BY <1>4, <2>1, <3>1
    <3> QED BY <3>1, <3>2, RunSlotTyped
  <2> QED BY <2>1, <2>2
<1>7. \A m \in Nat : m \in S
  <2>1. S \in SUBSET Nat
    OBVIOUS
  <2> HIDE DEF S
  <2> QED BY <1>5, <1>6, <2>1, SetInduction
<1>8. Typed(g[QLED_TOTAL])
  BY <1>2, <1>7
<1> QED BY <1>1, <1>8

\* In a table in which no pin has two slots every LED is run for itself.
LEMMA PassRuns ==
  ASSUME Typed(State), Distinct(datas)
  PROVE  Ran(State, Pass, QLED_TOTAL)
<1>1. PICK g : IsPass(g, State, QLED_TOTAL) /\ Pass = g[QLED_TOTAL]
  BY PassIs
<1>2. QLED_TOTAL \in Nat /\ Slots = 1 .. QLED_TOTAL
  BY QledAssumption DEF Slots
<1>3. PICK s : s = State /\ Typed(s) /\ Distinct(s.datas)
  <2>1. State.datas = datas
    BY DEF State
  <2> QED BY <2>1
<1>4. \A i \in 0 .. QLED_TOTAL : g[i] = IF i = 0 THEN s ELSE RunSlot(g[i - 1], i)
  <2>1. IsPass(g, s, QLED_TOTAL)
    BY <1>1, <1>3
  <2>2. Runs(g, s, QLED_TOTAL)
    BY <1>2, <2>1, PassAt
  <2> QED BY <2>2 DEF Runs
<1> DEFINE S == {m \in Nat : m <= QLED_TOTAL => Ran(s, g[m], m)}
<1>5. 0 \in S
  <2>1. g[0] = s
    BY <1>2, <1>4
  <2>2. \A i \in Slots : ~(i <= 0)
    BY <1>2
  <2>3. Ran(s, s, 0)
    BY <1>3, <2>2 DEF Ran
  <2> QED BY <2>1, <2>3
<1>6. ASSUME NEW m \in S PROVE m + 1 \in S
  <2>1. m \in Nat /\ m + 1 \in Nat /\ (m + 1) - 1 = m /\ m + 1 # 0
    OBVIOUS
  <2>2. ASSUME m + 1 <= QLED_TOTAL PROVE Ran(s, g[m + 1], m + 1)
    <3>1. Ran(s, g[m], m) /\ m + 1 \in Slots /\ m + 1 \in 0 .. QLED_TOTAL
      BY <1>2, <2>1, <2>2
    <3>2. g[m + 1] = RunSlot(g[m], m + 1)
      BY <1>4, <2>1, <3>1
    <3>3. Ran(s, RunSlot(g[m], m + 1), m + 1)
      BY <1>3, <2>1, <3>1, RanNext
    <3> QED BY <3>2, <3>3
  <2> QED BY <2>1, <2>2
<1>7. \A m \in Nat : m \in S
  <2>1. S \in SUBSET Nat
    OBVIOUS
  <2> HIDE DEF S
  <2> QED BY <1>5, <1>6, <2>1, SetInduction
<1>8. Ran(s, g[QLED_TOTAL], QLED_TOTAL)
  BY <1>2, <1>7
<1> QED BY <1>1, <1>3, <1>8

-----------------------------------------------------------------------------
(* The types.                                                              *)

\* A period is never empty, so an age is a number.
LEMMA OlderIs ==
  ASSUME NEW w \in Wishes, PlanFits(w.mode, w.plan), NEW n \in Nat
  PROVE  Older(w, n) \in Nat
<1>1. Period(w) \in Nat /\ Period(w) >= 1
  <2>1. CASE w.mode = "BLINK"
    <3>1. w.plan.ton \in Nat /\ w.plan.toff \in Nat
      BY <2>1, PlanFacts DEF PlanFits
    <3> QED BY <2>1, <3>1 DEF Period, Lasts
  <2>2. CASE w.mode = "SPECIAL" /\ w.plan.over_cb = "again"
    <3>1. w.plan \in SpecialPlans
      BY <2>2 DEF PlanFits
    <3>2. PICK q \in Seq(Nat) : q = w.plan.datas /\ Len(q) >= 1
      BY <3>1, PlanFacts
    <3>3. Len(q) \in Nat
      OBVIOUS
    <3>4. 0 \in 0 .. Len(q) /\ Len(q) \in 0 .. Len(q) /\ 0 < Len(q)
      BY <3>2, <3>3
    <3>5. Until(q, 0) \in Nat /\ Until(q, Len(q)) \in Nat /\ Until(q, 0) < Until(q, Len(q))
      BY <3>4, UntilGrows
    <3>6. Period(w) = Until(q, Len(q))
      BY <2>2, <3>2 DEF Period, Length
    <3> QED BY <3>5, <3>6
  <2>3. CASE w.mode # "BLINK" /\ ~(w.mode = "SPECIAL" /\ w.plan.over_cb = "again")
    BY <2>3 DEF Period
  <2> QED BY <2>1, <2>2, <2>3
<1>2. CASE w.mode = "SPECIAL" /\ w.plan.over_cb # "again"
  BY <1>2 DEF Older
<1>3. CASE ~(w.mode = "SPECIAL" /\ w.plan.over_cb # "again")
  <2>1. Older(w, n) = (n + 1) % Period(w)
    BY <1>3 DEF Older
  <2>2. \A k \in Nat, q \in Nat : q >= 1 => k % q \in Nat
    OBVIOUS
  <2>3. n + 1 \in Nat
    OBVIOUS
  <2> QED BY <1>1, <2>1, <2>2, <2>3
<1> QED BY <1>2, <1>3

\* A call that returns.
LEMMA ReturnsTypes ==
  ASSUME Types, NEW c \in Clients, call[c] # NoCall, Returns(c), Typed(State)'
  PROVE  Types'
<1>1. call[c] \in Calls /\ WishOK(call[c].wish) /\ call[c].pin \in Pins /\ call[c].wish \in Wishes
  BY DEF Types, CallOK, Calls
<1>2. call' \in [Clients -> Calls] /\ \A d \in Clients : CallOK(call'[d])
  <2>1. NoCall \in Calls /\ CallOK(NoCall)
    BY DEF Calls, CallOK
  <2>2. call' = [call EXCEPT ![c] = NoCall]
    BY DEF Returns
  <2> QED BY <2>1, <2>2 DEF Types
<1>3. asked' \in [Pins -> Wishes] /\ \A p \in Pins : WishOK(asked'[p])
  BY <1>1 DEF Types, Returns
<1>4. age' \in [Pins -> Nat]
  BY <1>1 DEF Types, Returns
<1> QED BY <1>2, <1>3, <1>4 DEF Types

\* A call that goes on.
LEMMA GoesOnTypes ==
  ASSUME Types, NEW c \in Clients, NEW at \in Points, call[c] # NoCall, GoesOn(c, at), Typed(State)',
         CallOK([call[c] EXCEPT !.at = at])
  PROVE  Types'
<1>1. PICK k : k = [call[c] EXCEPT !.at = at] /\ CallOK(k) /\ k \in Calls
  BY DEF CallOK
<1>2. call' = [call EXCEPT ![c] = k]
  BY <1>1 DEF GoesOn, Types
<1>3. call' \in [Clients -> Calls] /\ \A d \in Clients : CallOK(call'[d])
  BY <1>1, <1>2 DEF Types
<1>4. asked' = asked /\ age' = age
  BY DEF GoesOn
<1> QED BY <1>3, <1>4 DEF Types

\* A call that begins.
LEMMA BeginTypes ==
  ASSUME Types, NEW c \in Clients, NEW p \in Pins, NEW w, WishOK(w), NEW slots, slots \subseteq Slots,
         NEW at \in Points, Begin(c, p, w, slots, at),
         at \in {"set_mode", "set_switch"} => w.mode \in {"OFF", "ON"},
         at = "set_run" => w.mode \in {"BLINK", "SPECIAL"},
         at \in {"add_init", "add_off", "add_store"} => w.mode = "added",
         at \in {"remove_deinit", "remove_clear"} => w = Removed
  PROVE  Types'
<1>1. First(slots) \in Slots
  BY FirstIn DEF Begin
<1>2. PICK k : k = [at |-> at, pin |-> p, idx |-> First(slots), wish |-> w]
  OBVIOUS
<1>3. k \in Calls
  BY <1>1, <1>2 DEF Calls, WishOK
<1>4. k.wish = w /\ k.at = at
  BY <1>2
<1>5. CallOK(k)
  BY <1>3, <1>4 DEF CallOK
<1>6. call' = [call EXCEPT ![c] = k]
  BY <1>2 DEF Begin
<1>7. call' \in [Clients -> Calls] /\ \A d \in Clients : CallOK(call'[d])
  BY <1>3, <1>5, <1>6 DEF Types
<1>8. UNCHANGED <<datas, port, asked, age>>
  BY DEF Begin
<1>9. State' = State
  BY <1>8 DEF State
<1> QED BY <1>7, <1>8, <1>9 DEF Types

\* What a step leaves in the table.
LEMMA StateIs ==
  /\ State = [datas |-> datas, port |-> port] /\ State.datas = datas /\ State.port = port
  /\ Types => /\ datas \in [Slots -> Slot] /\ port \in [Pins -> Port] /\ Shape(State)
              /\ \A i \in Slots : SlotFits(datas[i])
  /\ datas' \in [Slots -> Slot] /\ port' \in [Pins -> Port] /\ (\A i \in Slots : SlotFits(datas'[i]))
        => Typed(State)'
  /\ \A s : Becomes(s) /\ Typed(s) => Typed(State)' /\ State' = s
<1>1. State = [datas |-> datas, port |-> port] /\ State.datas = datas /\ State.port = port
  BY DEF State
<1>2. ASSUME Types
      PROVE  /\ datas \in [Slots -> Slot] /\ port \in [Pins -> Port] /\ Shape(State)
             /\ \A i \in Slots : SlotFits(datas[i])
  BY <1>1, <1>2 DEF Types, Typed, Shape
<1>3. ASSUME datas' \in [Slots -> Slot], port' \in [Pins -> Port], \A i \in Slots : SlotFits(datas'[i])
      PROVE  Typed(State)'
  BY <1>3 DEF Typed, State
<1>4. ASSUME NEW s, Becomes(s), Typed(s) PROVE Typed(State)' /\ State' = s
  <2>1. State' = [datas |-> s.datas, port |-> s.port]
    BY <1>4 DEF Becomes, State
  <2>2. s = [datas |-> s.datas, port |-> s.port]
    BY <1>4, RecordIs DEF Typed, Shape
  <2>3. Typed(State') <=> Typed(State)'
    BY DEF Typed
  <2> QED BY <1>4, <2>1, <2>2, <2>3
<1> QED BY <1>1, <1>2, <1>3, <1>4

Written(s, t, p, high) ==
    /\ t.datas = s.datas
    /\ t.port[p].high = high /\ t.port[p].out = s.port[p].out
    /\ \A q \in Pins : q # p => t.port[q] = s.port[q]

\* A pin that is written: nothing else changes.
LEMMA WriteIs ==
  ASSUME NEW s, Typed(s), NEW p \in Pins, NEW high \in BOOLEAN, NEW t, t = Write(s, p, high)
  PROVE  Typed(t) /\ Written(s, t, p, high)
<1>1. PICK A \in [Slots -> Slot], P \in [Pins -> Port] : s = [datas |-> A, port |-> P]
  BY RecordIs DEF Typed, Shape
<1>2. PICK v \in Port : v = [P[p] EXCEPT !.high = high]
  BY DEF Port
<1>3. v.high = high /\ v.out = P[p].out
  BY <1>2 DEF Port
<1>4. PICK Q \in [Pins -> Port] : Q = [P EXCEPT ![p] = v]
  OBVIOUS
<1>5. [P EXCEPT ![p].high = high] = Q
  BY <1>2, <1>4
<1>6. t = [s EXCEPT !.port[p].high = high]
  BY DEF Write
<1>7. t = [datas |-> A, port |-> Q]
  BY <1>1, <1>5, <1>6
<1>8. Q[p] = v /\ \A q \in Pins : q # p => Q[q] = P[q]
  BY <1>4
<1>9. Typed(t)
  BY <1>1, <1>7 DEF Typed
<1>10. t.datas = A /\ t.port = Q /\ s.datas = A /\ s.port = P
  BY <1>1, <1>7
<1> QED BY <1>3, <1>8, <1>9, <1>10 DEF Written

\* A pin whose direction is set: nothing else changes.
LEMMA PinModeIs ==
  ASSUME NEW s, Typed(s), NEW p \in Pins, NEW out \in BOOLEAN, NEW t, t = PinMode(s, p, out)
  PROVE  /\ Typed(t) /\ t.datas = s.datas
         /\ t.port[p].out = out /\ t.port[p].high = s.port[p].high
         /\ \A q \in Pins : q # p => t.port[q] = s.port[q]
<1>1. PICK A \in [Slots -> Slot], P \in [Pins -> Port] : s = [datas |-> A, port |-> P]
  BY RecordIs DEF Typed, Shape
<1>2. PICK v \in Port : v = [P[p] EXCEPT !.out = out]
  BY DEF Port
<1>3. v.out = out /\ v.high = P[p].high
  BY <1>2 DEF Port
<1>4. PICK Q \in [Pins -> Port] : Q = [P EXCEPT ![p] = v]
  OBVIOUS
<1>5. [P EXCEPT ![p].out = out] = Q
  BY <1>2, <1>4
<1>6. t = [s EXCEPT !.port[p].out = out]
  BY DEF PinMode
<1>7. t = [datas |-> A, port |-> Q]
  BY <1>1, <1>5, <1>6
<1>8. Q[p] = v /\ \A q \in Pins : q # p => Q[q] = P[q]
  BY <1>4
<1>9. Typed(t)
  BY <1>1, <1>7 DEF Typed
<1>10. t.datas = A /\ t.port = Q /\ s.datas = A /\ s.port = P
  BY <1>1, <1>7
<1> QED BY <1>3, <1>8, <1>9, <1>10

\* The slot of a call and what it is about to set.
LEMMA CallFacts ==
  ASSUME Types, NEW c \in Clients, NEW at, Calling(c, at)
  PROVE  /\ call[c] \in Calls /\ call[c] # NoCall /\ call[c].at = at
         /\ call[c].pin \in Pins /\ call[c].idx \in Slots /\ call[c].wish \in Wishes
         /\ CallOK(call[c]) /\ WishOK(call[c].wish)
BY DEF Types, Calling, CallOK, Calls

\* A call is still one when it goes on.
LEMMA GoesOnOK ==
  ASSUME NEW k, CallOK(k), k # NoCall, NEW at \in Points,
         at \in {"set_mode", "set_switch"} => k.at = "set_mode",
         at # "set_run",
         at \in {"add_init", "add_off", "add_store"} => k.at \in {"add_init", "add_off"},
         at \in {"remove_deinit", "remove_clear"} => k.at = "remove_deinit"
  PROVE  /\ CallOK([k EXCEPT !.at = at])
         /\ [k EXCEPT !.at = at].at = at /\ [k EXCEPT !.at = at].pin = k.pin
         /\ [k EXCEPT !.at = at].idx = k.idx /\ [k EXCEPT !.at = at].wish = k.wish
         /\ [k EXCEPT !.at = at] # NoCall
<1>1. k \in [at : Points, pin : Pins, idx : Slots, wish : Wishes]
  BY DEF CallOK, Calls
<1>2. PICK m : m = [k EXCEPT !.at = at]
  OBVIOUS
<1>3. m \in [at : Points, pin : Pins, idx : Slots, wish : Wishes]
      /\ m.at = at /\ m.pin = k.pin /\ m.idx = k.idx /\ m.wish = k.wish
  BY <1>1, <1>2
<1>4. m # NoCall
  <2>1. NoCall.at = "none" /\ at # "none"
    BY DEF NoCall, Points
  <2> QED BY <1>3, <2>1
<1>5. CallOK(m)
  BY <1>3, <1>4 DEF CallOK, Calls
<1> QED BY <1>2, <1>3, <1>4, <1>5

\* qled_add, qled_remove, qled_set_off and qled_set_on keep the types.
LEMMA CallTypes ==
  ASSUME Types, NEW c \in Clients,
         AddInit(c) \/ AddOff(c) \/ AddStore(c) \/ RemoveDeinit(c) \/ RemoveClear(c) \/ SetMode(c) \/ SetSwitch(c)
  PROVE  Types'
<1>1. Typed(State) /\ datas \in [Slots -> Slot] /\ port \in [Pins -> Port]
      /\ \A i \in Slots : SlotFits(datas[i])
  BY StateIs DEF Types
<1>2. PICK on \in BOOLEAN, no \in BOOLEAN : on = TRUE /\ no = FALSE
  OBVIOUS
<1>3. {"add_init", "add_off", "add_store", "remove_deinit", "remove_clear", "set_mode", "set_switch", "set_run"} = Points
  BY DEF Points
<1>4. CASE AddInit(c)
  <2>1. Calling(c, "add_init") /\ GoesOn(c, "add_off")
    BY <1>4 DEF AddInit
  <2>2. PICK k : k = call[c] /\ CallOK(k) /\ k # NoCall /\ k.at = "add_init" /\ k.pin \in Pins
    BY <2>1, CallFacts
  <2>3. PICK s : s = PinMode(State, k.pin, on)
    OBVIOUS
  <2>4. Typed(s)
    BY <1>1, <2>2, <2>3, PinModeIs
  <2>5. PICK t : t = Write(s, k.pin, no)
    OBVIOUS
  <2>6. Typed(t)
    BY <2>2, <2>4, <2>5, WriteIs
  <2>7. Becomes(t)
    BY <1>2, <1>4, <2>2, <2>3, <2>5 DEF AddInit
  <2>8. CallOK([call[c] EXCEPT !.at = "add_off"])
    BY <1>3, <2>2, GoesOnOK
  <2>9. Typed(State)'
    BY <2>6, <2>7, StateIs
  <2> QED BY <1>3, <2>1, <2>2, <2>8, <2>9, GoesOnTypes
<1>5. CASE AddOff(c)
  <2>1. Calling(c, "add_off") /\ GoesOn(c, "add_store")
    BY <1>5 DEF AddOff
  <2>2. PICK k : k = call[c] /\ CallOK(k) /\ k # NoCall /\ k.at = "add_off" /\ k.pin \in Pins
    BY <2>1, CallFacts
  <2>3. PICK high \in BOOLEAN : high = ~Wired[k.pin]
    OBVIOUS
  <2>4. PICK t : t = Write(State, k.pin, high)
    OBVIOUS
  <2>5. Typed(t)
    BY <1>1, <2>2, <2>4, WriteIs
  <2>6. Becomes(t)
    BY <1>5, <2>2, <2>3, <2>4 DEF AddOff
  <2>7. CallOK([call[c] EXCEPT !.at = "add_store"])
    BY <1>3, <2>2, GoesOnOK
  <2>8. Typed(State)'
    BY <2>5, <2>6, StateIs
  <2> QED BY <1>3, <2>1, <2>2, <2>7, <2>8, GoesOnTypes
<1>6. CASE AddStore(c)
  <2>1. Calling(c, "add_store") /\ Returns(c) /\ port' = port
    BY <1>6 DEF AddStore
  <2>2. PICK k : k = call[c] /\ CallOK(k) /\ k # NoCall /\ k.at = "add_store" /\ k.pin \in Pins /\ k.idx \in Slots
    BY <2>1, CallFacts
  <2>3. PICK e \in Slot, level \in BOOLEAN : e = datas[k.idx] /\ level = Wired[k.pin]
    BY <1>1, <2>2, QledAssumption
  <2>4. PICK f \in Slot : f = [e EXCEPT !.pin = k.pin, !.level = level]
    BY Zenon, <2>2, SlotAdded
  <2>5. datas' = [datas EXCEPT ![k.idx] = f]
    <3>1. datas' = [datas EXCEPT ![k.idx].pin = k.pin, ![k.idx].level = level]
      BY <1>6, <2>2, <2>3 DEF AddStore
    <3> QED BY <1>1, <2>2, <2>3, <2>4, <3>1
  <2>6. f.mode = e.mode /\ f.plan = e.plan /\ f.idx = e.idx
    BY <2>4 DEF Slot
  <2>7. SlotFits(f)
    BY <1>1, <2>2, <2>3, <2>6 DEF SlotFits
  <2>8. datas' \in [Slots -> Slot] /\ \A i \in Slots : SlotFits(datas'[i])
    BY <1>1, <2>5, <2>7
  <2>9. Typed(State)'
    BY <1>1, <2>1, <2>8, StateIs
  <2> QED BY <2>1, <2>2, <2>9, ReturnsTypes
<1>7. CASE RemoveDeinit(c)
  <2>1. Calling(c, "remove_deinit") /\ GoesOn(c, "remove_clear")
    BY <1>7 DEF RemoveDeinit
  <2>2. PICK k : k = call[c] /\ CallOK(k) /\ k # NoCall /\ k.at = "remove_deinit" /\ k.pin \in Pins
    BY <2>1, CallFacts
  <2>3. PICK t : t = PinMode(State, k.pin, no)
    OBVIOUS
  <2>4. Typed(t)
    BY <1>1, <2>2, <2>3, PinModeIs
  <2>5. Becomes(t)
    BY <1>2, <1>7, <2>2, <2>3 DEF RemoveDeinit
  <2>6. CallOK([call[c] EXCEPT !.at = "remove_clear"])
    BY <1>3, <2>2, GoesOnOK
  <2>7. Typed(State)'
    BY <2>4, <2>5, StateIs
  <2> QED BY <1>3, <2>1, <2>2, <2>6, <2>7, GoesOnTypes
<1>8. CASE RemoveClear(c)
  <2>1. Calling(c, "remove_clear") /\ Returns(c) /\ port' = port
    BY <1>8 DEF RemoveClear
  <2>2. PICK k : k = call[c] /\ CallOK(k) /\ k # NoCall /\ k.pin \in Pins /\ k.idx \in Slots
    BY <2>1, CallFacts
  <2>3. PICK e \in Slot : e = datas[k.idx]
    BY <1>1, <2>2
  <2>4. PICK f \in Slot : f = [e EXCEPT !.pin = None]
    BY Zenon, SlotPin
  <2>5. datas' = [datas EXCEPT ![k.idx] = f]
    <3>1. datas' = [datas EXCEPT ![k.idx].pin = None]
      BY <1>8, <2>2 DEF RemoveClear
    <3> QED BY <1>1, <2>2, <2>3, <2>4, <3>1
  <2>6. f.mode = e.mode /\ f.plan = e.plan /\ f.idx = e.idx
    BY <2>4 DEF Slot
  <2>7. SlotFits(f)
    BY <1>1, <2>2, <2>3, <2>6 DEF SlotFits
  <2>8. datas' \in [Slots -> Slot] /\ \A i \in Slots : SlotFits(datas'[i])
    BY <1>1, <2>5, <2>7
  <2>9. Typed(State)'
    BY <1>1, <2>1, <2>8, StateIs
  <2> QED BY <2>1, <2>2, <2>9, ReturnsTypes
<1>9. CASE SetMode(c)
  <2>1. Calling(c, "set_mode") /\ GoesOn(c, "set_switch") /\ port' = port
    BY <1>9 DEF SetMode
  <2>2. PICK k : k = call[c] /\ CallOK(k) /\ k # NoCall /\ k.at = "set_mode" /\ k.idx \in Slots
    BY <2>1, CallFacts
  <2>3. PICK e \in Slot : e = datas[k.idx]
    BY <1>1, <2>2
  <2>4. PICK mode \in Modes : mode = k.wish.mode /\ mode \in {"OFF", "ON"}
    BY <2>2 DEF CallOK, Modes
  <2>5. PICK f \in Slot : f = Still(e, mode)
    <3>1. 0 \in 0 .. 255 /\ 0 \in Nat /\ NoPlan \in Plans \cup {NoPlan}
      OBVIOUS
    <3>2. [e EXCEPT !.mode = mode, !.idx = 0, !.cnt = 0, !.plan = NoPlan] \in Slot
      BY Zenon, <3>1, SlotMode
    <3> QED BY <3>2 DEF Still
  <2>6. datas' = [datas EXCEPT ![k.idx] = f]
    BY <1>9, <2>2, <2>3, <2>4, <2>5 DEF SetMode
  <2>7. f.mode = mode
    BY <2>5 DEF Still, Slot
  <2>8. SlotFits(f)
    BY <2>4, <2>7 DEF SlotFits, PlanFits
  <2>9. datas' \in [Slots -> Slot] /\ \A i \in Slots : SlotFits(datas'[i])
    BY <1>1, <2>6, <2>8
  <2>10. Typed(State)'
    BY <1>1, <2>1, <2>9, StateIs
  <2>11. CallOK([call[c] EXCEPT !.at = "set_switch"])
    BY <1>3, <2>2, GoesOnOK
  <2> QED BY <1>3, <2>1, <2>2, <2>10, <2>11, GoesOnTypes
<1>10. CASE SetSwitch(c)
  <2>1. Calling(c, "set_switch") /\ Returns(c)
    BY <1>10 DEF SetSwitch
  <2>2. PICK k : k = call[c] /\ CallOK(k) /\ k # NoCall /\ k.pin \in Pins /\ k.idx \in Slots
    BY <2>1, CallFacts
  <2>3. PICK high \in BOOLEAN : high = ((k.wish.mode = "ON") = datas[k.idx].level)
    OBVIOUS
  <2>4. PICK t : t = Write(State, k.pin, high)
    OBVIOUS
  <2>5. Typed(t)
    BY <1>1, <2>2, <2>4, WriteIs
  <2>6. Becomes(t)
    BY <1>10, <2>2, <2>3, <2>4 DEF SetSwitch
  <2>7. Typed(State)'
    BY <2>5, <2>6, StateIs
  <2> QED BY <2>1, <2>2, <2>7, ReturnsTypes
<1> QED BY <1>4, <1>5, <1>6, <1>7, <1>8, <1>9, <1>10

\* qled_set_blink and qled_set_special: the slot and the pin after them.
LEMMA SetRunIs ==
  ASSUME Types, NEW c \in Clients, SetRun(c)
  PROVE  \E k \in Calls, f \in Slot, on \in BOOLEAN :
            /\ k = call[c] /\ k # NoCall /\ k.at = "set_run" /\ CallOK(k) /\ k.pin \in Pins /\ k.idx \in Slots
            /\ k.wish.mode \in {"BLINK", "SPECIAL"} /\ PlanFits(k.wish.mode, k.wish.plan)
            /\ f = Started(datas[k.idx], k.wish) /\ SlotFits(f) /\ on = TRUE
            /\ State' = Put(State, k.idx, f, on) /\ Typed(State)' /\ Returns(c)
<1>1. Calling(c, "set_run") /\ Returns(c) /\ Becomes(SetIn(State, call[c].idx, call[c].wish))
  BY DEF SetRun
<1>2. PICK k \in Calls : k = call[c] /\ CallOK(k) /\ k # NoCall /\ k.at = "set_run" /\ k.pin \in Pins /\ k.idx \in Slots
  BY <1>1, CallFacts
<1>3. PICK w : w = k.wish /\ w.mode \in {"BLINK", "SPECIAL"} /\ PlanFits(w.mode, w.plan)
  BY <1>2 DEF CallOK, WishOK
<1>4. Typed(State) /\ Shape(State) /\ State.datas = datas /\ datas \in [Slots -> Slot]
      /\ \A i \in Slots : SlotFits(datas[i])
  BY StateIs DEF Types
<1>5. PICK i \in Slots : i = k.idx
  BY <1>2
<1>6. PICK e \in Slot : e = datas[i]
  BY <1>4
<1>7. PICK f \in Slot : f = Started(e, w) /\ SlotFits(f)
  BY <1>3, StartedFits
<1>8. PICK on \in BOOLEAN : on = TRUE
  OBVIOUS
<1>9. SetIn(State, i, w) = Put(State, i, f, on)
  <2>1. SetIn(State, i, w) = StartIn(State, i, w)
    BY <1>3, <1>4, SetInIs
  <2>2. f = Started(State.datas[i], w)
    BY <1>4, <1>6, <1>7
  <2>3. StartIn(State, i, w) = Put(State, i, f, on)
    BY <1>8, <2>2, StartInIs
  <2> QED BY <2>1, <2>3
<1>10. Typed(Put(State, i, f, on))
  <2>1. \A j \in Slots \ {i} : SlotFits(State.datas[j])
    BY <1>4
  <2> QED BY <1>4, <1>7, <2>1, PutFacts
<1>11. PICK t : t = Put(State, i, f, on)
  OBVIOUS
<1>12. Becomes(t)
  BY <1>1, <1>2, <1>3, <1>5, <1>9, <1>11
<1>13. Typed(State)' /\ State' = t
  BY <1>10, <1>11, <1>12, StateIs
<1>14. f = Started(datas[k.idx], k.wish)
  BY <1>3, <1>5, <1>6, <1>7
<1>15. State' = Put(State, k.idx, f, on)
  BY <1>5, <1>11, <1>13
<1> QED BY <1>1, <1>2, <1>3, <1>7, <1>8, <1>13, <1>14, <1>15

\* They keep the types.
LEMMA SetRunTypes ==
  ASSUME Types, NEW c \in Clients, SetRun(c)
  PROVE  Types'
<1>1. call[c] # NoCall /\ Typed(State)' /\ Returns(c)
  BY SetRunIs
<1> QED BY <1>1, ReturnsTypes

\* A call that begins keeps the types.
LEMMA CallBeginTypes ==
  ASSUME Types, NEW c \in Clients, NEW p \in Pins,
         AddBegin(c, p) \/ RemoveBegin(c, p) \/ SetBegin(c, p) \/ RunBegin(c, p)
  PROVE  Types'
<1>1. \A q : Having(State, q) \subseteq Slots
  BY DEF Having
<1>2. {"add_init", "remove_deinit", "set_mode", "set_run"} \subseteq Points
  BY DEF Points
<1>3. \A m \in {"removed", "added", "OFF", "ON"} : WishOK(Wish(m, NoPlan)) /\ Wish(m, NoPlan).mode = m
  BY DEF WishOK, Wishes, Wish, PlanFits, Modes
<1>4. CASE AddBegin(c, p)
  <2>1. PICK w, slots : w = Wish("added", NoPlan) /\ slots = AddTo(p)
    OBVIOUS
  <2>2. slots \subseteq Slots
    BY <1>1, <2>1 DEF AddTo
  <2>3. WishOK(w) /\ w.mode = "added"
    BY <1>3, <2>1
  <2>4. Begin(c, p, w, slots, "add_init")
    BY <1>4, <2>1 DEF AddBegin
  <2>5. "add_init" \in Points
    BY <1>2
  <2> QED BY <2>2, <2>3, <2>4, <2>5, BeginTypes
<1>5. CASE RemoveBegin(c, p)
  <2>1. PICK w, slots : w = Removed /\ slots = Having(State, p)
    OBVIOUS
  <2>2. WishOK(w)
    BY <1>3, <2>1 DEF Removed
  <2>3. Begin(c, p, w, slots, "remove_deinit")
    BY <1>5, <2>1 DEF RemoveBegin
  <2>4. slots \subseteq Slots /\ "remove_deinit" \in Points
    BY <1>1, <1>2, <2>1
  <2> QED BY <2>1, <2>2, <2>3, <2>4, BeginTypes
<1>6. CASE SetBegin(c, p)
  <2>1. PICK m \in {"OFF", "ON"} : Begin(c, p, Wish(m, NoPlan), Having(State, p), "set_mode")
    BY <1>6 DEF SetBegin
  <2>2. PICK w, slots : w = Wish(m, NoPlan) /\ slots = Having(State, p)
    OBVIOUS
  <2>3. WishOK(w) /\ w.mode \in {"OFF", "ON"}
    BY <1>3, <2>2
  <2>4. Begin(c, p, w, slots, "set_mode")
    BY <2>1, <2>2
  <2>5. slots \subseteq Slots /\ "set_mode" \in Points
    BY <1>1, <1>2, <2>2
  <2> QED BY <2>3, <2>4, <2>5, BeginTypes
<1>7. CASE RunBegin(c, p)
  <2>1. PICK plan \in Plans : Begin(c, p, Wish(IF "ton" \in DOMAIN plan THEN "BLINK" ELSE "SPECIAL", plan),
                                    Having(State, p), "set_run")
    BY <1>7 DEF RunBegin
  <2>2. PICK w, slots : w = Wish(IF "ton" \in DOMAIN plan THEN "BLINK" ELSE "SPECIAL", plan) /\ slots = Having(State, p)
    OBVIOUS
  <2>3. w.mode = (IF "ton" \in DOMAIN plan THEN "BLINK" ELSE "SPECIAL") /\ w.plan = plan
        /\ w = [mode |-> w.mode, plan |-> w.plan]
    BY <2>2 DEF Wish
  <2>4. plan \in BlinkPlans \/ (plan \in SpecialPlans /\ "ton" \notin DOMAIN plan)
    BY DEF Plans, BlinkPlans, SpecialPlans
  <2>5. "ton" \in DOMAIN plan => plan \in BlinkPlans
    BY <2>4
  <2>6. plan \in BlinkPlans => "ton" \in DOMAIN plan
    BY DEF BlinkPlans
  <2>7. w.mode \in {"BLINK", "SPECIAL"} /\ PlanFits(w.mode, w.plan)
    BY <2>3, <2>4, <2>5, <2>6 DEF PlanFits
  <2>8. WishOK(w)
    BY <2>3, <2>7 DEF WishOK, Wishes, Modes
  <2>9. Begin(c, p, w, slots, "set_run")
    BY <2>1, <2>2
  <2>10. slots \subseteq Slots /\ "set_run" \in Points
    BY <1>1, <1>2, <2>2
  <2> QED BY <2>7, <2>8, <2>9, <2>10, BeginTypes
<1> QED BY <1>4, <1>5, <1>6, <1>7

\* A pass keeps the types.
LEMMA TickTypes ==
  ASSUME Types, Tick
  PROVE  Types' /\ State' = Pass
<1>1. Typed(Pass)
  BY PassTyped DEF Types
<1>2. PICK t : t = Pass
  OBVIOUS
<1>3. Becomes(t)
  BY <1>2 DEF Tick
<1>4. Typed(State)' /\ State' = t
  BY <1>1, <1>2, <1>3, StateIs
<1>5. Removed \in Wishes /\ WishOK(Removed)
  BY DEF Removed, Wish, Wishes, WishOK, PlanFits
<1>6. asked' = [p \in Pins |-> IF \E i \in Slots : datas[i].pin = p /\ datas'[i].pin = None
                              THEN Removed ELSE asked[p]]
  BY DEF Tick
<1>7. asked' \in [Pins -> Wishes] /\ \A p \in Pins : WishOK(asked'[p])
  BY <1>5, <1>6 DEF Types
<1>8. \A p \in Pins : Older(asked[p], age[p]) \in Nat
  <2> TAKE p \in Pins
  <2>1. PICK w \in Wishes, n \in Nat : w = asked[p] /\ n = age[p] /\ PlanFits(w.mode, w.plan)
    BY DEF Types, WishOK
  <2> QED BY <2>1, OlderIs
<1>9. age' = [p \in Pins |-> IF asked'[p] # asked[p] THEN 0 ELSE Older(asked[p], age[p])]
  BY DEF Tick
<1>10. age' \in [Pins -> Nat]
  BY <1>8, <1>9
<1>11. call' = call
  BY DEF Tick
<1> QED BY <1>2, <1>4, <1>7, <1>10, <1>11 DEF Types

\* The empty table has the types.
LEMMA InitTypes ==
  ASSUME Init
  PROVE  Types
<1>1. PICK d : d = [pin |-> None, mode |-> "OFF", level |-> FALSE, idx |-> 0, cnt |-> 0, plan |-> NoPlan]
  OBVIOUS
<1>2. d \in Slot /\ d.mode = "OFF"
  BY <1>1 DEF Slot, Modes, U8
<1>3. SlotFits(d)
  BY <1>2 DEF SlotFits, PlanFits
<1>4. datas \in [Slots -> Slot] /\ \A i \in Slots : SlotFits(datas[i])
  BY <1>1, <1>2, <1>3 DEF Init
<1>5. port \in [Pins -> Port]
  BY DEF Init, Port
<1>6. Typed(State)
  BY <1>4, <1>5 DEF Typed, State
<1>7. NoCall \in Calls /\ CallOK(NoCall) /\ Removed \in Wishes /\ WishOK(Removed)
  BY DEF CallOK, Calls, Removed, Wish, Wishes, WishOK, PlanFits
<1> QED BY <1>6, <1>7 DEF Types, Init

\* Every step keeps the types.
LEMMA TypesNext ==
  ASSUME Types, [Next]_vars
  PROVE  Types'
<1>1. CASE Next
  <2>1. Tick \/ \E c \in Clients : Client(c)
    BY <1>1 DEF Next
  <2>2. CASE Tick
    BY <2>2, TickTypes
  <2>3. CASE \E c \in Clients : Client(c)
    <3>1. PICK c \in Clients : Client(c)
      BY <2>3
    <3>2. CASE SetRun(c)
      BY <3>2, SetRunTypes
    <3>3. CASE AddInit(c) \/ AddOff(c) \/ AddStore(c) \/ RemoveDeinit(c) \/ RemoveClear(c) \/ SetMode(c) \/ SetSwitch(c)
      BY <3>3, CallTypes
    <3>4. CASE \E p \in Pins : AddBegin(c, p) \/ RemoveBegin(c, p) \/ SetBegin(c, p) \/ RunBegin(c, p)
      <4>1. PICK p \in Pins : AddBegin(c, p) \/ RemoveBegin(c, p) \/ SetBegin(c, p) \/ RunBegin(c, p)
        BY <3>4
      <4> QED BY <4>1, CallBeginTypes
    <3> QED BY <3>1, <3>2, <3>3, <3>4 DEF Client
  <2> QED BY <2>1, <2>2, <2>3
<1>2. CASE UNCHANGED vars
  <2>1. datas' = datas /\ port' = port /\ call' = call /\ asked' = asked /\ age' = age
    BY <1>2 DEF vars
  <2>2. State' = State
    BY <2>1 DEF State
  <2> QED BY <2>1, <2>2 DEF Types
<1> QED BY <1>1, <1>2

\* The types are those of the model, and every slot fits.
LEMMA TypesOK ==
  ASSUME Types
  PROVE  TypeOK /\ \A i \in Slots : SlotFits(datas[i])
<1>1. datas \in [Slots -> Slot] /\ port \in [Pins -> Port]
  BY StateIs
<1>2. \A i \in Slots : SlotFits(datas[i])
  BY StateIs
<1> QED BY <1>1, <1>2 DEF Types, TypeOK, Port

\* For any number of threads that call, whatever they call, and whatever lies in
\* memory behind a sequence: the table keeps its types, and between two steps
\* a slot that blinks or plays a sequence has the times of its mode and is at
\* one of them (qled_run_blink, qled_run_special, and their callbacks).
THEOREM QledTypes == Spec => [](TypeOK /\ \A i \in Slots : SlotFits(datas[i]))
<1>1. Init => Types
  BY InitTypes
<1>2. Types /\ [Next]_vars => Types'
  BY TypesNext
<1>3. Types => TypeOK /\ \A i \in Slots : SlotFits(datas[i])
  BY TypesOK
<1> QED BY <1>1, <1>2, <1>3, PTL DEF Spec

-----------------------------------------------------------------------------
(* What a slot shows against what was asked for.                           *)

\* Age within a period.
LEMMA ModFacts ==
  /\ \A n, q \in Nat : n < q => n % q = n
  /\ \A q \in Nat : q >= 1 => q % q = 0
  /\ \A n \in Nat : n % 1 = 0
<1>1. \A n, q \in Nat : n < q => n % q = n
  OBVIOUS
<1>2. \A q \in Nat : q >= 1 => q % q = 0
  OBVIOUS
<1>3. \A n \in Nat : n % 1 = 0
  OBVIOUS
<1> QED BY <1>1, <1>2, <1>3

\* Is the LED lit at time n of a sequence, by its times alone?
Plays(seq, n) == \E k \in 1 .. Len(seq) : k % 2 = 1 /\ n \in Until(seq, k - 1) .. Until(seq, k) - 1

\* In which time n is says whether the LED is lit.
LEMMA PlaysIs ==
  ASSUME NEW seq \in Seq(Nat), NEW n \in Nat
  PROVE  /\ \A i \in 0 .. Len(seq) - 1 :
              (Until(seq, i) <= n /\ n < Until(seq, i + 1)) => (Plays(seq, n) <=> i % 2 = 0)
         /\ n >= Until(seq, Len(seq)) => ~Plays(seq, n)
<1>1. Len(seq) \in Nat
  OBVIOUS
<1>2. \A k \in 0 .. Len(seq) : Until(seq, k) \in Nat
  BY UntilGrows
<1>3. \A j, k \in 0 .. Len(seq) : j < k => Until(seq, j) < Until(seq, k)
  BY UntilGrows
<1>4. ASSUME NEW i \in 0 .. Len(seq) - 1, Until(seq, i) <= n, n < Until(seq, i + 1)
      PROVE  Plays(seq, n) <=> i % 2 = 0
  <2>1. ASSUME i % 2 = 0 PROVE Plays(seq, n)
    <3>1. i + 1 \in 1 .. Len(seq) /\ (i + 1) % 2 = 1 /\ (i + 1) - 1 = i /\ i \in 0 .. Len(seq) /\ i + 1 \in 0 .. Len(seq)
      BY <1>1, <2>1
    <3>2. n \in Until(seq, i) .. Until(seq, i + 1) - 1
      BY <1>2, <1>4, <3>1
    <3> QED BY <3>1, <3>2 DEF Plays
  <2>2. ASSUME NEW k \in 1 .. Len(seq), k % 2 = 1, n \in Until(seq, k - 1) .. Until(seq, k) - 1
        PROVE  i % 2 = 0
    <3>1. k \in 0 .. Len(seq) /\ k - 1 \in 0 .. Len(seq) /\ i \in 0 .. Len(seq) /\ i + 1 \in 0 .. Len(seq)
      BY <1>1
    <3>2. PICK u \in Nat, v \in Nat, x \in Nat, y \in Nat :
             u = Until(seq, k - 1) /\ v = Until(seq, k) /\ x = Until(seq, i) /\ y = Until(seq, i + 1)
      BY <1>2, <3>1
    <3>3. u <= n /\ n < v /\ x <= n /\ n < y
      BY <1>4, <2>2, <3>2
    <3>4. ~(k < i + 1)
      <4>1. SUFFICES ASSUME k < i + 1 PROVE FALSE
        OBVIOUS
      <4>2. k = i \/ k < i
        BY <1>1, <4>1
      <4>3. v <= x
        BY <1>3, <3>1, <3>2, <4>2
      <4> QED BY <3>3, <4>3
    <3>5. ~(i + 1 < k)
      <4>1. SUFFICES ASSUME i + 1 < k PROVE FALSE
        OBVIOUS
      <4>2. i + 1 = k - 1 \/ i + 1 < k - 1
        BY <1>1, <4>1
      <4>3. y <= u
        <5>1. CASE i + 1 = k - 1
          <6>1. y = u
            BY <3>2, <5>1
          <6> QED BY <6>1
        <5>2. CASE i + 1 < k - 1
          <6>1. Until(seq, i + 1) < Until(seq, k - 1)
            BY <1>3, <3>1, <5>2
          <6> QED BY <3>2, <6>1
        <5> QED BY <4>2, <5>1, <5>2
      <4> QED BY <3>3, <4>3
    <3>6. k = i + 1
      BY <3>1, <3>4, <3>5
    <3> QED BY <2>2, <3>6
  <2> QED BY <2>1, <2>2 DEF Plays
<1>5. ASSUME n >= Until(seq, Len(seq)) PROVE ~Plays(seq, n)
  <2>1. SUFFICES ASSUME NEW k \in 1 .. Len(seq), n \in Until(seq, k - 1) .. Until(seq, k) - 1 PROVE FALSE
    BY DEF Plays
  <2>2. k \in 0 .. Len(seq) /\ k - 1 \in 0 .. Len(seq) /\ Len(seq) \in 0 .. Len(seq)
    BY <1>1
  <2>3. PICK u \in Nat, v \in Nat, x \in Nat : u = Until(seq, k - 1) /\ v = Until(seq, k) /\ x = Until(seq, Len(seq))
    BY <1>2, <2>2
  <2>4. n < v
    BY <2>1, <2>3
  <2>5. v <= x
    <3>1. k = Len(seq) \/ k < Len(seq)
      BY <1>1
    <3> QED BY <1>3, <2>2, <2>3, <3>1
  <2> QED BY <1>5, <2>3, <2>4, <2>5
<1> QED BY <1>4, <1>5

\* Light and age of the wishes of each mode.
LEMMA WishIs ==
  ASSUME NEW w, NEW n \in Nat, WishOK(w)
  PROVE  /\ w.mode = "ON" => ShouldBeLit(w, n)
         /\ w.mode \in {"OFF", "removed"} => ~ShouldBeLit(w, n)
         /\ w.mode = "BLINK" => /\ (ShouldBeLit(w, n) <=> n < Lasts(w.plan.ton))
                                /\ Older(w, n) = (n + 1) % (Lasts(w.plan.ton) + Lasts(w.plan.toff))
         /\ w.mode = "SPECIAL" =>
              (ShouldBeLit(w, n) <=>
                 Plays(w.plan.datas, n)
                 \/ (n = Length(w.plan.datas) /\ w.plan.over_cb = "null" /\ Len(w.plan.datas) % 2 = 0))
         /\ w.mode = "SPECIAL" /\ w.plan.over_cb = "again" => Older(w, n) = (n + 1) % Length(w.plan.datas)
         /\ w.mode = "SPECIAL" /\ w.plan.over_cb # "again" =>
              Older(w, n) = IF n > Length(w.plan.datas) THEN n ELSE n + 1
<1>1. w.mode = "ON" => ShouldBeLit(w, n)
  BY DEF ShouldBeLit
<1>2. w.mode \in {"OFF", "removed"} => ~ShouldBeLit(w, n)
  BY DEF ShouldBeLit
<1>3. w.mode = "BLINK" => (ShouldBeLit(w, n) <=> n < Lasts(w.plan.ton))
  BY DEF ShouldBeLit
<1>4. w.mode = "BLINK" => Older(w, n) = (n + 1) % (Lasts(w.plan.ton) + Lasts(w.plan.toff))
  BY DEF Older, Period
<1>5. w.mode = "SPECIAL" =>
         (ShouldBeLit(w, n) <=>
            Plays(w.plan.datas, n)
            \/ (n = Length(w.plan.datas) /\ w.plan.over_cb = "null" /\ Len(w.plan.datas) % 2 = 0))
  BY DEF ShouldBeLit, Plays
<1>6. w.mode = "SPECIAL" /\ w.plan.over_cb = "again" => Older(w, n) = (n + 1) % Length(w.plan.datas)
  BY DEF Older, Period
<1>7. w.mode = "SPECIAL" /\ w.plan.over_cb # "again" =>
              Older(w, n) = IF n > Length(w.plan.datas) THEN n ELSE n + 1
  BY DEF Older
<1> QED BY <1>1, <1>2, <1>3, <1>4, <1>5, <1>6, <1>7

\* A slot whose times were just set is at the first of them, and lit.
LEMMA StartedFollows ==
  ASSUME NEW d \in Slot, NEW w, WishOK(w), w.mode \in {"BLINK", "SPECIAL"}
  PROVE  Follows(Started(d, w), w, 0) /\ ShouldBeLit(w, 0)
<1>1. PICK e : e = Started(d, w)
  OBVIOUS
<1>2. /\ e.mode = w.mode /\ e.idx = 0 /\ e.plan = w.plan
      /\ e.cnt = IF w.mode = "BLINK" THEN w.plan.ton ELSE w.plan.datas[1]
  BY <1>1 DEF Started, Slot
<1>3. 0 \in Nat
  OBVIOUS
<1>4. CASE w.mode = "BLINK"
  <2>1. PICK x \in Nat, y \in Nat : x = w.plan.ton /\ y = w.plan.toff
    BY <1>4, PlanFacts DEF WishOK, PlanFits
  <2>2. 0 < Lasts(x) /\ x + 0 = x
    BY <2>1 DEF Lasts
  <2>3. ShouldBeLit(w, 0)
    BY <1>3, <1>4, <2>1, <2>2, WishIs
  <2>4. BlinkAt(e, w.plan, 0)
    BY <1>2, <1>4, <2>1, <2>2 DEF BlinkAt
  <2>5. Follows(e, w, 0)
    BY <1>2, <1>4, <2>4 DEF Follows
  <2> QED BY <1>1, <2>3, <2>5
<1>5. CASE w.mode = "SPECIAL"
  <2>1. w.plan \in SpecialPlans
    BY <1>5 DEF WishOK, PlanFits
  <2>2. PICK seq \in Seq(Nat) : seq = w.plan.datas /\ Len(seq) \in Nat /\ Len(seq) >= 1
    BY <2>1, PlanFacts
  <2>3. 0 \in 0 .. Len(seq) - 1 /\ 0 \in 0 .. Len(seq) /\ 1 \in 0 .. Len(seq) /\ 0 + 1 = 1 /\ 0 < 1 /\ 0 % 2 = 0
        /\ 1 \in 1 .. Len(seq)
    BY <2>2
  <2>4. Until(seq, 0) = 0 /\ Until(seq, 1) \in Nat /\ Until(seq, 0) < Until(seq, 1)
    BY <1>3, <2>3, UntilGrows, UntilNext
  <2>5. Plays(seq, 0)
    <3>1. Until(seq, 0) <= 0 /\ 0 < Until(seq, 0 + 1)
      BY <2>3, <2>4
    <3>2. Plays(seq, 0) <=> 0 % 2 = 0
      BY <1>3, <2>3, <3>1, PlaysIs
    <3> QED BY <2>3, <3>2
  <2>6. ShouldBeLit(w, 0)
    BY <1>3, <1>5, <2>2, <2>5, WishIs
  <2>7. SpecialAt(e, seq, 0)
    <3>1. e.cnt = seq[1] /\ seq[1] \in Nat /\ e.idx = 0
      BY <1>2, <1>5, <2>2, <2>3
    <3>2. seq[1] + (0 - 0) = seq[1]
      BY <3>1
    <3> QED BY <2>2, <2>3, <2>4, <3>1, <3>2 DEF SpecialAt
  <2>8. Follows(e, w, 0)
    BY <1>2, <1>5, <2>2, <2>7 DEF Follows
  <2> QED BY <1>1, <2>6, <2>8
<1> QED BY <1>4, <1>5

\* A blinking LED: the next pass is the next one of the period.
LEMMA BlinkNext ==
  ASSUME NEW d \in Slot, SlotFits(d), d.pin # None, NEW w, WishOK(w), w.mode = "BLINK", NEW n \in Nat, Follows(d, w, n)
  PROVE  Follows(After(d), w, Older(w, n)) /\ (LitAfter(d) <=> ShouldBeLit(w, Older(w, n)))
<1>1. d.mode = "BLINK" /\ d.plan = w.plan /\ BlinkAt(d, w.plan, n) /\ w.plan \in BlinkPlans
  BY DEF Follows, WishOK, PlanFits
<1>2. PICK x \in Nat, y \in Nat : x = w.plan.ton /\ y = w.plan.toff
  BY <1>1, PlanFacts
<1>3. PICK p \in Nat, q \in Nat : p = Lasts(x) /\ q = Lasts(y) /\ p >= 1 /\ q >= 1
  BY DEF Lasts
<1>4. (x = 0 => p = 1) /\ (x # 0 => p = x) /\ (y = 0 => q = 1) /\ (y # 0 => q = y)
  BY <1>3 DEF Lasts
<1>5. PICK i \in Nat, c \in Nat : i = d.idx /\ c = d.cnt
  BY PlanFacts
<1>6. \/ i = 0 /\ n < p /\ c + n = x
      \/ i = 1 /\ n >= p /\ n < p + q /\ c + (n - p) = y
  BY <1>1, <1>2, <1>3, <1>5 DEF BlinkAt
<1>7. PICK m \in Nat : m = Older(w, n) /\ m = (n + 1) % (p + q)
  <2>1. Older(w, n) = (n + 1) % (p + q)
    BY <1>2, <1>3, WishIs
  <2>2. n + 1 \in Nat /\ p + q \in Nat /\ p + q >= 1
    BY <1>3
  <2>3. (n + 1) % (p + q) \in Nat
    BY <2>2
  <2> QED BY <2>1, <2>3
<1>8. (n + 1 < p + q => m = n + 1) /\ (n + 1 = p + q => m = 0)
  <2>1. n + 1 \in Nat /\ p + q \in Nat /\ p + q >= 1
    BY <1>3
  <2> QED BY <1>7, <2>1, ModFacts
<1>9. ShouldBeLit(w, m) <=> m < p
  BY <1>2, <1>3, WishIs
<1>10. PICK e : e = After(d)
  OBVIOUS
<1>11. e = Blinked(d)
  BY <1>1, <1>10 DEF After
<1>12. e.mode = "BLINK" /\ e.plan = w.plan /\ e.idx = BlinkIdx(d)
       /\ e.cnt = IF ~Elapsed(d) THEN c - 1 ELSE IF BlinkIdx(d) = 0 THEN x ELSE y
  BY <1>1, <1>2, <1>5, <1>11 DEF Blinked, Slot
<1>13. LitAfter(d) <=> BlinkIdx(d) = 0
  BY <1>1 DEF LitAfter
<1>14. Elapsed(d) <=> c - 1 <= 0
  BY <1>5 DEF Elapsed
<1>15. BlinkIdx(d) = IF ~Elapsed(d) THEN i ELSE IF i = 0 THEN 1 ELSE 0
  <2>1. ((0 + 1) % 256) % 2 = 1 /\ ((1 + 1) % 256) % 2 = 0
    OBVIOUS
  <2> QED BY <1>5, <1>6, <2>1 DEF BlinkIdx, U8
<1>16. SUFFICES /\ \/ BlinkIdx(d) = 0 /\ m < p /\ e.cnt + m = x
                   \/ BlinkIdx(d) = 1 /\ m >= p /\ m < p + q /\ e.cnt + (m - p) = y
                /\ BlinkIdx(d) = 0 <=> m < p
  <2>1. BlinkAt(e, w.plan, m) <=> (\/ BlinkIdx(d) = 0 /\ m < p /\ e.cnt + m = x
                                   \/ BlinkIdx(d) = 1 /\ m >= p /\ m < p + q /\ e.cnt + (m - p) = y)
    BY <1>2, <1>3, <1>12 DEF BlinkAt
  <2>2. BlinkAt(e, w.plan, m) => Follows(e, w, m)
    BY <1>12 DEF Follows
  <2> QED BY <1>7, <1>9, <1>10, <1>13, <2>1, <2>2
<1>17. CASE ~Elapsed(d) /\ i = 0
  <2>1. e.cnt = c - 1 /\ BlinkIdx(d) = 0 /\ c >= 2
    BY <1>12, <1>14, <1>15, <1>17
  <2>2. n + 1 < p /\ m = n + 1
    BY <1>3, <1>4, <1>6, <1>8, <1>17, <2>1
  <2> QED BY <1>6, <1>17, <2>1, <2>2
<1>18. CASE ~Elapsed(d) /\ i = 1
  <2>1. e.cnt = c - 1 /\ BlinkIdx(d) = 1 /\ c >= 2
    BY <1>12, <1>14, <1>15, <1>18
  <2>2. n + 1 < p + q /\ m = n + 1
    BY <1>3, <1>4, <1>6, <1>8, <1>18, <2>1
  <2> QED BY <1>6, <1>18, <2>1, <2>2
<1>19. CASE Elapsed(d) /\ i = 0
  <2>1. e.cnt = y /\ BlinkIdx(d) = 1 /\ c <= 1
    BY <1>12, <1>14, <1>15, <1>19
  <2>2. n + 1 = p /\ m = n + 1
    BY <1>3, <1>4, <1>6, <1>8, <1>19, <2>1
  <2> QED BY <1>3, <2>1, <2>2
<1>20. CASE Elapsed(d) /\ i = 1
  <2>1. e.cnt = x /\ BlinkIdx(d) = 0 /\ c <= 1
    BY <1>12, <1>14, <1>15, <1>20
  <2>2. n + 1 = p + q /\ m = 0
    BY <1>3, <1>4, <1>6, <1>8, <1>20, <2>1
  <2> QED BY <1>3, <2>1, <2>2
<1> QED BY <1>6, <1>17, <1>18, <1>19, <1>20

\* An LED with a sequence that is not over.
LEMMA SpecialNext ==
  ASSUME NEW d \in Slot, SlotFits(d), d.pin # None, d.mode = "SPECIAL",
         NEW w, WishOK(w), w.mode = "SPECIAL", NEW n \in Nat, Follows(d, w, n), ~Over(d)
  PROVE  Follows(After(d), w, Older(w, n)) /\ (LitAfter(d) <=> ShouldBeLit(w, Older(w, n)))
<1>1. d.plan = w.plan /\ SpecialAt(d, w.plan.datas, n) /\ w.plan \in SpecialPlans
  BY DEF Follows, WishOK, PlanFits
<1>2. PICK seq \in Seq(Nat), l \in Nat : /\ seq = w.plan.datas /\ l = Len(seq) /\ l >= 1 /\ l <= 255
                                         /\ \A k \in 1 .. l : seq[k] \in Nat
  BY <1>1, PlanFacts
<1>3. PICK i \in Nat, c \in Nat : i = d.idx /\ c = d.cnt /\ i < l
  BY <1>1, <1>2, PlanFacts DEF SpecialAt
<1>4. i \in 0 .. l /\ i + 1 \in 0 .. l /\ l \in 0 .. l /\ i + 1 \in 1 .. l /\ i \in 0 .. l - 1 /\ i < i + 1
  BY <1>2, <1>3
<1>5. PICK u \in Nat, v \in Nat, x \in Nat : u = Until(seq, i) /\ v = Until(seq, i + 1) /\ x = seq[i + 1]
  BY <1>2, <1>4, UntilGrows
<1>6. PICK t \in Nat : t = Until(seq, l) /\ v <= t
  <2>1. Until(seq, l) \in Nat
    BY <1>2, <1>4, UntilGrows
  <2>2. i + 1 = l \/ i + 1 < l
    BY <1>3
  <2>3. i + 1 < l => Until(seq, i + 1) < Until(seq, l)
    BY <1>2, <1>4, UntilGrows
  <2> QED BY <1>5, <2>1, <2>2, <2>3
<1>7. v = u + Lasts(x)
  BY <1>5, UntilNext
<1>8. u <= n /\ n < v /\ c + (n - u) = x
  BY <1>1, <1>2, <1>3, <1>5 DEF SpecialAt
<1>9. Length(seq) = t
  BY <1>2, <1>6 DEF Length
<1>10. ASSUME n + 1 < t PROVE Older(w, n) = n + 1
  <2>1. CASE w.plan.over_cb = "again"
    <3>1. Older(w, n) = (n + 1) % t
      BY <1>2, <1>9, <2>1, WishIs
    <3>2. n + 1 \in Nat
      OBVIOUS
    <3> QED BY <1>10, <3>1, <3>2, ModFacts
  <2>2. CASE w.plan.over_cb # "again"
    <3>1. Older(w, n) = IF n > t THEN n ELSE n + 1
      BY <1>2, <1>9, <2>2, WishIs
    <3>2. ~(n > t)
      BY <1>10
    <3> QED BY <3>1, <3>2
  <2> QED BY <2>1, <2>2
<1>11. PICK e : e = After(d)
  OBVIOUS
<1>12. e = PlayedSlot(d)
  BY <1>11 DEF After
<1>13. LitAfter(d) <=> PlayedLit(d)
  BY DEF LitAfter
<1>14. Elapsed(d) <=> c - 1 <= 0
  BY <1>3 DEF Elapsed
\* Where the slot is, and that the LED is lit in the odd times.
<1>15. ASSUME NEW j \in 0 .. l - 1, e.mode = "SPECIAL", e.plan = w.plan, e.idx = j, e.cnt + ((n + 1) - Until(seq, j)) = seq[j + 1],
              Until(seq, j) <= n + 1, n + 1 < Until(seq, j + 1), LitAfter(d) <=> j % 2 = 0
       PROVE  Follows(e, w, Older(w, n)) /\ (LitAfter(d) <=> ShouldBeLit(w, Older(w, n)))
  <2>1. n + 1 \in Nat /\ j \in 0 .. l /\ j + 1 \in 0 .. l /\ (j + 1 = l \/ j + 1 < l) /\ j < l
    BY <1>2
  <2>2. Until(seq, j + 1) <= t
    <3>1. Until(seq, j + 1) \in Nat
      BY <1>2, <2>1, UntilGrows
    <3>2. j + 1 < l => Until(seq, j + 1) < Until(seq, l)
      BY <1>2, <1>4, <2>1, UntilGrows
    <3> QED BY <1>6, <2>1, <3>1, <3>2
  <2>3. n + 1 < t
    <3>1. Until(seq, j + 1) \in Nat
      BY <1>2, <2>1, UntilGrows
    <3> QED BY <1>15, <2>2, <3>1
  <2>4. Older(w, n) = n + 1
    BY <1>10, <2>3
  <2>5. Plays(seq, n + 1) <=> j % 2 = 0
    <3>1. j \in 0 .. Len(seq) - 1
      BY <1>2
    <3> QED BY <1>15, <2>1, <3>1, PlaysIs
  <2>6. ShouldBeLit(w, n + 1) <=> j % 2 = 0
    <3>1. ~(n + 1 = Length(seq))
      BY <1>9, <2>3
    <3>2. ShouldBeLit(w, n + 1) <=>
            Plays(seq, n + 1) \/ (n + 1 = Length(seq) /\ w.plan.over_cb = "null" /\ Len(seq) % 2 = 0)
      BY <1>2, <2>1, WishIs
    <3> QED BY <2>5, <3>1, <3>2
  <2>7. SpecialAt(e, seq, n + 1)
    BY <1>2, <1>15, <2>1 DEF SpecialAt
  <2>8. Follows(e, w, n + 1)
    BY <1>2, <1>15, <2>7 DEF Follows
  <2> QED BY <1>15, <2>4, <2>6, <2>8
<1>16. CASE ~Elapsed(d)
  <2>1. e = [d EXCEPT !.cnt = c - 1] /\ c >= 2
    BY <1>3, <1>12, <1>14, <1>16 DEF PlayedSlot
  <2>2. e.mode = "SPECIAL" /\ e.plan = w.plan /\ e.idx = i /\ e.cnt = c - 1
    BY <1>1, <1>3, <2>1 DEF Slot
  <2>3. PlayedLit(d) <=> i % 2 = 0
    BY <1>3, <1>16 DEF PlayedLit
  <2>4. x >= 2 /\ Lasts(x) = x
    BY <1>8, <2>1 DEF Lasts
  <2>5. (c - 1) + ((n + 1) - u) = x /\ u <= n + 1 /\ n + 1 < v
    BY <1>7, <1>8, <2>1, <2>4
  <2> QED BY <1>4, <1>5, <1>11, <1>13, <1>15, <2>2, <2>3, <2>5
<1>17. CASE Elapsed(d)
  <2>1. NextIdx(d) = i + 1
    <3>1. i + 1 \in Nat /\ i + 1 < 256
      BY <1>2, <1>3
    <3>2. (i + 1) % 256 = i + 1
      BY <3>1
    <3> QED BY <1>3, <3>2 DEF NextIdx, U8
  <2>2. i + 1 < l
    <3>1. d.plan.datas = seq
      BY <1>1, <1>2
    <3>2. ~(NextIdx(d) >= l)
      BY <1>2, <1>17, <3>1 DEF Over, NextIdx
    <3> QED BY <1>2, <1>3, <2>1, <3>2
  <2>3. i + 1 \in 0 .. l - 1 /\ i + 2 \in 1 .. l /\ (i + 1) + 1 = i + 2 /\ i + 2 \in 0 .. l /\ i + 1 < i + 2
    <3>1. i \in Nat /\ l \in Nat /\ i + 1 < l
      BY <1>2, <1>3, <2>2
    <3> QED BY <3>1
  <2>4. e = [d EXCEPT !.idx = i + 1, !.cnt = seq[i + 2]]
    BY <1>1, <1>2, <1>12, <1>17, <2>1, <2>3 DEF PlayedSlot
  <2>5. e.mode = "SPECIAL" /\ e.plan = w.plan /\ e.idx = i + 1 /\ e.cnt = seq[i + 2]
    BY <1>1, <2>4 DEF Slot
  <2>6. PlayedLit(d) <=> (i + 1) % 2 = 0
    BY <1>17, <2>1 DEF PlayedLit
  <2>7. n + 1 = v
    <3>1. c <= 1
      BY <1>14, <1>17
    <3>2. (x = 0 => Lasts(x) = 1) /\ (x # 0 => Lasts(x) = x)
      BY DEF Lasts
    <3> QED BY <1>7, <1>8, <3>1, <3>2
  <2>8. v < Until(seq, i + 2)
    BY <1>2, <1>4, <1>5, <2>3, UntilGrows
  <2>9. seq[i + 2] \in Nat
    BY <1>2, <2>3
  <2>10. seq[i + 2] + (v - v) = seq[i + 2] /\ v <= v
    BY <2>9
  <2> QED BY <1>5, <1>11, <1>13, <1>15, <2>3, <2>5, <2>6, <2>7, <2>8, <2>10
<1> QED BY <1>16, <1>17

\* The end of a sequence that is not removed: it is started again, or the LED
\* goes out, in some cases one pass later.
LEMMA SpecialEnds ==
  ASSUME NEW d \in Slot, SlotFits(d), d.pin # None, d.mode = "SPECIAL",
         NEW w, WishOK(w), w.mode = "SPECIAL", NEW n \in Nat, Follows(d, w, n), Over(d),
         w.plan.over_cb # "remove"
  PROVE  Follows(After(d), w, Older(w, n)) /\ (LitAfter(d) <=> ShouldBeLit(w, Older(w, n)))
<1>1. d.plan = w.plan /\ SpecialAt(d, w.plan.datas, n) /\ w.plan \in SpecialPlans
  BY DEF Follows, WishOK, PlanFits
<1>2. PICK seq \in Seq(Nat), l \in Nat : /\ seq = w.plan.datas /\ l = Len(seq) /\ l >= 1 /\ l <= 255
                                         /\ \A k \in 1 .. l : seq[k] \in Nat
  BY <1>1, PlanFacts
<1>3. w.plan.over_cb \in {"null", "again"}
  BY <1>1, PlanFacts DEF Callbacks
<1>4. PICK i \in Nat, c \in Nat : i = d.idx /\ c = d.cnt /\ i < l
  BY <1>1, <1>2, PlanFacts DEF SpecialAt
<1>5. NextIdx(d) = i + 1
  <2>1. i + 1 \in Nat /\ i + 1 < 256
    BY <1>2, <1>4
  <2>2. (i + 1) % 256 = i + 1
    BY <2>1
  <2> QED BY <1>4, <2>2 DEF NextIdx, U8
<1>6. i + 1 = l /\ c <= 1 /\ Elapsed(d)
  <2>1. d.plan.datas = seq
    BY <1>1, <1>2
  <2>2. NextIdx(d) >= l /\ Elapsed(d)
    BY <1>2, <2>1 DEF Over, NextIdx
  <2>3. c <= 1
    BY <1>4, <2>2 DEF Elapsed
  <2>4. i + 1 >= l
    BY <1>5, <2>2
  <2>5. i + 1 = l
    BY <1>2, <1>4, <2>4
  <2> QED BY <2>2, <2>3, <2>5
<1>7. i \in 0 .. l /\ i + 1 \in 0 .. l /\ l \in 0 .. l /\ i + 1 \in 1 .. l
  BY <1>2, <1>4
<1>8. PICK u \in Nat, t \in Nat, x \in Nat : u = Until(seq, i) /\ t = Until(seq, i + 1) /\ x = seq[i + 1]
  BY <1>2, <1>7, UntilGrows
<1>9. t = u + Lasts(x) /\ Length(seq) = t
  BY <1>2, <1>6, <1>8, UntilNext DEF Length
<1>10. n + 1 = t
  <2>1. u <= n /\ n < t /\ c + (n - u) = x
    BY <1>1, <1>2, <1>4, <1>8 DEF SpecialAt
  <2>2. (x = 0 => Lasts(x) = 1) /\ (x # 0 => Lasts(x) = x)
    BY DEF Lasts
  <2> QED BY <1>6, <1>9, <2>1, <2>2
<1>11. CASE w.plan.over_cb = "again"
  <2>1. Older(w, n) = 0
    <3>1. Older(w, n) = (n + 1) % t
      BY <1>2, <1>9, <1>11, WishIs
    <3>2. t >= 1
      BY <1>10
    <3> QED BY <1>10, <3>1, <3>2, ModFacts
  <2>2. PICK v : v = Wish("SPECIAL", d.plan)
    OBVIOUS
  <2>3. v = w
    BY <1>1, <2>2 DEF Wish, WishOK, Wishes
  <2>4. PlayedSlot(d) \in Slot
    BY <1>1, <1>6, PlayedFits
  <2>5. After(d) = Started(PlayedSlot(d), w)
    BY <1>1, <1>11, <2>2, <2>3 DEF After
  <2>6. LitAfter(d)
    BY <1>1, <1>11 DEF LitAfter
  <2>7. Follows(Started(PlayedSlot(d), w), w, 0) /\ ShouldBeLit(w, 0)
    BY <2>4, StartedFollows
  <2> QED BY <2>1, <2>5, <2>6, <2>7
<1>12. CASE w.plan.over_cb = "null"
  <2>1. Older(w, n) = t
    <3>1. Older(w, n) = IF n > t THEN n ELSE n + 1
      BY <1>2, <1>9, <1>12, WishIs
    <3>2. ~(n > t)
      BY <1>10
    <3> QED BY <1>10, <3>1, <3>2
  <2>2. PICK e : e = After(d)
    OBVIOUS
  <2>3. e = Stopped(d)
    <3>1. e = PlayedSlot(d)
      BY <1>1, <1>12, <2>2 DEF After
    <3> QED BY <1>6, <3>1 DEF PlayedSlot
  <2>4. e.mode = "OFF"
    BY <2>3 DEF Stopped, Still, Slot
  <2>5. t >= t
    OBVIOUS
  <2>6. Follows(e, w, t)
    BY <1>2, <1>9, <1>12, <2>4, <2>5 DEF Follows
  <2>7. LitAfter(d) <=> l % 2 = 0
    <3>1. LitAfter(d) <=> PlayedLit(d)
      BY <1>1, <1>12 DEF LitAfter
    <3>2. PlayedLit(d) <=> l % 2 = 0
      BY <1>1, <1>5, <1>6, <1>12 DEF PlayedLit
    <3> QED BY <3>1, <3>2
  <2>8. ~Plays(seq, t)
    <3>1. t >= Until(seq, Len(seq))
      BY <1>2, <1>6, <1>8, <2>5
    <3> QED BY <3>1, PlaysIs
  <2>9. ShouldBeLit(w, t) <=> l % 2 = 0
    <3>1. ShouldBeLit(w, t) <=>
            Plays(seq, t) \/ (t = Length(seq) /\ w.plan.over_cb = "null" /\ Len(seq) % 2 = 0)
      BY <1>2, WishIs
    <3> QED BY <1>2, <1>9, <1>12, <2>8, <3>1
  <2> QED BY <2>1, <2>2, <2>6, <2>7, <2>9
<1> QED BY <1>3, <1>11, <1>12

\* A sequence that has ended.
LEMMA SpecialEnded ==
  ASSUME NEW d \in Slot, d.mode # "SPECIAL",
         NEW w, WishOK(w), w.mode = "SPECIAL", NEW n \in Nat, Follows(d, w, n)
  PROVE  Follows(After(d), w, Older(w, n)) /\ (LitAfter(d) <=> ShouldBeLit(w, Older(w, n)))
<1>1. d.mode = "OFF" /\ w.plan.over_cb = "null" /\ n >= Length(w.plan.datas) /\ w.plan \in SpecialPlans
  BY DEF Follows, WishOK, PlanFits
<1>2. PICK seq \in Seq(Nat), l \in Nat : seq = w.plan.datas /\ l = Len(seq)
  BY <1>1, PlanFacts
<1>3. PICK t \in Nat : t = Until(seq, l) /\ Length(seq) = t
  <2>1. l \in 0 .. Len(seq)
    BY <1>2
  <2> QED BY <1>2, <2>1, UntilGrows DEF Length
<1>4. After(d) = d /\ ~LitAfter(d)
  BY <1>1 DEF After, LitAfter
<1>5. PICK m \in Nat : m = Older(w, n) /\ m > t
  <2>1. Older(w, n) = IF n > t THEN n ELSE n + 1
    BY <1>1, <1>2, <1>3, WishIs
  <2>2. n >= t
    BY <1>1, <1>2, <1>3
  <2> QED BY <2>1, <2>2
<1>6. Follows(d, w, m)
  <2>1. m >= t
    BY <1>5
  <2> QED BY <1>1, <1>2, <1>3, <2>1 DEF Follows
<1>7. ~ShouldBeLit(w, m)
  <2>1. m >= Until(seq, Len(seq)) /\ ~(m = t)
    BY <1>2, <1>3, <1>5
  <2>2. ~Plays(seq, m)
    BY <2>1, PlaysIs
  <2>3. ShouldBeLit(w, m) <=>
          Plays(seq, m) \/ (m = Length(seq) /\ w.plan.over_cb = "null" /\ Len(seq) % 2 = 0)
    BY <1>2, WishIs
  <2> QED BY <1>3, <2>1, <2>2, <2>3
<1> QED BY <1>4, <1>5, <1>6, <1>7

\* A slot that does not lose its pin goes on to show what was asked for.
LEMMA FollowsNext ==
  ASSUME NEW d \in Slot, SlotFits(d), d.pin # None, NEW w, WishOK(w), NEW n \in Nat, Follows(d, w, n),
         After(d).pin # None
  PROVE  /\ Follows(After(d), w, Older(w, n))
         /\ w.mode \notin {"added", "removed"} => (LitAfter(d) <=> ShouldBeLit(w, Older(w, n)))
<1>1. w.mode \in {"OFF", "ON", "BLINK", "SPECIAL", "added", "removed"}
  BY DEF WishOK, Wishes, Modes
<1>2. CASE w.mode \in {"added", "removed"}
  BY <1>2 DEF Follows
<1>3. CASE w.mode \in {"OFF", "ON"}
  <2>1. d.mode = w.mode
    BY <1>3 DEF Follows
  <2>2. After(d) = d /\ (LitAfter(d) <=> w.mode = "ON")
    BY <1>3, <2>1 DEF After, LitAfter
  <2>3. Older(w, n) \in Nat
    BY OlderIs DEF WishOK
  <2>4. ShouldBeLit(w, Older(w, n)) <=> w.mode = "ON"
    BY <1>3, <2>3, WishIs
  <2>5. Follows(d, w, Older(w, n))
    BY <1>3, <2>1 DEF Follows
  <2> QED BY <2>2, <2>4, <2>5
<1>4. CASE w.mode = "BLINK"
  BY <1>4, BlinkNext
<1>5. CASE w.mode = "SPECIAL"
  <2>1. CASE d.mode # "SPECIAL"
    BY <1>5, <2>1, SpecialEnded
  <2>2. CASE d.mode = "SPECIAL" /\ ~Over(d)
    BY <1>5, <2>2, SpecialNext
  <2>3. CASE d.mode = "SPECIAL" /\ Over(d)
    <3>1. d.plan = w.plan /\ w.plan \in SpecialPlans
      BY <1>5, <2>3 DEF Follows, WishOK, PlanFits
    <3>2. ASSUME w.plan.over_cb = "remove" PROVE FALSE
      <4>1. After(d) = [PlayedSlot(d) EXCEPT !.pin = None]
        BY <2>3, <3>1, <3>2 DEF After
      <4>2. Elapsed(d)
        BY <2>3 DEF Over
      <4>3. PlayedSlot(d) \in Slot
        BY <2>3, <3>1, <4>2, PlayedFits
      <4>4. After(d).pin = None
        BY <4>1, <4>3 DEF Slot
      <4> QED BY <4>4
    <3> QED BY <1>5, <2>3, <3>2, SpecialEnds
  <2> QED BY <2>1, <2>2, <2>3
<1> QED BY <1>1, <1>2, <1>3, <1>4, <1>5

-----------------------------------------------------------------------------
(* The LEDs in step with what was asked for, with one thread that calls.   *)

\* The only call makes its pin busy, and no other.
LEMMA BusyIs ==
  ASSUME Alone, NEW c \in Clients
  PROVE  /\ \A p \in Pins : Busy(p) <=> call[c] # NoCall /\ call[c].pin = p
         /\ \A p \in Pins : Busy(p)' <=> call'[c] # NoCall /\ call'[c].pin = p
BY DEF Alone, Busy

\* A free pin has no slot or one.
LEMMA GoodOne ==
  ASSUME InStep, NEW p \in Pins, ~Busy(p)
  PROVE  /\ asked[p].mode = "removed" => Having(State, p) = {} /\ ~port[p].out
         /\ asked[p].mode # "removed" =>
              \E i \in Slots : Having(State, p) = {i} /\ datas[i].level = Wired[p] /\ port[p].out
<1>1. None \notin Pins
  BY QledAssumption
<1>2. Good(p) /\ Distinct(datas) /\ Levels
  BY DEF InStep
<1>3. ASSUME asked[p].mode = "removed" PROVE Having(State, p) = {} /\ ~port[p].out
  BY <1>2, <1>3, StateIs DEF Good, NoSlot, Having
<1>4. ASSUME asked[p].mode # "removed"
      PROVE  \E i \in Slots : Having(State, p) = {i} /\ datas[i].level = Wired[p] /\ port[p].out
  <2>1. PICK i \in Slots : Holds(i, p) /\ port[p].out
    BY <1>2, <1>4 DEF Good
  <2>2. \A j \in Slots : datas[j].pin = p <=> j = i
    BY <1>1, <1>2, <2>1 DEF Holds, Distinct
  <2>3. Having(State, p) = {i}
    BY <2>2, StateIs DEF Having
  <2>4. datas[i].level = Wired[p]
    BY <1>1, <1>2, <2>1 DEF Levels, Holds
  <2> QED BY <2>1, <2>3, <2>4
<1> QED BY <1>3, <1>4

\* The properties follow.
LEMMA InStepShows ==
  ASSUME InStep
  PROVE  TableOK /\ ShowsWhatWasAsked
<1>1. TableOK
  BY GoodOne DEF TableOK
<1>2. ShowsWhatWasAsked
  BY DEF InStep, Good, ShowsWhatWasAsked
<1> QED BY <1>1, <1>2

\* A step that touches one slot and one pin leaves the others as they were.
LEMMA OthersKeep ==
  ASSUME InStep, NEW p \in Pins, NEW i \in Slots,
         datas[i].pin \in {p, None}, datas'[i].pin \in {p, None},
         \A j \in Slots : j # i => datas'[j] = datas[j] /\ datas[j].pin # p,
         \A q \in Pins : q # p => /\ port'[q] = port[q] /\ asked'[q] = asked[q] /\ age'[q] = age[q]
                                  /\ ~Busy(q) /\ ~Busy(q)',
         datas'[i].pin # None => datas'[i].level = Wired[p],
         Removing(datas'[i]) => datas'[i].pin # None /\ ~Busy(p)',
         Types
  PROVE  Distinct(datas') /\ Levels' /\ Removals' /\ \A q \in Pins : q # p => Good(q)'
<1>1. None \notin Pins /\ \A j \in Slots : datas[j].pin \in Pins \cup {None}
  BY StateIs, PlanFacts, QledAssumption
<1>2. Distinct(datas')
  BY DEF InStep, Distinct
<1>3. Levels'
  BY DEF InStep, Levels
<1>4. Removals'
  <2>1. ASSUME NEW j \in Slots, Removing(datas'[j])
        PROVE  datas'[j].pin # None /\ \A q \in Pins : Busy(q)' => datas'[j].pin # q
    <3>1. CASE j = i
      BY <2>1, <3>1
    <3>2. CASE j # i
      <4>1. datas'[j] = datas[j] /\ datas[j].pin # p
        BY <3>2
      <4>2. datas[j].pin # None
        BY <2>1, <4>1 DEF InStep, Removals
      <4>3. \A q \in Pins : Busy(q)' => q = p
        OBVIOUS
      <4> QED BY <4>1, <4>2, <4>3
    <3> QED BY <3>1, <3>2
  <2> QED BY <2>1 DEF Removals
<1>5. ASSUME NEW q \in Pins, q # p PROVE Good(q)'
  <2>1. Good(q) /\ port'[q] = port[q] /\ asked'[q] = asked[q] /\ age'[q] = age[q]
    BY <1>5 DEF InStep
  <2>2. \A j \in Slots : datas[j].pin = q => j # i /\ datas'[j] = datas[j]
    BY <1>1, <1>5
  <2>3. \A j \in Slots : datas'[j].pin = q => j # i /\ datas'[j] = datas[j]
    BY <1>1, <1>5
  <2>4. (\A j \in Slots : Holds(j, q)' <=> Holds(j, q)) /\ (NoSlot(q)' <=> NoSlot(q)) /\ (Lit(q)' <=> Lit(q))
    BY <2>1, <2>2, <2>3 DEF Holds, NoSlot, Lit
  <2>5. \A j \in Slots : Holds(j, q)' => datas'[j] = datas[j]
    BY <2>3 DEF Holds
  <2>6. IF asked'[q].mode = "removed" THEN NoSlot(q)' /\ ~port'[q].out
        ELSE (\E j \in Slots : Holds(j, q)') /\ port'[q].out
    BY <2>1, <2>4 DEF Good
  <2>7. \A j \in Slots : Holds(j, q)' => Follows(datas'[j], asked'[q], age'[q])
    <3>1. \A j \in Slots : Holds(j, q) => Follows(datas[j], asked[q], age[q])
      BY <2>1 DEF Good
    <3> QED BY <2>1, <2>4, <2>5, <3>1
  <2>8. asked'[q].mode # "added" => (Lit(q)' <=> ShouldBeLit(asked'[q], age'[q]))
    <3>1. asked[q].mode # "added" => (Lit(q) <=> ShouldBeLit(asked[q], age[q]))
      BY <2>1 DEF Good
    <3> QED BY <2>1, <2>4, <3>1
  <2> QED BY <2>6, <2>7, <2>8 DEF Good
<1> QED BY <1>2, <1>3, <1>4, <1>5

\* The slot of the call is the only one its pin has, or is free.
LEMMA CallSlot ==
  ASSUME Alone, Types, InStep, NEW c \in Clients, NEW k \in Calls, k = call[c], k # NoCall,
         NEW p \in Pins, NEW i \in Slots, p = k.pin, i = k.idx
  PROVE  /\ datas[i].pin \in {p, None} /\ ~Removing(datas[i])
         /\ \A j \in Slots : j # i => datas[j].pin # p
         /\ \A q \in Pins : q # p => ~Busy(q)
         /\ CallFits(p, i, k.at, k.wish.mode)
<1>1. CallFits(p, i, k.at, k.wish.mode) /\ Distinct(datas) /\ Removals
  BY DEF InStep, CallsFit
<1>2. k.at \in Points
  BY DEF Calls
<1>3. Free(i, p) \/ Holds(i, p)
  BY <1>1, <1>2 DEF CallFits, Points
<1>4. None \notin Pins
  BY QledAssumption
<1>5. datas[i].pin \in {p, None} /\ \A j \in Slots : j # i => datas[j].pin # p
  BY <1>1, <1>3, <1>4 DEF Free, Holds, NoSlot, Distinct
<1>6. \A q \in Pins : Busy(q) <=> q = p
  BY BusyIs
<1>7. ~Removing(datas[i])
  BY <1>1, <1>5, <1>6 DEF Removals
<1> QED BY <1>1, <1>5, <1>6, <1>7

\* A step of the call that does not return.
LEMMA GoesOnStep ==
  ASSUME Alone, Types, InStep, NEW c \in Clients, NEW k \in Calls, k = call[c], k # NoCall,
         NEW p \in Pins, NEW i \in Slots, p = k.pin, i = k.idx,
         NEW at \in Points, GoesOn(c, at), NEW m, m = [k EXCEPT !.at = at], m # NoCall,
         \A j \in Slots : j # i => datas'[j] = datas[j],
         \A q \in Pins : q # p => port'[q] = port[q],
         datas'[i].pin \in {p, None}, datas'[i].pin # None => datas'[i].level = Wired[p],
         ~Removing(datas'[i]), CallFits(p, i, at, k.wish.mode)'
  PROVE  InStep'
<1>1. /\ datas[i].pin \in {p, None} /\ \A j \in Slots : j # i => datas[j].pin # p
      /\ \A q \in Pins : q # p => ~Busy(q)
  BY CallSlot
<1>2. m.at = at /\ m.pin = p /\ m.idx = i /\ m.wish = k.wish
  BY DEF Calls
<1>3. call' = [call EXCEPT ![c] = m]
  BY DEF GoesOn
<1>4. call'[c] = m
  BY <1>3 DEF Types
<1>5. \A q \in Pins : Busy(q)' <=> q = p
  <2>1. \A q \in Pins : Busy(q)' <=> call'[c] # NoCall /\ call'[c].pin = q
    BY BusyIs
  <2> QED BY <1>2, <1>4, <2>1
<1>6. asked' = asked /\ age' = age
  BY DEF GoesOn
<1>7. Distinct(datas') /\ Levels' /\ Removals' /\ \A q \in Pins : q # p => Good(q)'
  BY <1>1, <1>5, <1>6, OthersKeep
<1>8. CallsFit'
  <2>1. \A d \in Clients : d = c
    BY DEF Alone
  <2>2. CallFits(m.pin, m.idx, m.at, m.wish.mode)'
    BY <1>2 DEF CallFits, Free, NoSlot, Holds
  <2> QED BY <1>4, <2>1, <2>2 DEF CallsFit
<1>9. \A q \in Pins : ~Busy(q)' => Good(q)'
  BY <1>5, <1>7
<1> QED BY <1>7, <1>8, <1>9 DEF InStep

\* The last step of the call.
LEMMA ReturnsStep ==
  ASSUME Alone, Types, InStep, NEW c \in Clients, NEW k \in Calls, k = call[c], k # NoCall,
         NEW p \in Pins, NEW i \in Slots, p = k.pin, i = k.idx, Returns(c),
         \A j \in Slots : j # i => datas'[j] = datas[j],
         \A q \in Pins : q # p => port'[q] = port[q],
         datas'[i].pin \in {p, None}, datas'[i].pin # None => datas'[i].level = Wired[p],
         Removing(datas'[i]) => datas'[i].pin # None, Good(p)'
  PROVE  InStep'
<1>1. /\ datas[i].pin \in {p, None} /\ \A j \in Slots : j # i => datas[j].pin # p
      /\ \A q \in Pins : q # p => ~Busy(q)
  BY CallSlot
<1>2. call' = [call EXCEPT ![c] = NoCall]
  BY DEF Returns
<1>3. call'[c] = NoCall
  BY <1>2 DEF Types
<1>4. \A q \in Pins : ~Busy(q)'
  BY <1>3, BusyIs
<1>5. \A q \in Pins : q # p => asked'[q] = asked[q] /\ age'[q] = age[q]
  BY DEF Returns, Types
<1>6. Distinct(datas') /\ Levels' /\ Removals' /\ \A q \in Pins : q # p => Good(q)'
  BY <1>1, <1>4, <1>5, OthersKeep
<1>7. CallsFit'
  <2>1. \A d \in Clients : d = c
    BY DEF Alone
  <2> QED BY <1>3, <2>1 DEF CallsFit
<1>8. \A q \in Pins : ~Busy(q)' => Good(q)'
  BY <1>6
<1> QED BY <1>6, <1>7, <1>8 DEF InStep

\* The first step of the call, which changes nothing else.
LEMMA BeginStep ==
  ASSUME Alone, Types, InStep, NEW c \in Clients, NEW p \in Pins, NEW w, NEW slots, NEW at \in Points,
         Begin(c, p, w, slots, at), CallFits(p, First(slots), at, w.mode)
  PROVE  InStep'
<1>1. call[c] = NoCall /\ Touchable(p) /\ datas' = datas /\ port' = port /\ asked' = asked /\ age' = age
  BY DEF Begin
<1>2. PICK m : m = [at |-> at, pin |-> p, idx |-> First(slots), wish |-> w]
  OBVIOUS
<1>3. m.at = at /\ m.pin = p /\ m.idx = First(slots) /\ m.wish = w
  BY <1>2
<1>4. m # NoCall
  <2>1. NoCall.at = "none" /\ at # "none"
    BY DEF NoCall, Points
  <2> QED BY <1>3, <2>1
<1>5. call'[c] = m
  <2>1. call' = [call EXCEPT ![c] = m]
    BY <1>2 DEF Begin
  <2> QED BY <2>1 DEF Types
<1>6. \A q \in Pins : ~Busy(q) /\ (Busy(q)' <=> q = p)
  BY <1>1, <1>3, <1>4, <1>5, BusyIs
<1>7. \A j \in Slots : datas[j].pin = p => ~Removing(datas[j])
  <2>1. Careful
    BY DEF Alone
  <2>2. {j \in Having(State, p) : datas[j].mode = "SPECIAL" /\ datas[j].plan.over_cb = "remove"} = {}
    BY <1>1, <2>1 DEF Touchable
  <2> QED BY <2>2, StateIs DEF Having, Removing
<1>8. Distinct(datas') /\ Levels'
  BY <1>1 DEF InStep, Distinct, Levels
<1>9. Removals'
  BY <1>1, <1>6, <1>7 DEF InStep, Removals
<1>10. CallsFit'
  <2>1. \A d \in Clients : d = c
    BY DEF Alone
  <2>2. CallFits(m.pin, m.idx, m.at, m.wish.mode)'
    <3>1. CallFits(m.pin, m.idx, m.at, m.wish.mode)
      BY <1>3
    <3>2. CallFits(m.pin, m.idx, m.at, m.wish.mode)' <=> CallFits(m.pin, m.idx, m.at, m.wish.mode)
      BY <1>1 DEF CallFits, Free, NoSlot, Holds
    <3> QED BY <3>1, <3>2
  <2> QED BY <1>5, <2>1, <2>2 DEF CallsFit
<1>11. ASSUME NEW q \in Pins PROVE Good(q)'
  <2>1. Good(q)
    BY <1>6 DEF InStep
  <2>2. Good(q)' <=> Good(q)
    BY <1>1 DEF Good, NoSlot, Holds, Lit
  <2> QED BY <2>1, <2>2
<1> QED BY <1>8, <1>9, <1>10, <1>11 DEF InStep

\* qled_add, qled_remove, qled_set_off and qled_set_on, step by step.
LEMMA CallSteps ==
  ASSUME Alone, Types, InStep, NEW c \in Clients,
         AddInit(c) \/ AddOff(c) \/ AddStore(c) \/ RemoveDeinit(c) \/ RemoveClear(c) \/ SetMode(c) \/ SetSwitch(c)
  PROVE  InStep'
<1>1. Typed(State) /\ datas \in [Slots -> Slot] /\ port \in [Pins -> Port] /\ State.datas = datas /\ State.port = port
  BY StateIs DEF Types
<1>2. PICK on \in BOOLEAN, no \in BOOLEAN : on = TRUE /\ no = FALSE
  OBVIOUS
<1>3. {"add_init", "add_off", "add_store", "remove_deinit", "remove_clear", "set_mode", "set_switch", "set_run"} = Points
  BY DEF Points
<1>4. PICK k \in Calls, p \in Pins, i \in Slots : k = call[c] /\ p = k.pin /\ i = k.idx /\ k # NoCall /\ CallOK(k)
  <2>1. call[c] # NoCall
    BY DEF AddInit, AddOff, AddStore, RemoveDeinit, RemoveClear, SetMode, SetSwitch, Calling
  <2>2. Calling(c, call[c].at)
    BY <2>1 DEF Calling
  <2>3. call[c] \in Calls /\ call[c].pin \in Pins /\ call[c].idx \in Slots /\ CallOK(call[c])
    BY <2>2, CallFacts
  <2> QED BY <2>1, <2>3
<1>5. /\ datas[i].pin \in {p, None} /\ ~Removing(datas[i])
      /\ \A j \in Slots : j # i => datas[j].pin # p
      /\ CallFits(p, i, k.at, k.wish.mode)
  BY <1>4, CallSlot
<1>6. None \notin Pins /\ \A j \in Slots : datas[j].pin # None => datas[j].level = Wired[datas[j].pin]
  BY QledAssumption DEF InStep, Levels
<1>7. datas[i].pin # None => datas[i].level = Wired[p]
  BY <1>5, <1>6
<1>8. PICK e \in Slot : e = datas[i]
  BY <1>1
<1>9. p \in Pins /\ Wired[p] \in BOOLEAN
  BY QledAssumption
\* The steps that leave the table alone and write the pin.
<1>10. ASSUME NEW t, Typed(t), Becomes(t), t.datas = datas, \A q \in Pins : q # p => t.port[q] = port[q]
       PROVE  /\ datas' = datas /\ port'[p] = t.port[p] /\ \A q \in Pins : q # p => port'[q] = port[q]
              /\ (\A j \in Slots : Holds(j, p)' <=> Holds(j, p)) /\ (Free(i, p)' <=> Free(i, p))
  BY <1>10 DEF Becomes, Holds, Free, NoSlot
<1>11. CASE AddInit(c)
  <2>1. k.at = "add_init" /\ GoesOn(c, "add_off")
    BY <1>4, <1>11 DEF AddInit, Calling
  <2>2. PICK s : s = PinMode(State, p, on)
    OBVIOUS
  <2>3. Typed(s) /\ s.datas = datas /\ s.port[p].out = on /\ \A q \in Pins : q # p => s.port[q] = port[q]
    <3>1. /\ Typed(s) /\ s.datas = State.datas /\ s.port[p].out = on
          /\ \A q \in Pins : q # p => s.port[q] = State.port[q]
      <4>1. PICK s0 : s0 = State /\ Typed(s0) /\ s0.datas = State.datas /\ s0.port = State.port
        BY <1>1
      <4>2. s = PinMode(s0, p, on)
        BY <2>2, <4>1
      <4> QED BY <4>1, <4>2, PinModeIs
    <3> QED BY <1>1, <3>1
  <2>4. PICK t : t = Write(s, p, no)
    OBVIOUS
  <2>5. Typed(t) /\ t.datas = datas /\ t.port[p].out = on /\ \A q \in Pins : q # p => t.port[q] = port[q]
    <3>1. Typed(t) /\ Written(s, t, p, no)
      BY <2>3, <2>4, WriteIs
    <3> QED BY <2>3, <3>1 DEF Written
  <2>6. Becomes(t)
    BY <1>2, <1>4, <1>11, <2>2, <2>4 DEF AddInit
  <2>7. /\ datas' = datas /\ port'[p] = t.port[p] /\ \A q \in Pins : q # p => port'[q] = port[q]
        /\ (Holds(i, p)' <=> Holds(i, p)) /\ (Free(i, p)' <=> Free(i, p))
    BY <1>10, <2>5, <2>6
  <2>8. CallFits(p, i, "add_off", k.wish.mode)'
    <3>1. port'[p].out
      BY <1>2, <2>5, <2>7
    <3>2. Free(i, p) \/ Holds(i, p)
      BY <1>5, <2>1 DEF CallFits
    <3> QED BY <2>7, <3>1, <3>2 DEF CallFits
  <2>9. PICK m : m = [k EXCEPT !.at = "add_off"] /\ m # NoCall
    <3>1. [k EXCEPT !.at = "add_off"] # NoCall
      BY <1>3, <1>4, <2>1, GoesOnOK
    <3> QED BY <3>1
  <2>10. "add_off" \in Points
    BY <1>3
  <2> QED BY <1>4, <1>5, <1>7, <2>1, <2>7, <2>8, <2>9, <2>10, GoesOnStep
<1>12. CASE AddOff(c)
  <2>1. k.at = "add_off" /\ GoesOn(c, "add_store")
    BY <1>4, <1>12 DEF AddOff, Calling
  <2>2. PICK high \in BOOLEAN : high = ~Wired[p]
    OBVIOUS
  <2>3. PICK t : t = Write(State, p, high)
    OBVIOUS
  <2>4. Typed(t) /\ t.datas = datas /\ t.port[p].out = port[p].out /\ \A q \in Pins : q # p => t.port[q] = port[q]
    <3>1. PICK s : s = State /\ Typed(s) /\ s.datas = datas /\ s.port = port
      BY <1>1
    <3>2. t = Write(s, p, high)
      BY <2>3, <3>1
    <3>3. Typed(s)
      BY <3>1
    <3>4. Typed(t) /\ Written(s, t, p, high)
      BY <3>2, <3>3, WriteIs
    <3> QED BY <3>1, <3>4 DEF Written
  <2>5. Becomes(t)
    BY <1>4, <1>12, <2>2, <2>3 DEF AddOff
  <2>6. /\ datas' = datas /\ port'[p] = t.port[p] /\ \A q \in Pins : q # p => port'[q] = port[q]
        /\ (Holds(i, p)' <=> Holds(i, p)) /\ (Free(i, p)' <=> Free(i, p))
    BY <1>10, <2>4, <2>5
  <2>7. CallFits(p, i, "add_store", k.wish.mode)'
    <3>1. (Free(i, p) \/ Holds(i, p)) /\ port[p].out
      BY <1>5, <2>1 DEF CallFits
    <3>2. port'[p].out
      BY <2>4, <2>6, <3>1
    <3> QED BY <2>6, <3>1, <3>2 DEF CallFits
  <2>8. PICK m : m = [k EXCEPT !.at = "add_store"] /\ m # NoCall
    <3>1. [k EXCEPT !.at = "add_store"] # NoCall
      BY <1>3, <1>4, <2>1, GoesOnOK
    <3> QED BY <3>1
  <2>9. "add_store" \in Points
    BY <1>3
  <2> QED BY <1>4, <1>5, <1>7, <2>1, <2>6, <2>7, <2>8, <2>9, GoesOnStep
<1>13. CASE AddStore(c)
  <2>1. k.at = "add_store" /\ k.wish.mode = "added" /\ Returns(c) /\ port' = port
    BY <1>4, <1>13 DEF AddStore, Calling, CallOK
  <2>2. PICK level \in BOOLEAN : level = Wired[p]
    BY <1>9
  <2>3. PICK f \in Slot : f = [e EXCEPT !.pin = p, !.level = level]
    BY Zenon, SlotAdded
  <2>4. f.pin = p /\ f.level = level /\ f.mode = e.mode /\ f.plan = e.plan
    BY <2>3 DEF Slot
  <2>5. datas' = [datas EXCEPT ![i] = f]
    <3>1. datas' = [datas EXCEPT ![i].pin = p, ![i].level = level]
      BY <1>4, <1>13, <2>2 DEF AddStore
    <3> QED BY <1>1, <1>8, <2>3, <3>1
  <2>6. datas'[i] = f /\ \A j \in Slots : j # i => datas'[j] = datas[j]
    BY <1>1, <2>5
  <2>7. asked'[p] = k.wish
    BY <1>4, <2>1 DEF Returns, Types
  <2>8. Good(p)'
    <3>1. port[p].out
      BY <1>5, <2>1 DEF CallFits
    <3>2. Holds(i, p)'
      BY <2>4, <2>6 DEF Holds
    <3>3. asked'[p].mode = "added"
      BY <2>1, <2>7
    <3> QED BY <2>1, <3>1, <3>2, <3>3 DEF Good, Follows
  <2>9. ~Removing(datas'[i])
    BY <1>5, <1>8, <2>4, <2>6 DEF Removing
  <2> QED BY <1>4, <2>1, <2>2, <2>4, <2>6, <2>8, <2>9, ReturnsStep
<1>14. CASE RemoveDeinit(c)
  <2>1. k.at = "remove_deinit" /\ GoesOn(c, "remove_clear")
    BY <1>4, <1>14 DEF RemoveDeinit, Calling
  <2>2. PICK t : t = PinMode(State, p, no)
    OBVIOUS
  <2>3. Typed(t) /\ t.datas = datas /\ t.port[p].out = no /\ \A q \in Pins : q # p => t.port[q] = port[q]
    <3>1. /\ Typed(t) /\ t.datas = State.datas /\ t.port[p].out = no
          /\ \A q \in Pins : q # p => t.port[q] = State.port[q]
      <4>1. PICK s0 : s0 = State /\ Typed(s0) /\ s0.datas = State.datas /\ s0.port = State.port
        BY <1>1
      <4>2. t = PinMode(s0, p, no)
        BY <2>2, <4>1
      <4> QED BY <4>1, <4>2, PinModeIs
    <3> QED BY <1>1, <3>1
  <2>4. Becomes(t)
    BY <1>2, <1>4, <1>14, <2>2 DEF RemoveDeinit
  <2>5. /\ datas' = datas /\ port'[p] = t.port[p] /\ \A q \in Pins : q # p => port'[q] = port[q]
        /\ (Holds(i, p)' <=> Holds(i, p))
    BY <1>10, <2>3, <2>4
  <2>6. CallFits(p, i, "remove_clear", k.wish.mode)'
    <3>1. ~port'[p].out
      BY <1>2, <2>3, <2>5
    <3>2. Holds(i, p)
      BY <1>5, <2>1 DEF CallFits
    <3> QED BY <2>5, <3>1, <3>2 DEF CallFits
  <2>7. PICK m : m = [k EXCEPT !.at = "remove_clear"] /\ m # NoCall
    <3>1. [k EXCEPT !.at = "remove_clear"] # NoCall
      BY <1>3, <1>4, <2>1, GoesOnOK
    <3> QED BY <3>1
  <2>8. "remove_clear" \in Points
    BY <1>3
  <2> QED BY <1>4, <1>5, <1>7, <2>1, <2>5, <2>6, <2>7, <2>8, GoesOnStep
<1>15. CASE RemoveClear(c)
  <2>1. k.at = "remove_clear" /\ k.wish = Removed /\ Returns(c) /\ port' = port
    BY <1>4, <1>15 DEF RemoveClear, Calling, CallOK
  <2>2. PICK f \in Slot : f = [e EXCEPT !.pin = None]
    BY Zenon, SlotPin
  <2>3. f.pin = None /\ f.mode = e.mode /\ f.plan = e.plan
    BY <2>2 DEF Slot
  <2>4. datas' = [datas EXCEPT ![i] = f]
    <3>1. datas' = [datas EXCEPT ![i].pin = None]
      BY <1>4, <1>15 DEF RemoveClear
    <3> QED BY <1>1, <1>8, <2>2, <3>1
  <2>5. datas'[i] = f /\ \A j \in Slots : j # i => datas'[j] = datas[j]
    BY <1>1, <2>4
  <2>6. asked'[p] = k.wish /\ age'[p] = 0
    BY <1>4, <2>1 DEF Returns, Types
  <2>7. Good(p)'
    <3>1. ~port'[p].out
      BY <1>5, <2>1 DEF CallFits
    <3>2. \A j \in Slots : datas'[j].pin # p
      BY <1>5, <1>6, <2>3, <2>5
    <3>3. asked'[p].mode = "removed"
      BY <2>1, <2>6 DEF Removed, Wish
    <3>4. ~Lit(p)'
      BY <3>1 DEF Lit
    <3>5. ~ShouldBeLit(asked'[p], age'[p])
      BY <3>3 DEF ShouldBeLit
    <3> QED BY <3>1, <3>2, <3>3, <3>4, <3>5 DEF Good, NoSlot, Holds
  <2>8. ~Removing(datas'[i])
    BY <1>5, <1>8, <2>3, <2>5 DEF Removing
  <2> QED BY <1>4, <2>1, <2>3, <2>5, <2>7, <2>8, ReturnsStep
<1>16. CASE SetMode(c)
  <2>1. k.at = "set_mode" /\ k.wish.mode \in {"OFF", "ON"} /\ GoesOn(c, "set_switch") /\ port' = port
    BY <1>4, <1>16 DEF SetMode, Calling, CallOK
  <2>2. PICK mode \in Modes : mode = k.wish.mode /\ mode \in {"OFF", "ON"}
    BY <2>1 DEF Modes
  <2>3. PICK f : f = Still(e, mode)
    OBVIOUS
  <2>4. f.pin = e.pin /\ f.level = e.level /\ f.mode = mode
    BY <2>3 DEF Still, Slot
  <2>5. datas' = [datas EXCEPT ![i] = f]
    BY <1>4, <1>8, <1>16, <2>2, <2>3 DEF SetMode
  <2>6. datas'[i] = f /\ \A j \in Slots : j # i => datas'[j] = datas[j]
    BY <1>1, <2>5
  <2>7. CallFits(p, i, "set_switch", k.wish.mode)'
    <3>1. Holds(i, p) /\ port[p].out
      BY <1>5, <2>1 DEF CallFits
    <3>2. Holds(i, p)'
      BY <1>8, <2>4, <2>6, <3>1 DEF Holds
    <3> QED BY <2>1, <2>2, <2>4, <2>6, <3>1, <3>2 DEF CallFits
  <2>8. PICK m : m = [k EXCEPT !.at = "set_switch"] /\ m # NoCall
    <3>1. [k EXCEPT !.at = "set_switch"] # NoCall
      BY <1>3, <1>4, <2>1, GoesOnOK
    <3> QED BY <3>1
  <2>9. "set_switch" \in Points
    BY <1>3
  <2>10. ~Removing(datas'[i])
    BY <2>2, <2>4, <2>6 DEF Removing
  <2> QED BY <1>4, <1>5, <1>7, <1>8, <2>1, <2>4, <2>6, <2>7, <2>8, <2>9, <2>10, GoesOnStep
<1>17. CASE SetSwitch(c)
  <2>1. k.at = "set_switch" /\ k.wish.mode \in {"OFF", "ON"} /\ WishOK(k.wish) /\ Returns(c)
    BY <1>4, <1>17 DEF SetSwitch, Calling, CallOK
  <2>2. Holds(i, p) /\ port[p].out /\ e.mode = k.wish.mode
    BY <1>5, <1>8, <2>1 DEF CallFits
  <2>3. e.pin = p /\ e.level = Wired[p]
    BY <1>6, <1>7, <1>8, <2>2 DEF Holds
  <2>4. PICK high \in BOOLEAN : high = ((k.wish.mode = "ON") = Wired[p])
    OBVIOUS
  <2>5. PICK t : t = Write(State, p, high)
    OBVIOUS
  <2>6. /\ Typed(t) /\ t.datas = datas /\ t.port[p].out = port[p].out /\ t.port[p].high = high
        /\ \A q \in Pins : q # p => t.port[q] = port[q]
    <3>1. PICK s : s = State /\ Typed(s) /\ s.datas = datas /\ s.port = port
      BY <1>1
    <3>2. t = Write(s, p, high)
      BY <2>5, <3>1
    <3>3. Typed(s)
      BY <3>1
    <3>4. Typed(t) /\ Written(s, t, p, high)
      BY <3>2, <3>3, WriteIs
    <3> QED BY <3>1, <3>4 DEF Written
  <2>7. Becomes(t)
    BY <1>4, <1>8, <1>17, <2>3, <2>4, <2>5 DEF SetSwitch
  <2>8. /\ datas' = datas /\ port'[p] = t.port[p] /\ \A q \in Pins : q # p => port'[q] = port[q]
        /\ \A j \in Slots : Holds(j, p)' <=> Holds(j, p)
    BY <1>10, <2>6, <2>7
  <2>9. asked'[p] = k.wish /\ age'[p] = 0
    BY <1>4, <2>1 DEF Returns, Types
  <2>10. Good(p)'
    <3>1. port'[p].out
      BY <2>2, <2>6, <2>8
    <3>2. \A j \in Slots : Holds(j, p)' => j = i
      BY <1>5, <2>8 DEF Holds
    <3>3. Holds(i, p)'
      BY <2>2, <2>8
    <3>4. Follows(datas'[i], asked'[p], age'[p])
      BY <1>8, <2>1, <2>2, <2>8, <2>9 DEF Follows
    <3>5. Lit(p)' <=> k.wish.mode = "ON"
      <4>1. Lit(p)' <=> high = Wired[p]
        BY <2>6, <2>8, <3>1 DEF Lit
      <4> QED BY <1>9, <2>4, <4>1
    <3>6. ShouldBeLit(asked'[p], age'[p]) <=> k.wish.mode = "ON"
      <4>1. 0 \in Nat
        OBVIOUS
      <4>2. ShouldBeLit(k.wish, 0) <=> k.wish.mode = "ON"
        BY <2>1, <4>1, WishIs
      <4> QED BY <2>9, <4>2
    <3>7. asked'[p].mode # "removed"
      BY <2>1, <2>9
    <3> QED BY <3>1, <3>2, <3>3, <3>4, <3>5, <3>6, <3>7 DEF Good
  <2>11. datas'[i] = datas[i] /\ ~Removing(datas'[i]) /\ \A j \in Slots : datas'[j] = datas[j]
    BY <1>5, <2>8
  <2> QED BY <1>4, <1>5, <1>7, <2>1, <2>8, <2>10, <2>11, ReturnsStep
<1> QED BY <1>11, <1>12, <1>13, <1>14, <1>15, <1>16, <1>17

\* qled_set_blink and qled_set_special.
LEMMA SetRunStep ==
  ASSUME Alone, Types, InStep, NEW c \in Clients, SetRun(c)
  PROVE  InStep'
<1>1. PICK k \in Calls, f \in Slot, on \in BOOLEAN :
            /\ k = call[c] /\ k # NoCall /\ k.at = "set_run" /\ CallOK(k) /\ k.pin \in Pins /\ k.idx \in Slots
            /\ k.wish.mode \in {"BLINK", "SPECIAL"} /\ PlanFits(k.wish.mode, k.wish.plan)
            /\ f = Started(datas[k.idx], k.wish) /\ SlotFits(f) /\ on = TRUE
            /\ State' = Put(State, k.idx, f, on) /\ Typed(State)' /\ Returns(c)
  BY SetRunIs
<1>2. PICK p \in Pins, i \in Slots : p = k.pin /\ i = k.idx
  BY <1>1
<1>3. datas \in [Slots -> Slot] /\ port \in [Pins -> Port] /\ State.datas = datas /\ State.port = port
      /\ State = [datas |-> datas, port |-> port]
  BY StateIs
<1>4. CallFits(p, i, k.at, k.wish.mode) /\ \A j \in Slots : j # i => datas[j].pin # p
  BY <1>1, <1>2, CallSlot
<1>5. datas[i].pin = p /\ port[p].out
  BY <1>1, <1>4 DEF CallFits, Holds
<1>6. Wired[p] \in BOOLEAN /\ None \notin Pins
  BY QledAssumption
<1>7. datas[i].level = Wired[p]
  BY <1>5, <1>6 DEF InStep, Levels
<1>8. PICK e \in Slot, w \in Wishes : e = datas[i] /\ w = k.wish /\ WishOK(w) /\ w.mode \in {"BLINK", "SPECIAL"}
  BY <1>1, <1>2, <1>3 DEF CallOK, WishOK
<1>9. f = Started(e, w) /\ PlanFits(w.mode, w.plan)
  BY <1>1, <1>2, <1>8
<1>10. f.pin = p /\ f.level = Wired[p]
  <2>1. f.pin = e.pin /\ f.level = e.level
    BY <1>8, <1>9, StartedFits
  <2> QED BY <1>5, <1>7, <1>8, <2>1
<1>11. PICK y \in BOOLEAN : y = (on = Wired[p])
  OBVIOUS
<1>12. PICK v : v = [out |-> port[p].out, high |-> y]
  OBVIOUS
<1>13. State' = [datas |-> [datas EXCEPT ![i] = f], port |-> [port EXCEPT ![p] = v]]
  <2>1. Put(State, i, f, on) = [datas |-> [State.datas EXCEPT ![i] = f],
                                port |-> [State.port EXCEPT ![f.pin] =
                                            [out |-> State.port[f.pin].out, high |-> (on = f.level)]]]
    BY <1>10 DEF Put
  <2>2. State' = Put(State, i, f, on)
    BY <1>1, <1>2
  <2> QED BY <1>3, <1>10, <1>11, <1>12, <2>1, <2>2
<1>14. datas' = [datas EXCEPT ![i] = f] /\ port' = [port EXCEPT ![p] = v]
  <2>1. State' = [datas |-> datas', port |-> port']
    BY DEF State
  <2> QED BY <1>13, <2>1
<1>15. /\ datas'[i] = f /\ \A j \in Slots : j # i => datas'[j] = datas[j]
       /\ port'[p] = v /\ \A q \in Pins : q # p => port'[q] = port[q]
  BY <1>3, <1>14
<1>16. asked'[p] = w /\ age'[p] = 0
  BY <1>1, <1>2, <1>8 DEF Returns, Types
<1>17. Follows(f, w, 0) /\ ShouldBeLit(w, 0)
  BY <1>8, <1>9, StartedFollows
<1>18. Good(p)'
  <2>1. port'[p].out /\ port'[p].high = y
    BY <1>5, <1>12, <1>15
  <2>2. Holds(i, p)' /\ \A j \in Slots : Holds(j, p)' => j = i
    BY <1>4, <1>10, <1>15 DEF Holds
  <2>3. y = Wired[p]
    BY <1>1, <1>6, <1>11
  <2>4. Lit(p)'
    BY <2>1, <2>3 DEF Lit
  <2>5. asked'[p].mode # "removed"
    BY <1>8, <1>16
  <2>6. Follows(datas'[i], asked'[p], age'[p])
    BY <1>15, <1>16, <1>17
  <2>7. ShouldBeLit(asked'[p], age'[p])
    BY <1>16, <1>17
  <2> QED BY <2>1, <2>2, <2>4, <2>5, <2>6, <2>7 DEF Good
<1>19. datas'[i].pin = p /\ datas'[i].level = Wired[p] /\ p # None
  BY <1>6, <1>10, <1>15
<1> QED BY <1>1, <1>2, <1>15, <1>18, <1>19, ReturnsStep

\* A call that begins.
LEMMA CallBeginStep ==
  ASSUME Alone, Types, InStep, NEW c \in Clients, NEW p \in Pins,
         AddBegin(c, p) \/ RemoveBegin(c, p) \/ SetBegin(c, p) \/ RunBegin(c, p)
  PROVE  InStep'
<1>1. /\ \A q : Having(State, q) \subseteq Slots /\ \A j \in Slots : j \in Having(State, q) <=> datas[j].pin = q
      /\ {"add_init", "remove_deinit", "set_mode", "set_run"} \subseteq Points
  BY StateIs DEF Having, Points
<1>2. call[c] = NoCall
  BY DEF AddBegin, RemoveBegin, SetBegin, RunBegin, Begin
<1>3. Good(p)
  <2>1. ~Busy(p)
    BY <1>2, BusyIs
  <2> QED BY <2>1 DEF InStep
\* A slot of the pin.
<1>4. ASSUME NEW slots, slots = Having(State, p), slots # {}
      PROVE  Holds(First(slots), p) /\ port[p].out
  <2>1. First(slots) \in slots
    BY <1>1, <1>4, FirstIn
  <2>2. PICK i \in Slots : i = First(slots) /\ datas[i].pin = p
    BY <1>1, <1>4, <2>1
  <2>3. ~NoSlot(p)
    BY <2>2 DEF NoSlot
  <2> QED BY <1>3, <2>2, <2>3 DEF Good, Holds
\* A call for an LED that is in the table.
<1>5. ASSUME NEW w, NEW at \in {"remove_deinit", "set_mode", "set_run"}, Begin(c, p, w, Having(State, p), at)
      PROVE  InStep'
  <2>1. PICK slots : slots = Having(State, p)
    OBVIOUS
  <2>2. Begin(c, p, w, slots, at) /\ slots # {} /\ at \in Points
    BY <1>1, <1>5, <2>1 DEF Begin
  <2>3. Holds(First(slots), p) /\ port[p].out
    BY <1>4, <2>1, <2>2
  <2>4. CallFits(p, First(slots), at, w.mode)
    BY <1>5, <2>3 DEF CallFits
  <2> QED BY <2>2, <2>4, BeginStep
<1>6. CASE AddBegin(c, p)
  <2>1. PICK w, slots : w = Wish("added", NoPlan) /\ slots = AddTo(p)
    OBVIOUS
  <2>2. Begin(c, p, w, slots, "add_init") /\ slots # {} /\ "add_init" \in Points
    BY <1>1, <1>6, <2>1 DEF AddBegin, Begin
  <2>3. CASE Having(State, p) # {}
    <3>1. slots = Having(State, p)
      BY <2>1, <2>3 DEF AddTo
    <3>2. Holds(First(slots), p) /\ port[p].out
      BY <1>4, <2>2, <3>1
    <3>3. CallFits(p, First(slots), "add_init", w.mode)
      BY <3>2 DEF CallFits
    <3> QED BY <2>2, <3>3, BeginStep
  <2>4. CASE Having(State, p) = {}
    <3>1. slots = Having(State, None)
      BY <2>1, <2>4 DEF AddTo
    <3>2. First(slots) \in slots
      BY <1>1, <2>2, <3>1, FirstIn
    <3>3. datas[First(slots)].pin = None
      BY <1>1, <3>1, <3>2
    <3>4. NoSlot(p)
      BY <1>1, <2>4 DEF NoSlot
    <3>5. CallFits(p, First(slots), "add_init", w.mode)
      BY <3>3, <3>4 DEF CallFits, Free
    <3> QED BY <2>2, <3>5, BeginStep
  <2> QED BY <2>3, <2>4
<1>7. CASE RemoveBegin(c, p)
  BY <1>5, <1>7 DEF RemoveBegin
<1>8. CASE SetBegin(c, p)
  BY <1>5, <1>8 DEF SetBegin
<1>9. CASE RunBegin(c, p)
  BY <1>5, <1>9 DEF RunBegin
<1> QED BY <1>6, <1>7, <1>8, <1>9

\* A slot loses its pin only if its callback removes the LED, and that is over
\* when it has done so.
LEMMA AfterKeeps ==
  ASSUME NEW d \in Slot, SlotFits(d)
  PROVE  /\ d.pin = None \/ d.mode \in {"OFF", "ON"} => After(d) = d
         /\ d.pin # None /\ ~Removing(d) => After(d).pin = d.pin
         /\ Removing(After(d)) => Removing(d) /\ After(d).pin = d.pin
<1>1. d.mode \in {"OFF", "ON", "BLINK", "SPECIAL"}
  BY PlanFacts DEF Modes
<1>2. CASE d.pin = None \/ d.mode \in {"OFF", "ON"}
  BY <1>2 DEF After
<1>3. CASE d.pin # None /\ d.mode = "BLINK"
  <2>1. d.plan \in BlinkPlans
    BY <1>3 DEF SlotFits, PlanFits
  <2>2. After(d) = Blinked(d)
    BY <1>3 DEF After
  <2> QED BY <1>3, <2>1, <2>2, BlinkedFits DEF Removing
<1>4. CASE d.pin # None /\ d.mode = "SPECIAL"
  <2>1. d.plan \in SpecialPlans /\ d.idx < Len(d.plan.datas)
    BY <1>4 DEF SlotFits, PlanFits
  <2>2. PICK e \in Slot : e = PlayedSlot(d) /\ e.pin = d.pin
    BY <1>4, <2>1, PlayedFits
  <2>3. ASSUME Over(d) PROVE e.mode = "OFF"
    <3>1. e = Stopped(d)
      BY <2>2, <2>3 DEF PlayedSlot, Over
    <3> QED BY <3>1 DEF Stopped, Still, Slot
  <2>4. ASSUME ~Over(d) PROVE e.mode = d.mode /\ e.plan = d.plan
    <3>1. e = [d EXCEPT !.cnt = d.cnt - 1]
          \/ e = [d EXCEPT !.idx = NextIdx(d), !.cnt = d.plan.datas[NextIdx(d) + 1]]
      BY <2>2, <2>4 DEF PlayedSlot
    <3> QED BY <3>1 DEF Slot
  <2>5. CASE ~Over(d) \/ d.plan.over_cb = "null"
    <3>1. After(d) = e
      BY <1>4, <2>2, <2>5 DEF After
    <3> QED BY <1>4, <2>2, <2>3, <2>4, <3>1 DEF Removing
  <2>6. CASE Over(d) /\ d.plan.over_cb = "again"
    <3>1. PICK w : w = Wish("SPECIAL", d.plan)
      OBVIOUS
    <3>2. PICK f : f = Started(e, w)
      OBVIOUS
    <3>3. After(d) = f
      BY <1>4, <2>2, <2>6, <3>1, <3>2 DEF After
    <3>4. f.pin = e.pin /\ f.plan = d.plan
      BY <3>1, <3>2 DEF Started, Slot, Wish
    <3> QED BY <1>4, <2>2, <2>6, <3>3, <3>4 DEF Removing
  <2>7. CASE Over(d) /\ d.plan.over_cb \notin {"null", "again"}
    <3>1. PICK f : f = [e EXCEPT !.pin = None]
      OBVIOUS
    <3>2. After(d) = f
      BY <1>4, <2>2, <2>7, <3>1 DEF After
    <3>3. f.mode = "OFF"
      BY <2>3, <2>7, <3>1 DEF Slot
    <3>4. Removing(d)
      <4>1. d.plan.over_cb \in {"null", "again", "remove"}
        BY <2>1, PlanFacts DEF Callbacks
      <4> QED BY <1>4, <2>7, <4>1 DEF Removing
    <3> QED BY <1>4, <3>2, <3>3, <3>4 DEF Removing
  <2> QED BY <2>5, <2>6, <2>7
<1> QED BY <1>1, <1>2, <1>3, <1>4

\* The table and the pins after a pass, from those before it.
LEMMA TickIs ==
  ASSUME Types, InStep, Tick
  PROVE  /\ Distinct(datas') /\ call' = call
         /\ \A i \in Slots : datas'[i] = After(datas[i])
         /\ \A i \in Slots, p \in Pins : datas[i].pin = p => port'[p] = PortAfter(port[p], datas[i])
         /\ \A p \in Pins : NoSlot(p) => port'[p] = port[p]
<1>1. State' = Pass /\ Typed(State)
  BY TickTypes DEF Types
<1>2. Ran(State, Pass, QLED_TOTAL)
  BY <1>1, PassRuns DEF InStep
<1>3. PICK s, r : s = State /\ r = Pass /\ Ran(s, r, QLED_TOTAL)
  BY <1>2
<1>4. s.datas = datas /\ s.port = port
  BY <1>3, StateIs
<1>5. r.datas = datas' /\ r.port = port'
  <2>1. r = [datas |-> datas', port |-> port']
    BY <1>1, <1>3 DEF State
  <2> QED BY <2>1
<1>6. \A i \in Slots : i <= QLED_TOTAL
  BY QledAssumption DEF Slots
<1>7. Distinct(r.datas) /\ \A i \in Slots : r.datas[i] = After(s.datas[i])
  BY <1>3, <1>6 DEF Ran
<1>8. \A i \in Slots : s.datas[i].pin # None =>
        r.port[s.datas[i].pin] = PortAfter(s.port[s.datas[i].pin], s.datas[i])
  BY <1>3, <1>6 DEF Ran
<1>9. \A p \in Pins : (\A i \in Slots : s.datas[i].pin # p) => r.port[p] = s.port[p]
  BY <1>3 DEF Ran
<1>10. \A i \in Slots, p \in Pins : datas[i].pin = p => port'[p] = PortAfter(port[p], datas[i])
  BY <1>4, <1>5, <1>8, QledAssumption
<1>11. \A p \in Pins : NoSlot(p) => port'[p] = port[p]
  BY <1>4, <1>5, <1>9 DEF NoSlot
<1>12. call' = call
  BY DEF Tick
<1> QED BY <1>4, <1>5, <1>7, <1>10, <1>11, <1>12

\* A pin that nobody is busy with, in a pass.
LEMMA TickGood ==
  ASSUME Types, InStep, Tick, NEW p \in Pins, Good(p)
  PROVE  Good(p)'
<1>1. /\ Distinct(datas')
      /\ \A i \in Slots : datas'[i] = After(datas[i])
      /\ \A i \in Slots : datas[i].pin = p => port'[p] = PortAfter(port[p], datas[i])
      /\ NoSlot(p) => port'[p] = port[p]
  BY TickIs
<1>2. p # None /\ None \notin Pins /\ Wired[p] \in BOOLEAN
  BY QledAssumption
<1>3. /\ datas \in [Slots -> Slot] /\ port \in [Pins -> Port]
      /\ \A i \in Slots : SlotFits(datas[i])
      /\ asked \in [Pins -> Wishes] /\ WishOK(asked[p]) /\ age[p] \in Nat
  BY StateIs DEF Types
<1>4. PICK w \in Wishes, n \in Nat : w = asked[p] /\ n = age[p] /\ WishOK(w)
  BY <1>3
<1>5. PICK w2, n2 : w2 = asked'[p] /\ n2 = age'[p]
  OBVIOUS
<1>6. /\ w2 = IF \E i \in Slots : datas[i].pin = p /\ datas'[i].pin = None THEN Removed ELSE w
      /\ n2 = IF w2 # w THEN 0 ELSE Older(w, n)
  BY <1>4, <1>5 DEF Tick
\* A slot that has the pin then had it before.
<1>7. \A i \in Slots : After(datas[i]).pin \in {datas[i].pin, None}
  BY <1>3, AfterFits
<1>8. \A i \in Slots : datas'[i].pin = p => datas[i].pin = p
  BY <1>1, <1>2, <1>7
<1>9. CASE NoSlot(p)
  <2>1. w2 = w /\ n2 = Older(w, n) /\ port'[p] = port[p]
    BY <1>1, <1>6, <1>9 DEF NoSlot
  <2>2. \A j \in Slots : datas'[j].pin # p
    BY <1>8, <1>9 DEF NoSlot
  <2>3. w.mode = "removed" /\ ~port[p].out
    BY <1>4, <1>9 DEF Good, NoSlot, Holds
  <2>4. ~ShouldBeLit(w2, n2)
    BY <2>1, <2>3 DEF ShouldBeLit
  <2>5. ~port'[p].out /\ ~Lit(p)'
    BY <2>1, <2>3 DEF Lit
  <2> QED BY <1>5, <2>1, <2>2, <2>3, <2>4, <2>5 DEF Good, NoSlot, Holds
<1>10. CASE ~NoSlot(p)
  <2>1. PICK i \in Slots : datas[i].pin = p
    BY <1>10 DEF NoSlot
  <2>2. PICK d \in Slot : d = datas[i] /\ SlotFits(d) /\ d.pin = p /\ d.pin # None
    BY <1>2, <1>3, <2>1
  <2>3. \A j \in Slots : datas[j].pin = p => j = i
    BY <1>2, <2>1 DEF InStep, Distinct
  <2>4. w.mode # "removed" /\ port[p].out /\ Follows(d, w, n)
    BY <1>4, <1>10, <2>1, <2>2 DEF Good, Holds
  <2>5. PICK f \in Slot : f = After(d) /\ f.pin \in {p, None} /\ f = datas'[i]
    BY <1>1, <2>2, AfterFits
  <2>6. PICK q \in Port : q = port[p]
    BY <1>3
  <2>7. PICK lit \in BOOLEAN : lit = LitAfter(d)
    BY DEF LitAfter
  <2>8. port'[p] = PortAfter(q, d)
    BY <1>1, <2>1, <2>2, <2>6
  <2>9. (port'[p].out <=> q.out /\ f.pin # None) /\ port'[p].high = (lit = d.level)
    <3>1. PICK o, h : o = (q.out /\ After(d).pin # None) /\ h = (LitAfter(d) = d.level)
      OBVIOUS
    <3>2. PortAfter(q, d) = [out |-> o, high |-> h]
      BY <3>1 DEF PortAfter
    <3>3. port'[p].out = o /\ port'[p].high = h
      BY <2>8, <3>2
    <3>4. o <=> q.out /\ f.pin # None
      BY <2>5, <3>1
    <3>5. h = (lit = d.level)
      BY <2>7, <3>1
    <3> QED BY <3>3, <3>4, <3>5
  <2>10. d.level = Wired[p]
    BY <2>1, <2>2 DEF InStep, Levels
  <2>11. CASE f.pin = None
    <3>1. w2 = Removed
      BY <1>6, <2>1, <2>5, <2>11
    <3>2. w2.mode = "removed"
      BY <3>1 DEF Removed, Wish
    <3>3. ~port'[p].out /\ ~Lit(p)'
      BY <2>9, <2>11 DEF Lit
    <3>4. \A j \in Slots : datas'[j].pin # p
      BY <1>2, <1>8, <2>3, <2>5, <2>11
    <3>5. ~ShouldBeLit(w2, n2)
      BY <3>2 DEF ShouldBeLit
    <3> QED BY <1>5, <3>2, <3>3, <3>4, <3>5 DEF Good, NoSlot, Holds
  <2>12. CASE f.pin = p
    <3>1. \A j \in Slots : ~(datas[j].pin = p /\ datas'[j].pin = None)
      BY <1>2, <2>3, <2>5, <2>12
    <3>2. w2 = w /\ n2 = Older(w, n)
      BY <1>6, <3>1
    <3>3. /\ Follows(f, w, Older(w, n))
          /\ w.mode \notin {"added", "removed"} => (LitAfter(d) <=> ShouldBeLit(w, Older(w, n)))
      BY <1>2, <1>4, <2>2, <2>4, <2>5, <2>12, FollowsNext
    <3>4. port'[p].out /\ (Lit(p)' <=> LitAfter(d))
      <4>1. port'[p].out
        BY <1>2, <2>4, <2>6, <2>9, <2>12
      <4>2. Lit(p)' <=> port'[p].high = Wired[p]
        BY <4>1 DEF Lit
      <4>3. (lit = Wired[p]) = Wired[p] <=> lit
        BY <1>2
      <4> QED BY <2>7, <2>9, <2>10, <4>1, <4>2, <4>3
    <3>5. \A j \in Slots : Holds(j, p)' => j = i
      BY <1>8, <2>3 DEF Holds
    <3>6. Holds(i, p)'
      BY <2>5, <2>12 DEF Holds
    <3>7. \A j \in Slots : Holds(j, p)' => Follows(datas'[j], w2, n2)
      BY <2>5, <3>2, <3>3, <3>5
    <3>8. w2.mode # "removed" /\ (w2.mode # "added" => (Lit(p)' <=> ShouldBeLit(w2, n2)))
      BY <2>4, <3>2, <3>3, <3>4
    <3> QED BY <1>5, <3>4, <3>6, <3>7, <3>8 DEF Good
  <2> QED BY <2>5, <2>11, <2>12
<1> QED BY <1>9, <1>10

\* A pass.
LEMMA TickStep ==
  ASSUME Alone, Types, InStep, Tick
  PROVE  InStep'
<1>1. /\ Distinct(datas') /\ call' = call
      /\ \A i \in Slots : datas'[i] = After(datas[i])
      /\ \A i \in Slots, p \in Pins : datas[i].pin = p => port'[p] = PortAfter(port[p], datas[i])
      /\ \A p \in Pins : NoSlot(p) => port'[p] = port[p]
  BY TickIs
<1>2. None \notin Pins
  BY QledAssumption
<1>3. datas \in [Slots -> Slot] /\ port \in [Pins -> Port] /\ \A i \in Slots : SlotFits(datas[i])
  BY StateIs
<1>4. /\ \A i \in Slots : After(datas[i]).level = datas[i].level /\ After(datas[i]).pin \in {datas[i].pin, None}
      /\ \A i \in Slots : datas[i].pin = None \/ datas[i].mode \in {"OFF", "ON"} => After(datas[i]) = datas[i]
      /\ \A i \in Slots : datas[i].pin # None /\ ~Removing(datas[i]) => After(datas[i]).pin = datas[i].pin
      /\ \A i \in Slots : Removing(After(datas[i])) => Removing(datas[i]) /\ After(datas[i]).pin = datas[i].pin
  BY <1>3, AfterFits, AfterKeeps
<1>5. \A p \in Pins : Busy(p)' <=> Busy(p)
  BY <1>1 DEF Busy
<1>6. Levels'
  <2>1. ASSUME NEW i \in Slots, datas'[i].pin # None PROVE datas'[i].level = Wired[datas'[i].pin]
    <3>1. datas'[i].pin = datas[i].pin /\ datas'[i].level = datas[i].level
      BY <1>1, <1>4, <2>1
    <3>2. datas[i].level = Wired[datas[i].pin]
      BY <2>1, <3>1 DEF InStep, Levels
    <3> QED BY <3>1, <3>2
  <2> QED BY <2>1 DEF Levels
<1>7. Removals'
  <2>1. ASSUME NEW i \in Slots, Removing(datas'[i])
        PROVE  datas'[i].pin # None /\ \A p \in Pins : Busy(p)' => datas'[i].pin # p
    <3>1. Removing(datas[i]) /\ datas'[i].pin = datas[i].pin
      BY <1>1, <1>4, <2>1
    <3>2. datas[i].pin # None /\ \A p \in Pins : Busy(p) => datas[i].pin # p
      BY <3>1 DEF InStep, Removals
    <3> QED BY <1>5, <3>1, <3>2
  <2> QED BY <2>1 DEF Removals
<1>8. CallsFit'
  <2>1. SUFFICES ASSUME NEW c \in Clients, NEW k \in Calls, call[c] = k, k # NoCall
                 PROVE  CallFits(k.pin, k.idx, k.at, k.wish.mode)'
    BY <1>1 DEF CallsFit
  <2>2. PICK p \in Pins, i \in Slots : p = k.pin /\ i = k.idx
    <3>1. k.pin \in Pins /\ k.idx \in Slots
      BY <2>1 DEF Calls
    <3> QED BY <3>1
  <2>3. CallFits(p, i, k.at, k.wish.mode)
    BY <2>1, <2>2 DEF InStep, CallsFit
  <2>4. Busy(p)
    BY <2>1, <2>2 DEF Busy
  <2>5. \A j \in Slots : datas[j].pin = p => ~Removing(datas[j])
    BY <2>4 DEF InStep, Removals
  <2>6. \A j \in Slots : datas[j].pin = p => datas'[j].pin = p
    BY <1>1, <1>2, <1>4, <2>5
  <2>7. \A j \in Slots : datas'[j].pin = p => datas[j].pin = p
    BY <1>1, <1>2, <1>4
  <2>8. (Holds(i, p)' <=> Holds(i, p)) /\ (NoSlot(p)' <=> NoSlot(p))
    BY <2>6, <2>7 DEF Holds, NoSlot
  <2>9. Free(i, p) => Free(i, p)'
    <3>1. datas[i].pin = None => datas'[i].pin = None
      BY <1>1, <1>4
    <3> QED BY <2>8, <3>1 DEF Free
  <2>10. port'[p].out <=> port[p].out
    <3>1. CASE NoSlot(p)
      BY <1>1, <3>1
    <3>2. CASE ~NoSlot(p)
      <4>1. PICK j \in Slots : datas[j].pin = p
        BY <3>2 DEF NoSlot
      <4>2. PICK d \in Slot, q \in Port : d = datas[j] /\ q = port[p]
        BY <1>3
      <4>3. port'[p] = PortAfter(q, d)
        BY <1>1, <4>1, <4>2
      <4>4. After(d).pin # None
        BY <1>1, <1>2, <2>6, <4>1, <4>2
      <4>5. PortAfter(q, d) = [out |-> q.out, high |-> (LitAfter(d) = d.level)]
        BY <4>4, PortAfterIs
      <4>6. PortAfter(q, d).out = q.out
        BY <4>5
      <4> QED BY <4>2, <4>3, <4>6
    <3> QED BY <3>1, <3>2
  <2>11. k.at = "set_switch" => datas'[i].mode = datas[i].mode
    <3>1. ASSUME k.at = "set_switch" PROVE datas'[i] = datas[i]
      <4>1. k.wish.mode \in {"OFF", "ON"}
        BY <2>1, <3>1 DEF Types, CallOK
      <4>2. datas[i].mode = k.wish.mode
        BY <2>3, <3>1 DEF CallFits
      <4> QED BY <1>1, <1>4, <4>1, <4>2
    <3> QED BY <3>1
  <2>12. CallFits(p, i, k.at, k.wish.mode)'
    BY <2>3, <2>8, <2>9, <2>10, <2>11 DEF CallFits
  <2> QED BY <2>2, <2>12
<1>9. ASSUME NEW p \in Pins, ~Busy(p)' PROVE Good(p)'
  <2>1. Good(p)
    BY <1>5, <1>9 DEF InStep
  <2> QED BY <2>1, TickGood
<1> QED BY <1>1, <1>6, <1>7, <1>8, <1>9 DEF InStep

\* The empty table.
LEMMA InitStep ==
  ASSUME Init
  PROVE  InStep
<1>1. \A i \in Slots : datas[i].pin = None /\ datas[i].mode = "OFF"
  BY DEF Init
<1>2. \A c \in Clients : call[c] = NoCall
  BY DEF Init
<1>3. None \notin Pins
  BY QledAssumption
<1>4. Distinct(datas) /\ Levels /\ Removals /\ CallsFit
  BY <1>1, <1>2 DEF Distinct, Levels, Removals, Removing, CallsFit
<1>5. ASSUME NEW p \in Pins PROVE Good(p)
  <2>1. asked[p].mode = "removed" /\ ~port[p].out
    BY DEF Init, Removed, Wish
  <2>2. ~Lit(p) /\ ~ShouldBeLit(asked[p], age[p])
    BY <2>1 DEF Lit, ShouldBeLit
  <2>3. \A i \in Slots : datas[i].pin # p
    BY <1>1, <1>3
  <2> QED BY <2>1, <2>2, <2>3 DEF Good, NoSlot, Holds
<1> QED BY <1>4, <1>5 DEF InStep

\* Every step.
LEMMA InStepNext ==
  ASSUME Alone, Types, InStep, [Next]_vars
  PROVE  InStep'
<1>1. CASE Next
  <2>1. Tick \/ \E c \in Clients : Client(c)
    BY <1>1 DEF Next
  <2>2. CASE Tick
    BY <2>2, TickStep
  <2>3. CASE \E c \in Clients : Client(c)
    <3>1. PICK c \in Clients : Client(c)
      BY <2>3
    <3>2. CASE SetRun(c)
      BY <3>2, SetRunStep
    <3>3. CASE AddInit(c) \/ AddOff(c) \/ AddStore(c) \/ RemoveDeinit(c) \/ RemoveClear(c) \/ SetMode(c) \/ SetSwitch(c)
      BY <3>3, CallSteps
    <3>4. CASE \E p \in Pins : AddBegin(c, p) \/ RemoveBegin(c, p) \/ SetBegin(c, p) \/ RunBegin(c, p)
      <4>1. PICK p \in Pins : AddBegin(c, p) \/ RemoveBegin(c, p) \/ SetBegin(c, p) \/ RunBegin(c, p)
        BY <3>4
      <4> QED BY <4>1, CallBeginStep
    <3> QED BY <3>1, <3>2, <3>3, <3>4 DEF Client
  <2> QED BY <2>1, <2>2, <2>3
<1>2. CASE UNCHANGED vars
  <2>1. datas' = datas /\ port' = port /\ call' = call /\ asked' = asked /\ age' = age
    BY <1>2 DEF vars
  <2>2. \A p \in Pins : (Busy(p)' <=> Busy(p)) /\ (Good(p)' <=> Good(p))
    BY <2>1 DEF Busy, Good, Lit, Holds, NoSlot
  <2>3. Levels' /\ Removals' /\ Distinct(datas')
    BY <2>1, <2>2 DEF InStep, Levels, Removals
  <2>4. CallsFit'
    BY <2>1 DEF InStep, CallsFit, CallFits, Free, Holds, NoSlot
  <2> QED BY <2>2, <2>3, <2>4 DEF InStep
<1> QED BY <1>1, <1>2

\* The table and the LEDs after any steps of one thread that calls.
LEMMA InStepAlways == ASSUME Alone PROVE Spec => [](TableOK /\ ShowsWhatWasAsked)
<1> DEFINE Inv == Types /\ InStep
<1>1. Init => Inv
  BY InitTypes, InitStep
<1>2. Inv /\ [Next]_vars => Inv'
  BY TypesNext, InStepNext
<1>3. Inv => TableOK /\ ShowsWhatWasAsked
  BY InStepShows
<1> QED BY <1>1, <1>2, <1>3, PTL DEF Spec

\* With one thread that calls, and not for an LED whose callback will remove
\* it: an LED that was added and not removed has exactly one slot, with its
\* level, and its pin is an output; any other pin has none and is not driven.
\* This holds whatever passes come between the steps of the calls.
THEOREM TableKept == ASSUME Alone PROVE Spec => []TableOK
<1>1. Spec => [](TableOK /\ ShowsWhatWasAsked)
  BY InStepAlways
<1> QED BY <1>1, PTL

\* And every LED shows what the last call asked for, in every pass after it,
\* for blinking and sequences of any times, repeated or not.
THEOREM LedsShow == ASSUME Alone PROVE Spec => []ShowsWhatWasAsked
<1>1. Spec => [](TableOK /\ ShowsWhatWasAsked)
  BY InStepAlways
<1> QED BY <1>1, PTL

=============================================================================
