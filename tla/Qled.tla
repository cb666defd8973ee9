-------------------------------- MODULE Qled ---------------------------------
(* qled.c: a table of LEDs, the thread that drives them every                  *)
(* QLED_TIME_UNIT_MS, and threads of lower priority that call qled_add,        *)
(* qled_remove and qled_set_*. The qled thread preempts a caller between any   *)
(* two of its steps that are not in one critical section; a pass over the      *)
(* table is one critical section. Times are counted in units.                  *)
EXTENDS Integers, Sequences

CONSTANTS
  QLED_TOTAL,   \* the slots of the table
  Pins,         \* the pins with an LED
  Wired,        \* the level that lights the LED of a pin: [Pins -> BOOLEAN]
  None,         \* -1: the slot is unused
  Clients,      \* the threads that call
  Times,        \* what ton_ms and toff_ms may be, in units
  Patterns,     \* the sequences of times for qled_set_special
  Behind,       \* the time found in memory behind the end of a sequence
  Careful       \* may nobody touch an LED whose callback will remove it?

ASSUME QledAssumption ==
  /\ QLED_TOTAL \in Nat \ {0}
  /\ Wired \in [Pins -> BOOLEAN]
  /\ None \notin Pins
  /\ Times \subseteq Nat
  /\ \A s \in Patterns : s \in Seq(Nat) /\ Len(s) \in 1..255
  /\ Behind \in [Patterns -> Nat]
  /\ Careful \in BOOLEAN

VARIABLES
  datas,    \* qled_datas
  port,     \* of every pin: is it an output, and which level was written
  call,     \* of every client: the call it is in
  asked,    \* of every pin: what the last call that was completed asked for
  age       \* of every pin: passes since then, see Older

vars == <<datas, port, call, asked, age>>

Slots == 1..QLED_TOTAL
Callbacks == {"null", "again", "remove"}
Modes == {"OFF", "ON", "BLINK", "SPECIAL"}
U8 == 256

(* ton_ms and toff_ms are read in one mode only, datas, total and over_cb in   *)
(* another: plan stands for those of the mode. Nothing reads cnt, idx and plan *)
(* in the modes OFF and ON, and whoever leaves those modes sets all three:     *)
(* values that only qled_set_off and the like leave behind are cleared.        *)
Plans == [ton : Times, toff : Times] \cup [datas : Patterns, over_cb : Callbacks]
NoPlan == <<>>
Slot == [pin : Pins \cup {None}, mode : Modes, level : BOOLEAN, idx : 0..U8-1, cnt : Nat,
         plan : Plans \cup {NoPlan}]

Wish(mode, plan) == [mode |-> mode, plan |-> plan]
Wishes == [mode : Modes \cup {"removed", "added"}, plan : Plans \cup {NoPlan}]
Removed == Wish("removed", NoPlan)

Points == {"add_init", "add_off", "add_store", "remove_deinit", "remove_clear",
           "set_mode", "set_switch", "set_run"}
NoCall == [at |-> "none"]
Calls == [at : Points, pin : Pins, idx : Slots, wish : Wishes] \cup {NoCall}

TypeOK ==
  /\ datas \in [Slots -> Slot]
  /\ port \in [Pins -> [out : BOOLEAN, high : BOOLEAN]]
  /\ call \in [Clients -> Calls]
  /\ asked \in [Pins -> Wishes]
  /\ age \in [Pins -> Nat]

-----------------------------------------------------------------------------
(* The table and the pins: s is a record of both.                              *)
State == [datas |-> datas, port |-> port]
Becomes(s) == datas' = s.datas /\ port' = s.port

(* qled_find, qled_get_unused: the first slot with that pin.                   *)
Having(s, p) == {i \in Slots : s.datas[i].pin = p}
First(S) == CHOOSE i \in S : \A j \in S : i <= j

(* rt_pin_write; a pin that is none is refused by the driver.                  *)
Write(s, p, high) == IF p \in Pins THEN [s EXCEPT !.port[p].high = high] ELSE s
PinMode(s, p, out) == [s EXCEPT !.port[p].out = out]

(* qled_switch_on, qled_switch_off of the LED in slot i.                       *)
Switch(s, i, on) == Write(s, s.datas[i].pin, on = s.datas[i].level)

(* cnt is decremented, and the time is over when nothing is left.              *)
ElapsedExact(d) == d.cnt - 1 = 0    \* mutant: a time of 0 never ends
ElapsedLate(d) == d.cnt <= 0        \* mutant: compared before it is decremented
Elapsed(d) == d.cnt - 1 <= 0

(* qled_run_blink.                                                             *)
RunBlink(s, i) ==
  LET d == s.datas[i]
      idx == IF Elapsed(d) THEN ((d.idx + 1) % U8) % 2 ELSE d.idx
      cnt == IF ~Elapsed(d) THEN d.cnt - 1 ELSE IF idx = 0 THEN d.plan.ton ELSE d.plan.toff
  IN  Switch([s EXCEPT !.datas[i].idx = idx, !.datas[i].cnt = cnt], i, idx = 0)

(* Nothing goes on in the modes OFF and ON.                                    *)
Still(d, mode) == [d EXCEPT !.mode = mode, !.idx = 0, !.cnt = 0, !.plan = NoPlan]

(* qled_run_special without its callback. When the sequence is over and there  *)
(* is none, the time behind its end is read into cnt all the same, and the LED *)
(* is switched once again, as the number of that time says.                    *)
Over(d) == Elapsed(d) /\ (d.idx + 1) % U8 >= Len(d.plan.datas)
Stopped(d) ==
  [Still(d, "OFF") EXCEPT !.cnt = IF d.plan.over_cb = "null" THEN Behind[d.plan.datas] ELSE 0]

Played(s, i) ==
  LET d == s.datas[i]
      idx == (d.idx + 1) % U8
  IN  CASE ~Elapsed(d) ->
             Switch([s EXCEPT !.datas[i].cnt = @ - 1], i, d.idx % 2 = 0)
        [] Elapsed(d) /\ ~Over(d) ->
             Switch([s EXCEPT !.datas[i].idx = idx, !.datas[i].cnt = d.plan.datas[idx + 1]],
                    i, idx % 2 = 0)
        [] Over(d) ->
             Switch([s EXCEPT !.datas[i] = Stopped(@)],
                    i, d.plan.over_cb = "null" /\ idx % 2 = 0)

(* What qled_set_blink and qled_set_special do in their critical section.      *)
SetIn(s, i, w) ==
  LET start == [s EXCEPT !.datas[i] = [@ EXCEPT !.mode = w.mode, !.cnt = 0, !.idx = U8 - 1,
                                               !.plan = w.plan]]
  IN  IF w.mode = "BLINK" THEN RunBlink(start, i) ELSE Played(start, i)

(* over_cb, as in the examples of the readme: the sequence is started again,   *)
(* or the LED is removed. It runs in the qled thread.                          *)
Callback(s, p, plan) ==
  CASE plan.over_cb = "null" \/ Having(s, p) = {} -> s
    [] plan.over_cb = "again" /\ Having(s, p) # {} ->
         SetIn(s, First(Having(s, p)), Wish("SPECIAL", plan))
    [] plan.over_cb = "remove" /\ Having(s, p) # {} ->
         [PinMode(s, p, FALSE) EXCEPT !.datas[First(Having(s, p))].pin = None]

RunSpecial(s, i) ==
  LET d == s.datas[i]
  IN  IF Over(d) THEN Callback(Played(s, i), d.pin, d.plan) ELSE Played(s, i)

(* One slot of qled_run, and the pass over all of them.                        *)
RunSlot(s, i) ==
  CASE s.datas[i].pin = None -> s
    [] s.datas[i].pin # None /\ s.datas[i].mode \in {"OFF", "ON"} ->
         Switch(s, i, s.datas[i].mode = "ON")
    [] s.datas[i].pin # None /\ s.datas[i].mode = "BLINK" -> RunBlink(s, i)
    [] s.datas[i].pin # None /\ s.datas[i].mode = "SPECIAL" -> RunSpecial(s, i)

Pass ==
  LET after[i \in 0..QLED_TOTAL] == IF i = 0 THEN State ELSE RunSlot(after[i-1], i)
  IN  after[QLED_TOTAL]

-----------------------------------------------------------------------------
(* What a wish means, without the table: the light of an LED after n passes.   *)

(* A time of less than a unit lasts for one pass.                              *)
Lasts(t) == IF t = 0 THEN 1 ELSE t
Until(seq, k) ==
  LET sum[i \in 0..k] == IF i = 0 THEN 0 ELSE sum[i-1] + Lasts(seq[i])
  IN  sum[k]
Length(seq) == Until(seq, Len(seq))

Period(w) == CASE w.mode = "BLINK" -> Lasts(w.plan.ton) + Lasts(w.plan.toff)
               [] w.mode = "SPECIAL" /\ w.plan.over_cb = "again" -> Length(w.plan.datas)
               [] OTHER -> 1

(* age counts within a period, and up to the end of a sequence that is not     *)
(* repeated.                                                                   *)
Older(w, n) ==
  IF w.mode = "SPECIAL" /\ w.plan.over_cb # "again"
  THEN IF n > Length(w.plan.datas) THEN n ELSE n + 1
  ELSE (n + 1) % Period(w)

(* A sequence begins lit. One of an even number of times without callback      *)
(* lights up once more when it is over, for one pass.                          *)
ShouldBeLit(w, n) ==
  CASE w.mode = "ON" -> TRUE
    [] w.mode \in {"OFF", "removed"} -> FALSE
    [] w.mode = "BLINK" -> n < Lasts(w.plan.ton)
    [] w.mode = "SPECIAL" ->
         \/ \E k \in 1..Len(w.plan.datas) : k % 2 = 1 /\ n \in Until(w.plan.datas, k-1) .. Until(w.plan.datas, k) - 1
         \/ n = Length(w.plan.datas) /\ w.plan.over_cb = "null" /\ Len(w.plan.datas) % 2 = 0

Lit(p) == port[p].out /\ port[p].high = Wired[p]

-----------------------------------------------------------------------------
(* The callers. A call that finds no slot returns an error at once.            *)
Calling(c, at) == call[c] # NoCall /\ call[c].at = at
GoesOn(c, at) == call' = [call EXCEPT ![c].at = at] /\ UNCHANGED <<asked, age>>
Returns(c) ==
  /\ call' = [call EXCEPT ![c] = NoCall]
  /\ asked' = [asked EXCEPT ![call[c].pin] = call[c].wish]
  /\ age' = [age EXCEPT ![call[c].pin] = 0]

Touchable(p) ==
  Careful => {i \in Having(State, p) : datas[i].mode = "SPECIAL" /\ datas[i].plan.over_cb = "remove"} = {}

Begin(c, p, w, slots, at) ==
  /\ call[c] = NoCall /\ Touchable(p) /\ slots # {}
  /\ call' = [call EXCEPT ![c] = [at |-> at, pin |-> p, idx |-> First(slots), wish |-> w]]
  /\ UNCHANGED <<datas, port, asked, age>>

(* qled_add: the slot of the pin, or an unused one.                            *)
AddToAny(p) == Having(State, None)    \* mutant: the pin is not looked for
AddTo(p) == IF Having(State, p) # {} THEN Having(State, p) ELSE Having(State, None)
AddBegin(c, p) == Begin(c, p, Wish("added", NoPlan), AddTo(p), "add_init")

AddInit(c) ==
  /\ Calling(c, "add_init")
  /\ Becomes(Write(PinMode(State, call[c].pin, TRUE), call[c].pin, FALSE))
  /\ GoesOn(c, "add_off")

AddOff(c) ==
  /\ Calling(c, "add_off")
  /\ Becomes(Write(State, call[c].pin, ~Wired[call[c].pin]))
  /\ GoesOn(c, "add_store")

AddStore(c) ==
  /\ Calling(c, "add_store")
  /\ datas' = [datas EXCEPT ![call[c].idx].pin = call[c].pin,
                            ![call[c].idx].level = Wired[call[c].pin]]
  /\ Returns(c)
  /\ UNCHANGED port

(* qled_remove.                                                                *)
RemoveBegin(c, p) == Begin(c, p, Removed, Having(State, p), "remove_deinit")

RemoveDeinit(c) ==
  /\ Calling(c, "remove_deinit")
  /\ Becomes(PinMode(State, call[c].pin, FALSE))
  /\ GoesOn(c, "remove_clear")

RemoveClear(c) ==
  /\ Calling(c, "remove_clear")
  /\ datas' = [datas EXCEPT ![call[c].idx].pin = None]
  /\ Returns(c)
  /\ UNCHANGED port

(* qled_set_off and qled_set_on.                                               *)
SetBegin(c, p) ==
  \E m \in {"OFF", "ON"} : Begin(c, p, Wish(m, NoPlan), Having(State, p), "set_mode")

SetMode(c) ==
  /\ Calling(c, "set_mode")
  /\ datas' = [datas EXCEPT ![call[c].idx] = Still(@, call[c].wish.mode)]
  /\ GoesOn(c, "set_switch")
  /\ UNCHANGED port

SetSwitch(c) ==
  /\ Calling(c, "set_switch")
  /\ Becomes(Write(State, call[c].pin, (call[c].wish.mode = "ON") = datas[call[c].idx].level))
  /\ Returns(c)

(* qled_set_blink and qled_set_special.                                        *)
RunBegin(c, p) ==
  \E plan \in Plans :
    Begin(c, p, Wish(IF "ton" \in DOMAIN plan THEN "BLINK" ELSE "SPECIAL", plan),
          Having(State, p), "set_run")

SetRun(c) ==
  /\ Calling(c, "set_run")
  /\ Becomes(SetIn(State, call[c].idx, call[c].wish))
  /\ Returns(c)

-----------------------------------------------------------------------------
(* qled_thread_entry: a pass, and the delay of one unit.                       *)
Tick ==
  /\ Becomes(Pass)
  /\ asked' = [p \in Pins |-> IF \E i \in Slots : datas[i].pin = p /\ datas'[i].pin = None
                              THEN Removed ELSE asked[p]]
  /\ age' = [p \in Pins |-> IF asked'[p] # asked[p] THEN 0 ELSE Older(asked[p], age[p])]
  /\ UNCHANGED call

(* qled_init: an empty table.                                                  *)
Init ==
  /\ datas = [i \in Slots |-> [pin |-> None, mode |-> "OFF", level |-> FALSE, idx |-> 0, cnt |-> 0,
                               plan |-> NoPlan]]
  /\ port = [p \in Pins |-> [out |-> FALSE, high |-> FALSE]]
  /\ call = [c \in Clients |-> NoCall]
  /\ asked = [p \in Pins |-> Removed]
  /\ age = [p \in Pins |-> 0]

Client(c) ==
  \/ \E p \in Pins : AddBegin(c, p) \/ RemoveBegin(c, p) \/ SetBegin(c, p) \/ RunBegin(c, p)
  \/ AddInit(c) \/ AddOff(c) \/ AddStore(c)
  \/ RemoveDeinit(c) \/ RemoveClear(c)
  \/ SetMode(c) \/ SetSwitch(c) \/ SetRun(c)

Next == Tick \/ \E c \in Clients : Client(c)

Spec == Init /\ [][Next]_vars

-----------------------------------------------------------------------------
Busy(p) == \E c \in Clients : call[c] # NoCall /\ call[c].pin = p

(* The table and the pins agree with what was asked for: an LED that was added *)
(* and not removed has exactly one slot, with the right level, and its pin is  *)
(* an output; any other pin has none and is not driven.                        *)
TableOK ==
  \A p \in Pins : ~Busy(p) =>
    IF asked[p].mode = "removed"
    THEN Having(State, p) = {} /\ ~port[p].out
    ELSE \E i \in Slots : /\ Having(State, p) = {i} /\ datas[i].level = Wired[p]
                          /\ port[p].out

(* Whatever passes come between the steps of the calls, for this LED and for   *)
(* others: an LED shows what the last call asked for, in every pass after it,  *)
(* with no time too long, too short or left out. (After qled_add it may show   *)
(* what the slot was used for before.)                                         *)
ShowsWhatWasAsked ==
  \A p \in Pins : ~Busy(p) /\ asked[p].mode # "added" => (Lit(p) <=> ShouldBeLit(asked[p], age[p]))
==============================================================================
