---------------------------- MODULE Events_proofs ----------------------------
(***************************************************************************)
(* The scheduler of Events keeps the calendar of Calendar, for every width *)
(* of the clock, every number of slots and every delay.                    *)
(***************************************************************************)
EXTENDS Events, TLAPS

(* ev_misc is set for the earliest one-shot event whenever no loop is on its way through the second table. *)
Covered ==
    pc \in {"cpu", "advance", "table", "timer"} =>
      \A s \in Slot : eventtab2[s] # None =>
         /\ eventtab[ev_misc] # None
         /\ Left(eventtab[ev_misc]) <= Left(eventtab2[s].time)

(* nextevent is no later than any timer, except while do_cycles_slow walks the table. *)
NextFirst ==
    (pc \in {"cpu", "advance"} \/ (pc \in {"misc", "func"} /\ back = "cpu")) =>
      \A k \in 0 .. ev_max - 1 : eventtab[k] # None => Left(nextevent) <= Left(eventtab[k])

(* mintime accounts for the slots that MISC_handler has passed, unless it will look again. *)
Passed ==
    (pc \in {"misc", "func"} /\ ~recheck /\ ~dorecheck) =>
      \A s \in Slot : (s < j /\ eventtab2[s] # None) => mintime <= Left(eventtab2[s].time)

(* The places of the loops. *)
Places ==
    /\ dorecheck => pc = "func"
    /\ pc = "func" => j < ev2_max
    /\ (pc = "timer" \/ (pc \in {"misc", "func"} /\ back # "cpu")) => i < ev_max

(* No one-shot event is further away than it was asked for. *)
SlotDelays == \A s \in Slot : eventtab2[s] # None => Left(eventtab2[s].time) <= MaxDelay

Inv == TypeOK /\ Covered /\ NextFirst /\ Passed /\ Places /\ SlotDelays
----------------------------------------------------------------------------
(* Unsigned arithmetic.  A difference is a time, and zero for equal times only. *)
LEMMA MinusTime ==
  ASSUME NEW t \in Time, NEW c \in Time
  PROVE  Minus(t, c) \in Time /\ (Minus(t, c) = 0 <=> t = c)
<1>1. Wrap \in Nat /\ Wrap > 0 BY EventsAssumption
<1>2. Minus(t, c) = IF t >= c THEN t - c ELSE t - c + Wrap BY <1>1 DEF Minus, Time
<1> QED BY <1>1, <1>2 DEF Time

(* A time that is d away is d later. *)
LEMMA PlusTime ==
  ASSUME NEW c \in Time, NEW d \in Time
  PROVE  Plus(c, d) \in Time /\ Minus(Plus(c, d), c) = d
<1>1. Wrap \in Nat /\ Wrap > 0 BY EventsAssumption
<1>2. Plus(c, d) = IF c + d < Wrap THEN c + d ELSE c + d - Wrap BY <1>1 DEF Plus, Time
<1>3. Plus(c, d) \in Time BY <1>1, <1>2 DEF Time
<1>4. Minus(Plus(c, d), c) = IF Plus(c, d) >= c THEN Plus(c, d) - c ELSE Plus(c, d) - c + Wrap
  BY <1>1, <1>3 DEF Minus, Time
<1> QED BY <1>1, <1>2, <1>3, <1>4 DEF Time

(* When the clock moves to n, a time that n does not pass comes closer by as much. *)
LEMMA Closer ==
  ASSUME NEW t \in Time, NEW c \in Time, NEW n \in Time, Minus(n, c) <= Minus(t, c)
  PROVE  Minus(t, n) = Minus(t, c) - Minus(n, c)
<1>1. Wrap \in Nat /\ Wrap > 0 BY EventsAssumption
<1>2. Minus(t, c) = IF t >= c THEN t - c ELSE t - c + Wrap BY <1>1 DEF Minus, Time
<1>3. Minus(n, c) = IF n >= c THEN n - c ELSE n - c + Wrap BY <1>1 DEF Minus, Time
<1>4. Minus(t, n) = IF t >= n THEN t - n ELSE t - n + Wrap BY <1>1 DEF Minus, Time
<1> QED BY <1>1, <1>2, <1>3, <1>4 DEF Time

(* The search for a slot goes around the dynamic slots only. *)
LEMMA PlaceDynamic ==
  ASSUME TypeOK, NEW k \in 0 .. ev2_max - ev2_misc - 1
  PROVE  Place(k) \in Dynamic
<1> DEFINE n == ev2_max - ev2_misc
<1>1. n \in Nat /\ n > 0 /\ ev2_misc \in Nat /\ ev2_max \in Nat BY EventsAssumption
<1>2. next - ev2_misc + k \in Nat BY <1>1 DEF TypeOK, Dynamic
<1>3. (next - ev2_misc + k) % n \in 0 .. n - 1 BY <1>1, <1>2
<1> QED BY <1>1, <1>3 DEF Place, Dynamic
----------------------------------------------------------------------------
(* The inductive step, one lemma for each action. *)

USE DEF ev_cia, ev_audio, ev_misc, ev_hsync, ev_max

(* events_schedule leaves nextevent at or before every timer of the new table. *)
LEMMA Schedules ==
  ASSUME TypeOK, NEW tab \in [0 .. ev_max - 1 -> Time \cup {None}], events_schedule(tab)
  PROVE  /\ nextevent' \in Time
         /\ \A k \in 0 .. ev_max - 1 :
              tab[k] # None => Minus(nextevent', currcycle) <= Minus(tab[k], currcycle)
<1> DEFINE lefts == {Left(tab[k]) : k \in {k \in DOMAIN tab : tab[k] # None}} \cup {Never}
<1>1. PICK m \in lefts : (\A l \in lefts : m <= l) /\ nextevent' = After(m)
  BY DEF events_schedule
<1>2. \A k \in 0 .. ev_max - 1 : tab[k] # None => Left(tab[k]) \in Time /\ Left(tab[k]) \in lefts
  BY MinusTime DEF Left, TypeOK
<1>3. Never \in Time BY EventsAssumption DEF Never, Time
<1>4. m \in Time
  <2>1. CASE m = Never BY <2>1, <1>3
  <2>2. CASE m # Never
    <3>1. PICK k \in DOMAIN tab : tab[k] # None /\ m = Left(tab[k]) BY <1>1, <2>2
    <3> QED BY <3>1, <1>2
  <2> QED BY <2>1, <2>2
<1>5. nextevent' \in Time /\ Minus(nextevent', currcycle) = m
  BY <1>1, <1>4, PlusTime DEF After, TypeOK
<1> QED BY <1>1, <1>2, <1>5 DEF Left

LEMMA EventsInitInv == EventsInit => Inv
<1> SUFFICES ASSUME EventsInit PROVE Inv OBVIOUS
<1>1. PICK t \in Delay : eventtab = [k \in 0 .. ev_max - 1 |-> IF k = ev_hsync THEN t ELSE None]
  BY DEF EventsInit
<1>2. Delay \subseteq Time /\ 0 \in Time /\ Never \in Time /\ ev2_misc \in Dynamic
  BY EventsAssumption DEF Delay, Time, Never, Dynamic
<1>3. eventtab[ev_hsync] = t BY <1>1
<1>4. TypeOK
  <2>1. eventtab \in [0 .. ev_max - 1 -> Time \cup {None}] BY <1>1, <1>2
  <2>2. eventtab2 \in [Slot -> [time : Time, func : Func \cup Own] \cup {None}] BY DEF EventsInit
  <2>3. nextevent \in Time /\ currcycle \in Time BY <1>2, <1>3 DEF EventsInit
  <2>4. next \in Dynamic /\ todo \in 0 .. MaxAdd /\ i \in 0 .. ev_max /\ j \in 0 .. ev2_max
    BY <1>2, EventsAssumption DEF EventsInit
  <2>5. pc \in {"cpu", "advance", "table", "timer", "misc", "func"} /\ back \in {"cpu", "table", "timer"}
        /\ mintime \in Time /\ recheck \in BOOLEAN /\ dorecheck \in BOOLEAN
    BY <1>2 DEF EventsInit
  <2> QED BY <2>1, <2>2, <2>3, <2>4, <2>5 DEF TypeOK
<1>5. Covered BY DEF EventsInit, Covered, Slot
<1>6. NextFirst
  <2> SUFFICES ASSUME NEW k \in 0 .. ev_max - 1, eventtab[k] # None
               PROVE  Left(nextevent) <= Left(eventtab[k])
    BY DEF NextFirst
  <2>1. k = ev_hsync BY <1>1
  <2>2. Left(nextevent) = Left(eventtab[k]) BY <2>1 DEF EventsInit
  <2>3. Left(eventtab[k]) \in Time BY <2>1, <1>2, <1>3, MinusTime DEF Left, EventsInit
  <2> QED BY <2>2, <2>3 DEF Time
<1>7. Passed /\ Places /\ SlotDelays BY DEF EventsInit, Passed, Places, SlotDelays
<1> QED BY <1>4, <1>5, <1>6, <1>7 DEF Inv

(* The clock moves from the CPU or to the next event: everything comes closer by the same, and nothing is passed over. *)
LEMMA ClockMoves ==
  ASSUME Inv, pc = "advance", currcycle' \in Time,
         Minus(currcycle', currcycle) <= Left(nextevent), UNCHANGED <<eventtab, eventtab2>>
  PROVE  /\ \A k \in 0 .. ev_max - 1 : eventtab[k] # None =>
              Left(eventtab[k])' = Left(eventtab[k]) - Minus(currcycle', currcycle)
         /\ \A s \in Slot : eventtab2[s] # None =>
              Left(eventtab2[s].time)' = Left(eventtab2[s].time) - Minus(currcycle', currcycle)
         /\ Left(nextevent) \in Time /\ Minus(currcycle', currcycle) \in Time
         /\ \A k \in 0 .. ev_max - 1 : eventtab[k] # None => Left(eventtab[k]) \in Time
         /\ \A s \in Slot : eventtab2[s] # None => Left(eventtab2[s].time) \in Time
<1>1. TypeOK BY DEF Inv
<1>2. \A t \in Time : Left(t) \in Time BY <1>1, MinusTime DEF Left, TypeOK
<1>3. \A k \in 0 .. ev_max - 1 : eventtab[k] # None => eventtab[k] \in Time BY <1>1 DEF TypeOK
<1>4. \A s \in Slot : eventtab2[s] # None => eventtab2[s].time \in Time BY <1>1 DEF TypeOK
<1>5. Left(nextevent) \in Time /\ Minus(currcycle', currcycle) \in Time
  BY <1>1, MinusTime DEF TypeOK, Left
<1>6. \A k \in 0 .. ev_max - 1 : eventtab[k] # None => Minus(currcycle', currcycle) <= Left(eventtab[k])
  BY <1>2, <1>3, <1>5 DEF Inv, NextFirst, Time
<1>7. \A s \in Slot : eventtab2[s] # None => Minus(currcycle', currcycle) <= Left(eventtab2[s].time)
  BY <1>2, <1>3, <1>4, <1>5, <1>6 DEF Inv, Covered, Time
<1>8. \A t \in Time : Minus(currcycle', currcycle) <= Left(t) =>
        Minus(t, currcycle') = Left(t) - Minus(currcycle', currcycle)
  BY <1>1, Closer DEF TypeOK, Left
<1>9. \A k \in 0 .. ev_max - 1 : eventtab[k] # None =>
        Left(eventtab[k])' = Left(eventtab[k]) - Minus(currcycle', currcycle)
  BY <1>3, <1>6, <1>8 DEF Left
<1>10. \A s \in Slot : eventtab2[s] # None =>
        Left(eventtab2[s].time)' = Left(eventtab2[s].time) - Minus(currcycle', currcycle)
  BY <1>4, <1>7, <1>8 DEF Left
<1> QED BY <1>2, <1>3, <1>4, <1>5, <1>9, <1>10

LEMMA AdvanceInv == Inv /\ Advance => Inv'
<1> SUFFICES ASSUME Inv, Advance PROVE Inv' OBVIOUS
<1> DEFINE d == Minus(currcycle', currcycle)
<1>1. TypeOK /\ pc = "advance" /\ currcycle' = nextevent /\ UNCHANGED <<eventtab, eventtab2>>
  BY DEF Advance, Inv, tables
<1>2. d = Left(nextevent) /\ d \in Time /\ d <= todo
  BY <1>1, MinusTime DEF Left, TypeOK, Advance, Reached
<1>3. /\ \A s \in Slot : eventtab2[s] # None =>
            /\ Left(eventtab2[s].time)' = Left(eventtab2[s].time) - d
            /\ Left(eventtab2[s].time) \in Time
      /\ \A k \in 0 .. ev_max - 1 : eventtab[k] # None =>
            /\ Left(eventtab[k])' = Left(eventtab[k]) - d
            /\ Left(eventtab[k]) \in Time
  BY <1>1, <1>2, ClockMoves DEF TypeOK, Time
<1>4. TypeOK'
  <2>1. todo' = todo - Left(nextevent) BY DEF Advance
  <2>2. todo \in 0 .. MaxAdd /\ Left(nextevent) \in Nat /\ Left(nextevent) <= todo
    BY <1>1, <1>2, EventsAssumption DEF TypeOK, Time
  <2>3. todo' \in 0 .. MaxAdd BY <2>1, <2>2, EventsAssumption
  <2> QED BY <1>1, <2>3 DEF Advance, TypeOK, tables, misc
<1>5. Covered' BY <1>1, <1>2, <1>3 DEF Covered, Inv, Time
<1>6. NextFirst' BY DEF NextFirst, Advance
<1>7. Passed' /\ Places' BY DEF Passed, Places, Inv, Advance, misc
<1>8. SlotDelays' BY <1>1, <1>2, <1>3, EventsAssumption DEF SlotDelays, Inv, Time
<1> QED BY <1>4, <1>5, <1>6, <1>7, <1>8 DEF Inv

LEMMA AddRestInv == Inv /\ AddRest => Inv'
<1> SUFFICES ASSUME Inv, AddRest PROVE Inv' OBVIOUS
<1>1. /\ TypeOK /\ pc = "advance" /\ pc' = "cpu" /\ UNCHANGED <<nextevent, eventtab, eventtab2>>
      /\ currcycle' = Plus(currcycle, todo)
  BY DEF AddRest, Inv, tables, After
<1>2. Left(nextevent) \in Time /\ todo \in Time /\ todo < Left(nextevent)
  <2>1. Left(nextevent) \in Time BY <1>1, MinusTime DEF Left, TypeOK
  <2> QED BY <1>1, <2>1, EventsAssumption DEF AddRest, Reached, TypeOK, Time
<1>3. currcycle' \in Time /\ Minus(currcycle', currcycle) = todo
  BY <1>1, <1>2, PlusTime DEF TypeOK
<1>4. Left(nextevent)' = Left(nextevent) - todo
  BY <1>1, <1>2, <1>3, Closer, EventsAssumption DEF Left, TypeOK, Time
<1>5. Minus(currcycle', currcycle) <= Left(nextevent)
  BY <1>2, <1>3, EventsAssumption DEF Time
<1>6. /\ \A s \in Slot : eventtab2[s] # None =>
            /\ Left(eventtab2[s].time)' = Left(eventtab2[s].time) - todo
            /\ Left(eventtab2[s].time) \in Time
      /\ \A k \in 0 .. ev_max - 1 : eventtab[k] # None =>
            /\ Left(eventtab[k])' = Left(eventtab[k]) - todo
            /\ Left(eventtab[k]) \in Time
  BY <1>1, <1>3, <1>5, ClockMoves
<1>7. TypeOK' BY <1>1, <1>3, EventsAssumption DEF AddRest, TypeOK, tables, misc
<1>8. Covered' BY <1>1, <1>2, <1>6 DEF Covered, Inv, Time
<1>9. NextFirst'
  <2> SUFFICES ASSUME NEW k \in 0 .. ev_max - 1, eventtab[k] # None
               PROVE  Left(nextevent)' <= Left(eventtab[k])'
    BY <1>1 DEF NextFirst
  <2>1. Left(nextevent) <= Left(eventtab[k]) BY <1>1 DEF Inv, NextFirst
  <2> QED BY <2>1, <1>2, <1>4, <1>6, EventsAssumption DEF Time
<1>10. Passed' /\ Places' BY <1>1 DEF Passed, Places, Inv, AddRest, misc
<1>11. SlotDelays' BY <1>1, <1>2, <1>6, EventsAssumption DEF SlotDelays, Inv, Time
<1> QED BY <1>7, <1>8, <1>9, <1>10, <1>11 DEF Inv

(* Steps of the loop over the timers change neither table. *)
LEMMA TableInv == Inv /\ (Spend \/ SyncWait \/ CallTimer \/ TimerReturns) => Inv'
<1> SUFFICES ASSUME Inv, Spend \/ SyncWait \/ CallTimer \/ TimerReturns PROVE Inv' OBVIOUS
<1>1. /\ UNCHANGED <<clock, tables, misc>> /\ pc \in {"cpu", "advance", "table", "timer"}
      /\ pc' \in {"cpu", "advance", "table", "timer"}
      /\ pc' \in {"cpu", "advance"} => pc \in {"cpu", "advance"}
  BY DEF Spend, do_cycles_slow, SyncWait, CallTimer, TimerReturns
<1>2. UNCHANGED <<currcycle, nextevent, eventtab, eventtab2, next, back, j, mintime, recheck, dorecheck>>
  BY <1>1 DEF clock, tables, misc
<1>3. todo' \in 0 .. MaxAdd /\ i' \in 0 .. ev_max /\ (pc' = "timer" => i' < ev_max)
  BY EventsAssumption DEF Inv, TypeOK, Places, Spend, do_cycles_slow, SyncWait, CallTimer,
     TimerReturns, loop, misc
<1>4. TypeOK' BY <1>1, <1>2, <1>3 DEF Inv, TypeOK
<1>5. Covered' BY <1>1, <1>2 DEF Inv, Covered, Left
<1>6. NextFirst' BY <1>1, <1>2 DEF Inv, NextFirst, Left
<1>7. Passed' /\ SlotDelays' BY <1>1, <1>2 DEF Inv, Passed, SlotDelays, Left
<1>8. Places' BY <1>1, <1>2, <1>3 DEF Inv, Places
<1> QED BY <1>4, <1>5, <1>6, <1>7, <1>8 DEF Inv

LEMMA EndOfTableInv == Inv /\ EndOfTable => Inv'
<1> SUFFICES ASSUME Inv, EndOfTable PROVE Inv' OBVIOUS
<1>1. /\ UNCHANGED <<currcycle, eventtab, eventtab2, next, todo, back, j, mintime, recheck, dorecheck>>
      /\ TypeOK /\ events_schedule(eventtab) /\ pc = "table" /\ pc' = "advance" /\ i' = 0
  BY DEF EndOfTable, tables, misc, Inv
<1>2. /\ nextevent' \in Time
      /\ \A k \in 0 .. ev_max - 1 :
           eventtab[k] # None => Minus(nextevent', currcycle) <= Minus(eventtab[k], currcycle)
  BY <1>1, Schedules DEF TypeOK
<1>3. TypeOK' BY <1>1, <1>2 DEF TypeOK
<1>4. Covered' BY <1>1 DEF Inv, Covered, Left
<1>5. NextFirst' BY <1>1, <1>2 DEF NextFirst, Left
<1>6. Passed' /\ SlotDelays' /\ Places' BY <1>1 DEF Inv, Passed, SlotDelays, Places, Left
<1> QED BY <1>3, <1>4, <1>5, <1>6 DEF Inv

(* MISC_handler begins: neither of its own results is used yet. *)
LEMMA MiscBegins ==
  ASSUME Inv, NEW from \in {"cpu", "table", "timer"}, MISC_handler(from),
         from = "cpu" => pc = "cpu", ~dorecheck,
         UNCHANGED <<currcycle, nextevent, todo>>,
         i' \in 0 .. ev_max, from # "cpu" => i' < ev_max,
         next' \in Dynamic,
         eventtab2' \in [Slot -> [time : Time, func : Func \cup Own] \cup {None}],
         SlotDelays'
  PROVE  Inv'
<1>1. TypeOK'
  <2>1. eventtab' \in [0 .. ev_max - 1 -> Time \cup {None}] BY DEF Inv, TypeOK, MISC_handler
  <2>2. mintime' \in Time /\ j' \in 0 .. ev2_max
    BY EventsAssumption DEF MISC_handler, Never, Time
  <2>3. /\ currcycle' \in Time /\ nextevent' \in Time /\ todo' \in 0 .. MaxAdd
        /\ pc' = "misc" /\ back' \in {"cpu", "table", "timer"}
        /\ recheck' \in BOOLEAN /\ dorecheck' \in BOOLEAN
    BY DEF Inv, TypeOK, MISC_handler
  <2> QED BY <2>1, <2>2, <2>3 DEF TypeOK
<1>2. Covered' /\ Passed' /\ Places'
  BY EventsAssumption DEF Covered, Passed, Places, MISC_handler, Slot
<1>3. NextFirst'
  <2> SUFFICES ASSUME from = "cpu", NEW k \in 0 .. ev_max - 1, eventtab'[k] # None
               PROVE  Left(nextevent)' <= Left(eventtab[k])'
    BY DEF NextFirst, MISC_handler
  <2>1. eventtab'[k] = eventtab[k] BY DEF MISC_handler, Inv, TypeOK
  <2>2. Left(nextevent) <= Left(eventtab[k]) BY <2>1 DEF Inv, NextFirst
  <2> QED BY <2>1, <2>2 DEF Left
<1> QED BY <1>1, <1>2, <1>3 DEF Inv

LEMMA CallMiscInv == Inv /\ CallMisc => Inv'
<1> SUFFICES ASSUME Inv, CallMisc PROVE Inv' OBVIOUS
<1>1. /\ MISC_handler("table") /\ UNCHANGED <<currcycle, nextevent, todo, eventtab2, next>>
      /\ i' = 2 /\ pc = "table"
  BY DEF CallMisc, clock
<1>2. ~dorecheck BY <1>1 DEF Inv, Places
<1>3. SlotDelays' BY <1>1 DEF Inv, SlotDelays, Left
<1> QED BY <1>1, <1>2, <1>3, MiscBegins DEF Inv, TypeOK

LEMMA LookInv == Inv /\ Look => Inv'
<1> SUFFICES ASSUME Inv, Look PROVE Inv' OBVIOUS
<1>1. /\ TypeOK /\ pc = "misc" /\ j < ev2_max /\ j \in Slot
      /\ UNCHANGED <<currcycle, nextevent, eventtab, next, todo, i, back, recheck, dorecheck>>
  BY EventsAssumption DEF Look, clock, loop, Inv, TypeOK, Slot
<1>2. CASE eventtab2[j] = None /\ j' = j + 1 /\ UNCHANGED <<pc, eventtab2, mintime>>
  <2>1. TypeOK'
    <3>1. j' \in 0 .. ev2_max BY <1>1, <1>2, EventsAssumption DEF Slot
    <3> QED BY <3>1, <1>1, <1>2 DEF TypeOK
  <2>2. Covered' /\ Places' BY <1>1, <1>2 DEF Covered, Places, Inv
  <2>3. NextFirst' BY <1>1, <1>2 DEF NextFirst, Inv, Left
  <2>4. Passed' BY <1>1, <1>2, EventsAssumption DEF Passed, Inv, Left, Slot
  <2>5. SlotDelays' BY <1>1, <1>2 DEF SlotDelays, Inv, Left
  <2> QED BY <2>1, <2>2, <2>3, <2>4, <2>5 DEF Inv
<1>3. CASE /\ eventtab2[j] # None /\ j' = j + 1 /\ UNCHANGED <<pc, eventtab2>>
           /\ mintime' = IF Left(eventtab2[j].time) < mintime
                         THEN Left(eventtab2[j].time) ELSE mintime
  <2>0. /\ mintime' \in Time /\ mintime' <= mintime /\ mintime' <= Left(eventtab2[j].time)
        /\ mintime \in Time
        /\ \A s \in Slot : eventtab2[s] # None => Left(eventtab2[s].time) \in Time
    <3>1. \A s \in Slot : eventtab2[s] # None => Left(eventtab2[s].time) \in Time
      BY <1>1, MinusTime DEF Left, TypeOK
    <3> QED BY <3>1, <1>1, <1>3, EventsAssumption DEF TypeOK, Time
  <2>1. TypeOK'
    <3>1. j' \in 0 .. ev2_max BY <1>1, <1>3, EventsAssumption DEF Slot
    <3> QED BY <3>1, <1>1, <1>3, <2>0 DEF TypeOK
  <2>2. Covered' /\ Places' BY <1>1, <1>3 DEF Covered, Places, Inv
  <2>3. NextFirst' BY <1>1, <1>3 DEF NextFirst, Inv, Left
  <2>4. Passed'
    <3> SUFFICES ASSUME ~recheck, ~dorecheck, NEW s \in Slot, s < j + 1, eventtab2[s] # None
                 PROVE  mintime' <= Left(eventtab2[s].time)
      BY <1>1, <1>3 DEF Passed, Left
    <3>1. CASE s = j BY <3>1, <2>0
    <3>2. CASE s # j
      <4>1. s < j BY <3>2, <1>1, EventsAssumption DEF Slot
      <4>2. mintime <= Left(eventtab2[s].time) BY <4>1, <1>1 DEF Inv, Passed
      <4> QED BY <4>2, <2>0, EventsAssumption DEF Time
    <3> QED BY <3>1, <3>2
  <2>5. SlotDelays' BY <1>1, <1>3 DEF SlotDelays, Inv, Left
  <2> QED BY <2>1, <2>2, <2>3, <2>4, <2>5 DEF Inv
<1>4. CASE /\ eventtab2' = [eventtab2 EXCEPT ![j] = None] /\ pc' = "func" /\ UNCHANGED <<j, mintime>>
  <2>1. TypeOK'
    <3>1. eventtab2' \in [Slot -> [time : Time, func : Func \cup Own] \cup {None}]
      BY <1>1, <1>4 DEF TypeOK
    <3> QED BY <3>1, <1>1, <1>4 DEF TypeOK
  <2>2. Covered' /\ Places' BY <1>1, <1>4 DEF Covered, Places, Inv
  <2>3. NextFirst' BY <1>1, <1>4 DEF NextFirst, Inv, Left
  <2>4. \A s \in Slot : eventtab2'[s] # None => eventtab2[s] # None /\ eventtab2'[s] = eventtab2[s]
    BY <1>1, <1>4 DEF TypeOK
  <2>5. Passed' BY <1>1, <1>4, <2>4 DEF Passed, Inv, Left
  <2>6. SlotDelays' BY <1>1, <1>4, <2>4 DEF SlotDelays, Inv, Left
  <2> QED BY <2>1, <2>2, <2>3, <2>5, <2>6 DEF Inv
<1> QED BY <1>2, <1>3, <1>4 DEF Look

LEMMA FuncReturnsInv == Inv /\ FuncReturns => Inv'
<1> SUFFICES ASSUME Inv, FuncReturns PROVE Inv' OBVIOUS
<1>1. /\ TypeOK /\ pc = "func" /\ pc' = "misc" /\ j' = j + 1 /\ j \in Slot
      /\ UNCHANGED <<currcycle, nextevent, eventtab, eventtab2, next, todo, i, back, mintime>>
  BY EventsAssumption DEF FuncReturns, clock, tables, loop, Inv, TypeOK, Places, Slot
<1>2. /\ recheck' \in BOOLEAN /\ dorecheck' = FALSE
      /\ ~recheck' => ~recheck /\ ~dorecheck /\ eventtab2[j] = None
  BY DEF FuncReturns, Recheck, Inv, TypeOK
<1>3. TypeOK'
  <2>1. j' \in 0 .. ev2_max BY <1>1, EventsAssumption DEF Slot
  <2> QED BY <2>1, <1>1, <1>2 DEF TypeOK
<1>4. Covered' /\ Places' BY <1>1, <1>2 DEF Covered, Places, Inv
<1>5. NextFirst' BY <1>1 DEF NextFirst, Inv, Left
<1>6. Passed' BY <1>1, <1>2, EventsAssumption DEF Passed, Inv, Left, Slot
<1>7. SlotDelays' BY <1>1 DEF SlotDelays, Inv, Left
<1> QED BY <1>3, <1>4, <1>5, <1>6, <1>7 DEF Inv

LEMMA LookAgainInv == Inv /\ LookAgain => Inv'
<1> SUFFICES ASSUME Inv, LookAgain PROVE Inv' OBVIOUS
<1>1. /\ TypeOK /\ pc = "misc" /\ recheck' = FALSE /\ mintime' = Never /\ j' = 0
      /\ UNCHANGED <<currcycle, nextevent, eventtab, eventtab2, next, pc, todo, i, back, dorecheck>>
  BY DEF LookAgain, clock, tables, loop, Inv
<1>2. TypeOK'
  <2>1. j' \in 0 .. ev2_max /\ mintime' \in Time BY <1>1, EventsAssumption DEF Never, Time
  <2> QED BY <2>1, <1>1 DEF TypeOK
<1>3. Covered' /\ Places' BY <1>1 DEF Covered, Places, Inv
<1>4. NextFirst' BY <1>1 DEF NextFirst, Inv, Left
<1>5. Passed' BY <1>1, EventsAssumption DEF Passed, Slot
<1>6. SlotDelays' BY <1>1 DEF SlotDelays, Inv, Left
<1> QED BY <1>2, <1>3, <1>4, <1>5, <1>6 DEF Inv

LEMMA MiscReturnsInv == Inv /\ MiscReturns => Inv'
<1> SUFFICES ASSUME Inv, MiscReturns PROVE Inv' OBVIOUS
<1>1. /\ TypeOK /\ pc = "misc" /\ j = ev2_max /\ ~recheck /\ pc' = back
      /\ back' = "cpu" /\ j' = 0 /\ mintime' = Never
      /\ UNCHANGED <<currcycle, eventtab2, next, todo, recheck, dorecheck>>
      /\ ~dorecheck
  BY DEF MiscReturns, Inv, Places
<1>2. \A s \in Slot : eventtab2[s] # None =>
        /\ mintime <= Left(eventtab2[s].time) /\ mintime # Never
        /\ Left(eventtab2[s].time) \in Time
  <2> SUFFICES ASSUME NEW s \in Slot, eventtab2[s] # None
               PROVE  /\ mintime <= Left(eventtab2[s].time) /\ mintime # Never
                      /\ Left(eventtab2[s].time) \in Time
    OBVIOUS
  <2>1. mintime <= Left(eventtab2[s].time)
    BY <1>1, EventsAssumption DEF Inv, Passed, Slot
  <2>2. Left(eventtab2[s].time) \in Time BY <1>1, MinusTime DEF Left, TypeOK
  <2>3. Left(eventtab2[s].time) <= MaxDelay BY DEF Inv, SlotDelays
  <2> QED BY <1>1, <2>1, <2>2, <2>3, EventsAssumption DEF Never, Time, TypeOK
<1>3. i' \in 0 .. ev_max
  <2>1. back = "table" => i < ev_max BY <1>1 DEF Inv, Places
  <2> QED BY <2>1, <1>1 DEF MiscReturns, TypeOK
<1>4. pc' = "timer" => i' < ev_max BY <1>1 DEF MiscReturns, Inv, Places
<1>5. j' \in 0 .. ev2_max /\ mintime' \in Time BY <1>1, EventsAssumption DEF Never, Time
<1>6. Passed' /\ Places' BY <1>1, <1>4, EventsAssumption DEF Passed, Places, Slot, TypeOK
<1>7. SlotDelays' BY <1>1 DEF SlotDelays, Inv, Left
<1>8. CASE mintime # Never
  <2>1. /\ eventtab' = [eventtab EXCEPT ![ev_misc] = After(mintime)]
        /\ events_schedule(eventtab')
    BY <1>8 DEF MiscReturns
  <2>2. After(mintime) \in Time /\ Minus(After(mintime), currcycle) = mintime
    BY <1>1, PlusTime DEF After, TypeOK
  <2>3. eventtab' \in [0 .. ev_max - 1 -> Time \cup {None}] /\ eventtab'[ev_misc] = After(mintime)
    BY <1>1, <2>1, <2>2 DEF TypeOK
  <2>4. /\ nextevent' \in Time
        /\ \A k \in 0 .. ev_max - 1 :
             eventtab'[k] # None => Minus(nextevent', currcycle) <= Minus(eventtab'[k], currcycle)
    <3> DEFINE tab == [eventtab EXCEPT ![ev_misc] = After(mintime)]
    <3>1. events_schedule(tab) /\ tab \in [0 .. ev_max - 1 -> Time \cup {None}] BY <2>1, <2>3
    <3> HIDE DEF tab
    <3>2. /\ nextevent' \in Time
          /\ \A k \in 0 .. ev_max - 1 :
               tab[k] # None => Minus(nextevent', currcycle) <= Minus(tab[k], currcycle)
      BY <3>1, <1>1, Schedules
    <3> QED BY <3>2, <2>1 DEF tab
  <2>5. TypeOK' BY <1>1, <1>3, <1>5, <2>3, <2>4 DEF TypeOK
  <2>6. Covered'
    <3>1. After(mintime) # None BY <2>2, EventsAssumption
    <3> QED BY <1>1, <1>2, <2>2, <2>3, <3>1 DEF Covered, Left
  <2>7. NextFirst' BY <1>1, <2>4 DEF NextFirst, Left
  <2> QED BY <1>6, <1>7, <2>5, <2>6, <2>7 DEF Inv
<1>9. CASE mintime = Never
  <2>1. UNCHANGED <<eventtab, nextevent>> BY <1>9 DEF MiscReturns
  <2>2. TypeOK' BY <1>1, <1>3, <1>5, <2>1 DEF TypeOK
  <2>3. Covered' BY <1>1, <1>2, <1>9 DEF Covered
  <2>4. NextFirst' BY <1>1, <2>1, EventsAssumption DEF NextFirst, Inv, Left, TypeOK
  <2> QED BY <1>6, <1>7, <2>2, <2>3, <2>4 DEF Inv
<1> QED BY <1>8, <1>9

(* A timer is set or stopped, and nextevent follows. *)
LEMMA RearmInv ==
  ASSUME Inv, NEW k \in 0 .. ev_max - 1, k # ev_misc, NEW when \in Time \cup {None},
         Rearm(k, when)
  PROVE  Inv'
<1>1. /\ TypeOK /\ eventtab' = [eventtab EXCEPT ![k] = when] /\ events_schedule(eventtab')
      /\ UNCHANGED <<currcycle, eventtab2, next, pc, todo, i, back, j, mintime, recheck, dorecheck>>
  BY DEF Rearm, Inv, loop, misc
<1> DEFINE tab == [eventtab EXCEPT ![k] = when]
<1>2. events_schedule(tab) /\ tab \in [0 .. ev_max - 1 -> Time \cup {None}] /\ eventtab' = tab
  BY <1>1 DEF TypeOK
<1>3. tab[ev_misc] = eventtab[ev_misc] BY <1>1 DEF TypeOK
<1> HIDE DEF tab
<1>4. /\ nextevent' \in Time
      /\ \A l \in 0 .. ev_max - 1 :
           tab[l] # None => Minus(nextevent', currcycle) <= Minus(tab[l], currcycle)
  BY <1>1, <1>2, Schedules
<1>5. TypeOK' BY <1>1, <1>2, <1>4 DEF TypeOK
<1>6. Covered' BY <1>1, <1>2, <1>3 DEF Covered, Inv, Left
<1>7. NextFirst' BY <1>1, <1>2, <1>4 DEF NextFirst, Left
<1>8. Passed' /\ Places' /\ SlotDelays' BY <1>1 DEF Passed, Places, SlotDelays, Inv, Left
<1> QED BY <1>5, <1>6, <1>7, <1>8 DEF Inv

LEMMA SetHposInv == Inv /\ set_hpos => Inv'
<1> SUFFICES ASSUME Inv, set_hpos PROVE Inv' OBVIOUS
<1>1. PICK t \in Delay : eventtab' = [eventtab EXCEPT ![ev_hsync] = After(t)] BY DEF set_hpos
<1>2. /\ TypeOK /\ pc = "timer"
      /\ UNCHANGED <<currcycle, nextevent, eventtab2, next, pc, todo, i, back, j, mintime, recheck, dorecheck>>
  BY DEF set_hpos, Inv, clock, loop, misc
<1>3. After(t) \in Time
  <2>1. t \in Time BY EventsAssumption DEF Delay, Time
  <2> QED BY <1>2, <2>1, PlusTime DEF After, TypeOK
<1>4. eventtab' \in [0 .. ev_max - 1 -> Time \cup {None}] /\ eventtab'[ev_misc] = eventtab[ev_misc]
  BY <1>1, <1>2, <1>3 DEF TypeOK
<1>5. TypeOK' BY <1>2, <1>4 DEF TypeOK
<1>6. Covered' BY <1>2, <1>4 DEF Covered, Inv, Left
<1>7. NextFirst' BY <1>2 DEF NextFirst
<1>8. Passed' /\ Places' /\ SlotDelays' BY <1>2 DEF Passed, Places, SlotDelays, Inv, Left
<1> QED BY <1>5, <1>6, <1>7, <1>8 DEF Inv

(* A slot receives an event, and MISC_handler is called or told. *)
LEMMA EnterInv ==
  ASSUME Inv, Hardware, NEW s \in Slot, NEW t \in Delay, NEW f \in Func \cup Own,
         eventtab2' = [eventtab2 EXCEPT ![s] = Event(t, f)], Inform,
         next' \in Dynamic, UNCHANGED <<clock, loop>>
  PROVE  Inv'
<1>1. /\ TypeOK /\ pc \in {"cpu", "timer", "func"}
      /\ UNCHANGED <<currcycle, nextevent, todo, i>>
  BY DEF Inv, Hardware, clock, loop
<1>2. After(t) \in Time /\ Minus(After(t), currcycle) = t /\ t <= MaxDelay
  BY <1>1, PlusTime, EventsAssumption DEF After, TypeOK, Delay, Time
<1>3. /\ eventtab2' \in [Slot -> [time : Time, func : Func \cup Own] \cup {None}]
      /\ eventtab2'[s].time = After(t)
      /\ \A r \in Slot \ {s} : eventtab2'[r] = eventtab2[r]
  BY <1>1, <1>2 DEF TypeOK, Event
<1>4. SlotDelays' BY <1>1, <1>2, <1>3 DEF SlotDelays, Inv, Left
<1>5. CASE pc = "func"
  <2>1. dorecheck' = TRUE /\ UNCHANGED <<eventtab, pc, back, j, mintime, recheck>>
    BY <1>5 DEF Inform
  <2>2. TypeOK' BY <1>1, <1>3, <2>1 DEF TypeOK
  <2>3. Covered' /\ Passed' /\ Places' BY <1>1, <1>5, <2>1 DEF Covered, Passed, Places, Inv
  <2>4. NextFirst' BY <1>1, <2>1 DEF NextFirst, Inv, Left
  <2> QED BY <1>4, <2>2, <2>3, <2>4 DEF Inv
<1>6. CASE pc # "func"
  <2>1. MISC_handler(pc) BY <1>6 DEF Inform
  <2>2. ~dorecheck /\ (pc = "timer" => i < ev_max) BY <1>6 DEF Inv, Places
  <2>3. pc \in {"cpu", "table", "timer"} /\ i' \in 0 .. ev_max /\ (pc # "cpu" => i' < ev_max)
    BY <1>1, <1>6, <2>2 DEF TypeOK
  <2> QED BY <1>1, <1>3, <1>4, <2>1, <2>2, <2>3, MiscBegins
<1> QED BY <1>5, <1>6

LEMMA HardwareInv == Inv /\ HardwareCalls => Inv'
<1> SUFFICES ASSUME Inv, HardwareCalls PROVE Inv' OBVIOUS
<1>1. TypeOK /\ Hardware BY DEF Inv, HardwareCalls
<1>2. \A t \in Delay : After(t) \in Time
  <2> SUFFICES ASSUME NEW t \in Delay PROVE After(t) \in Time OBVIOUS
  <2>1. t \in Time BY EventsAssumption DEF Delay, Time
  <2> QED BY <1>1, <2>1, PlusTime DEF After, TypeOK
<1>3. Own \subseteq Slot /\ Dynamic \subseteq Slot BY EventsAssumption DEF Own, Dynamic, Slot
<1>4. ASSUME NEW t \in Delay, NEW f \in Func, event2_newevent_xx(t, f) PROVE Inv'
  <2>1. CASE /\ \A s \in Dynamic : ~WillDo(s, Event(t, f))
             /\ UNCHANGED <<tables, pc, misc>> /\ UNCHANGED <<clock, loop>>
    <3>1. UNCHANGED <<currcycle, nextevent, eventtab, eventtab2, next, pc, todo, i, back, j, mintime,
                      recheck, dorecheck>>
      BY <2>1 DEF tables, misc, clock, loop
    <3> QED BY <3>1 DEF Inv, TypeOK, Covered, NextFirst, Passed, Places, SlotDelays, Left
  <2>2. CASE /\ UNCHANGED <<clock, loop>>
             /\ \E k \in 0 .. ev2_max - ev2_misc - 1 :
                  /\ next' = Place(k) /\ Inform
                  /\ eventtab2' = [eventtab2 EXCEPT ![Place(k)] = Event(t, f)]
    <3>1. PICK k \in 0 .. ev2_max - ev2_misc - 1 :
            /\ next' = Place(k) /\ Inform
            /\ eventtab2' = [eventtab2 EXCEPT ![Place(k)] = Event(t, f)]
      BY <2>2
    <3>2. Place(k) \in Dynamic /\ Place(k) \in Slot BY <1>1, <1>3, PlaceDynamic
    <3> QED BY <1>1, <2>2, <3>1, <3>2, EnterInv
  <2> QED BY <1>4, <2>1, <2>2 DEF event2_newevent_xx
<1>5. ASSUME NEW no \in Own, NEW t \in Delay, event2_newevent(no, t) PROVE Inv'
  <2>1. no \in Slot /\ Inform /\ eventtab2' = [eventtab2 EXCEPT ![no] = Event(t, no)]
        /\ next' \in Dynamic /\ UNCHANGED <<clock, loop>>
    BY <1>1, <1>3, <1>5 DEF event2_newevent, TypeOK
  <2> QED BY <1>1, <2>1, EnterInv
<1>6. ASSUME NEW no \in Own, event2_remevent(no) PROVE Inv'
  <2>1. /\ no \in Slot /\ eventtab2' = [eventtab2 EXCEPT ![no] = None]
        /\ UNCHANGED <<currcycle, nextevent, eventtab, next, pc, todo, i, back, j, mintime, recheck, dorecheck>>
    BY <1>3, <1>6 DEF event2_remevent, clock, loop, misc
  <2>2. eventtab2' \in [Slot -> [time : Time, func : Func \cup Own] \cup {None}]
    BY <1>1, <2>1 DEF TypeOK
  <2>3. \A s \in Slot : eventtab2'[s] # None => eventtab2[s] # None /\ eventtab2'[s] = eventtab2[s]
    BY <1>1, <2>1 DEF TypeOK
  <2>4. TypeOK' BY <1>1, <2>1, <2>2 DEF TypeOK
  <2>5. Covered' BY <2>1, <2>3 DEF Covered, Inv, Left
  <2>6. NextFirst' BY <2>1 DEF NextFirst, Inv, Left
  <2>7. Passed' BY <2>1, <2>3 DEF Passed, Inv, Left
  <2>8. Places' /\ SlotDelays' BY <2>1, <2>3 DEF Places, SlotDelays, Inv, Left
  <2> QED BY <2>4, <2>5, <2>6, <2>7, <2>8 DEF Inv
<1>7. ASSUME ArmTimer PROVE Inv'
  <2>1. PICK k \in Used \ {ev_hsync}, when \in Time \cup {None} : Rearm(k, when)
    BY <1>2, <1>7 DEF ArmTimer
  <2>2. k \in 0 .. ev_max - 1 /\ k # ev_misc BY EventsAssumption
  <2> QED BY <2>1, <2>2, RearmInv
<1>8. ASSUME MoveLine PROVE Inv'
  <2>1. PICK t \in Delay : Rearm(ev_hsync, After(t)) BY <1>8 DEF MoveLine
  <2> QED BY <1>2, <2>1, RearmInv
<1> QED BY <1>4, <1>5, <1>6, <1>7, <1>8 DEF HardwareCalls

LEMMA EventsStepInv == Inv /\ [EventsNext]_vars => Inv'
<1> SUFFICES ASSUME Inv, [EventsNext]_vars PROVE Inv' OBVIOUS
<1>1. CASE UNCHANGED vars
  <2>1. UNCHANGED <<currcycle, nextevent, eventtab, eventtab2, next, pc, todo, i, back, j, mintime,
                    recheck, dorecheck>>
    BY <1>1 DEF vars, tables, misc, clock, loop
  <2> QED BY <2>1 DEF Inv, TypeOK, Covered, NextFirst, Passed, Places, SlotDelays, Left
<1>2. CASE EventsNext
  BY <1>2, TableInv, AdvanceInv, AddRestInv, CallMiscInv, EndOfTableInv, LookInv, FuncReturnsInv,
     LookAgainInv, MiscReturnsInv, SetHposInv, HardwareInv DEF EventsNext, Loops
<1> QED BY <1>1, <1>2

(* The invariant of the scheduler: the types, and the bookkeeping that keeps every event in sight. *)
THEOREM EventsInvariant == EventsSpec => []Inv
  BY EventsInitInv, EventsStepInv, PTL DEF EventsSpec

(* Types, for every width of the clock and number of slots. *)
THEOREM EventsTyping == EventsSpec => []TypeOK
<1>1. Inv => TypeOK BY DEF Inv
<1> QED BY <1>1, EventsInvariant, PTL
----------------------------------------------------------------------------
(* The refinement: what each action does to the calendar. *)

(* The calendar at a timer and at a slot. *)
LEMMA PendingAt ==
  /\ Pending = [e \in Entries |-> Pending[e]]
  /\ \A k \in Used : /\ Timer(k) \in Entries
                     /\ Pending[Timer(k)] = IF eventtab[k] = None THEN None
                                            ELSE Entered(eventtab[k], ev_max)
  /\ \A s \in Slot : /\ SlotEntry(s) \in Entries
                     /\ Pending[SlotEntry(s)] = IF eventtab2[s] = None THEN None
                          ELSE Entered(eventtab2[s].time, eventtab2[s].func)
<1>1. \A k \in Used : Timer(k) \in TimerEntries /\ Timer(k)[2] = k BY DEF Timer, TimerEntries
<1>2. \A s \in Slot : SlotEntry(s) \in Entries /\ SlotEntry(s)[2] = s /\ SlotEntry(s) \notin TimerEntries
  BY DEF SlotEntry, Entries, Timer, TimerEntries
<1>3. TimerEntries \subseteq Entries BY DEF Entries
<1>4. Pending = [e \in Entries |-> Pending[e]] BY DEF Pending
<1> QED BY <1>1, <1>2, <1>3, <1>4 DEF Pending

(* What is entered differs from an empty place. *)
LEMMA Entering ==
  ASSUME TypeOK, NEW t \in Time, NEW f \in Func \cup Own \cup {ev_max}
  PROVE  Entered(t, f) # None /\ Entered(t, f).left = Left(t) /\ Left(t) \in Time
<1>1. Left(t) \in Time BY MinusTime DEF Left, TypeOK
<1>2. Entered(t, f) \in [left : Time, func : Func \cup Own \cup {ev_max}] BY <1>1 DEF Entered
<1> QED BY <1>1, <1>2, EventsAssumption DEF Entered

(* Steps that leave the clock, the timers in use and the slots alone do not touch the calendar. *)
LEMMA Untouched ==
  ASSUME UNCHANGED <<currcycle, eventtab2>>, \A k \in Used : eventtab'[k] = eventtab[k]
  PROVE  Pending' = Pending
<1>1. \A e \in Entries : Pending'[e] = Pending[e]
  <2> SUFFICES ASSUME NEW e \in Entries PROVE Pending'[e] = Pending[e] OBVIOUS
  <2>1. CASE e \in TimerEntries
    <3>1. PICK k \in Used : e = Timer(k) BY <2>1 DEF TimerEntries
    <3>2. e[2] = k BY <3>1 DEF Timer
    <3> QED BY <2>1, <3>2 DEF Pending, Entered, Left
  <2>2. CASE e \notin TimerEntries BY <2>2 DEF Pending, Entered, Left
  <2> QED BY <2>1, <2>2
<1> QED BY <1>1 DEF Pending

(* A timer in use is set or stopped. *)
LEMMA TimerSet ==
  ASSUME NEW k \in Used, NEW when, TypeOK,
         eventtab' = [eventtab EXCEPT ![k] = when], UNCHANGED <<currcycle, eventtab2>>
  PROVE  Pending' = [Pending EXCEPT ![Timer(k)] =
                       IF when = None THEN None ELSE Entered(when, ev_max)]
<1>1. Used \subseteq 0 .. ev_max - 1 BY EventsAssumption
<1>2. eventtab'[k] = when /\ \A l \in Used \ {k} : eventtab'[l] = eventtab[l]
  BY <1>1 DEF TypeOK
<1>3. \A e \in Entries : Pending'[e] =
        IF e = Timer(k) THEN IF when = None THEN None ELSE Entered(when, ev_max) ELSE Pending[e]
  <2> SUFFICES ASSUME NEW e \in Entries
               PROVE  Pending'[e] = IF e = Timer(k)
                        THEN IF when = None THEN None ELSE Entered(when, ev_max) ELSE Pending[e]
    OBVIOUS
  <2>1. Timer(k) \in TimerEntries BY DEF TimerEntries
  <2>2. CASE e \in TimerEntries
    <3>1. PICK l \in Used : e = Timer(l) BY <2>2 DEF TimerEntries
    <3>2. e[2] = l /\ (e = Timer(k) <=> l = k) BY <3>1 DEF Timer
    <3> QED BY <1>2, <2>2, <3>2 DEF Pending, Entered, Left
  <2>3. CASE e \notin TimerEntries BY <2>1, <2>3 DEF Pending, Entered, Left
  <2> QED BY <2>2, <2>3
<1>4. /\ Pending = [e \in Entries |-> Pending[e]]
      /\ Pending' = [e \in Entries |-> Pending'[e]]
  BY DEF Pending
<1> QED BY <1>3, <1>4

(* A slot is filled or emptied. *)
LEMMA SlotSet ==
  ASSUME NEW s \in Slot, NEW v, TypeOK,
         eventtab2' = [eventtab2 EXCEPT ![s] = v], UNCHANGED currcycle,
         \A k \in Used : eventtab'[k] = eventtab[k]
  PROVE  Pending' = [Pending EXCEPT ![SlotEntry(s)] =
                       IF v = None THEN None ELSE Entered(v.time, v.func)]
<1>1. eventtab2'[s] = v /\ \A r \in Slot \ {s} : eventtab2'[r] = eventtab2[r]
  BY DEF TypeOK
<1>2. \A e \in Entries : Pending'[e] =
        IF e = SlotEntry(s) THEN IF v = None THEN None ELSE Entered(v.time, v.func) ELSE Pending[e]
  <2> SUFFICES ASSUME NEW e \in Entries
               PROVE  Pending'[e] = IF e = SlotEntry(s)
                        THEN IF v = None THEN None ELSE Entered(v.time, v.func) ELSE Pending[e]
    OBVIOUS
  <2>1. CASE e \in TimerEntries
    <3>1. PICK k \in Used : e = Timer(k) BY <2>1 DEF TimerEntries
    <3>2. e[2] = k /\ e # SlotEntry(s) BY <3>1 DEF Timer, SlotEntry
    <3> QED BY <2>1, <3>2 DEF Pending, Entered, Left
  <2>2. CASE e \notin TimerEntries
    <3>1. PICK r \in Slot : e = SlotEntry(r) BY <2>2 DEF Entries
    <3>2. e[2] = r /\ (e = SlotEntry(s) <=> r = s) BY <3>1 DEF SlotEntry
    <3> QED BY <1>1, <2>2, <3>2 DEF Pending, Entered, Left
  <2> QED BY <2>1, <2>2
<1>3. /\ Pending = [e \in Entries |-> Pending[e]]
      /\ Pending' = [e \in Entries |-> Pending'[e]]
  BY DEF Pending
<1> QED BY <1>2, <1>3

(* The clock moves: everything in the calendar comes closer. *)
LEMMA ClockPasses ==
  ASSUME Inv, pc = "advance", currcycle' \in Time,
         Minus(currcycle', currcycle) <= Left(nextevent),
         Minus(currcycle', currcycle) <= MaxAdd, UNCHANGED <<eventtab, eventtab2>>
  PROVE  [Calendar!CalendarNext]_Pending
<1> DEFINE d == Minus(currcycle', currcycle)
<1>1. TypeOK /\ d \in Time BY MinusTime DEF Inv, TypeOK
<1>2. CASE d = 0
  <2>1. currcycle' = currcycle BY <1>1, <1>2, MinusTime DEF TypeOK
  <2> QED BY <2>1, Untouched
<1>3. CASE d # 0
  <2>1. d \in 1 .. MaxAdd BY <1>1, <1>3, EventsAssumption DEF Time
  <2>2. Used \subseteq 0 .. ev_max - 1 BY EventsAssumption
  <2>3. \A e \in Entries :
          /\ Pending[e] # None => Pending[e].left >= d
          /\ Pending'[e] = IF Pending[e] # None THEN [Pending[e] EXCEPT !.left = @ - d] ELSE None
    <3> SUFFICES ASSUME NEW e \in Entries
                 PROVE  /\ Pending[e] # None => Pending[e].left >= d
                        /\ Pending'[e] = IF Pending[e] # None
                             THEN [Pending[e] EXCEPT !.left = @ - d] ELSE None
      OBVIOUS
    <3> HIDE DEF d
    <3>1. ASSUME NEW t \in Time, NEW f \in Func \cup Own \cup {ev_max},
                 Minus(t, currcycle') = Left(t) - d, Minus(t, currcycle') \in Time
          PROVE  /\ Entered(t, f) # None /\ Entered(t, f).left >= d
                 /\ [left |-> Minus(t, currcycle'), func |-> f] = [Entered(t, f) EXCEPT !.left = @ - d]
      <4>1. Entered(t, f) # None /\ Left(t) \in Time BY <1>1, Entering
      <4>2. Left(t) >= d BY <1>1, <3>1, <4>1, EventsAssumption DEF Time
      <4> QED BY <3>1, <4>1, <4>2 DEF Entered
    <3>2. CASE e \in TimerEntries
      <4>1. PICK k \in Used : e = Timer(k) BY <3>2 DEF TimerEntries
      <4>2. e[2] = k BY <4>1 DEF Timer
      <4>3. CASE eventtab[k] = None BY <3>2, <4>2, <4>3 DEF Pending
      <4>4. CASE eventtab[k] # None
        <5>1. eventtab[k] \in Time BY <1>1, <2>2, <4>4 DEF TypeOK
        <5>2. Minus(eventtab[k], currcycle') = Left(eventtab[k]) - d
          BY <2>2, <4>4, ClockMoves DEF Left, d
        <5>3. Minus(eventtab[k], currcycle') \in Time BY <5>1, MinusTime
        <5>4. Pending[e] = Entered(eventtab[k], ev_max) BY <3>2, <4>2, <4>4 DEF Pending
        <5>5. Pending'[e] = [left |-> Minus(eventtab[k], currcycle'), func |-> ev_max]
          BY <3>2, <4>2, <4>4 DEF Pending, Entered, Left
        <5> QED BY <3>1, <5>1, <5>2, <5>3, <5>4, <5>5
      <4> QED BY <4>3, <4>4
    <3>3. CASE e \notin TimerEntries
      <4>1. PICK s \in Slot : e = SlotEntry(s) BY <3>3 DEF Entries
      <4>2. e[2] = s BY <4>1 DEF SlotEntry
      <4>3. CASE eventtab2[s] = None BY <3>3, <4>2, <4>3 DEF Pending
      <4>4. CASE eventtab2[s] # None
        <5> DEFINE t == eventtab2[s].time  f == eventtab2[s].func
        <5>1. t \in Time /\ f \in Func \cup Own BY <1>1, <4>4 DEF TypeOK
        <5>2. Minus(t, currcycle') = Left(t) - d BY <4>4, ClockMoves DEF Left, d
        <5>3. Minus(t, currcycle') \in Time BY <5>1, MinusTime
        <5>4. Pending[e] = Entered(t, f) BY <3>3, <4>2, <4>4 DEF Pending
        <5>5. Pending'[e] = [left |-> Minus(t, currcycle'), func |-> f]
          BY <3>3, <4>2, <4>4 DEF Pending, Entered, Left
        <5> HIDE DEF t, f
        <5> QED BY <3>1, <5>1, <5>2, <5>3, <5>4, <5>5
      <4> QED BY <4>3, <4>4
    <3> QED BY <3>2, <3>3
  <2>4. Calendar!Pass(d)
    <3>1. Pending' = [e \in Entries |->
                       IF Pending[e] # None THEN [Pending[e] EXCEPT !.left = @ - d] ELSE None]
      BY <2>3 DEF Pending
    <3> QED BY <2>3, <3>1 DEF Calendar!Pass, Calendar!Busy
  <2> QED BY <2>1, <2>4 DEF Calendar!CalendarNext
<1> QED BY <1>2, <1>3

LEMMA CalendarBegins == EventsInit => Calendar!CalendarInit
<1> SUFFICES ASSUME EventsInit PROVE Calendar!CalendarInit OBVIOUS
<1>0. TypeOK BY EventsInitInv DEF Inv
<1>1. PICK t \in Delay : eventtab = [k \in 0 .. ev_max - 1 |-> IF k = ev_hsync THEN t ELSE None]
  BY DEF EventsInit
<1>2. t \in Time /\ currcycle = 0 /\ currcycle \in Time /\ Left(t) = t
  <2>1. t \in Time /\ currcycle = 0 /\ currcycle \in Time
    BY EventsAssumption DEF Delay, Time, EventsInit
  <2>2. Plus(currcycle, t) = t BY <2>1, EventsAssumption DEF Plus, Time
  <2> QED BY <2>1, <2>2, PlusTime DEF Left
<1>3. \A k \in Used : eventtab[k] \in {None, t} BY <1>1, EventsAssumption
<1>4. \A e \in Entries : Pending[e] \in {None} \cup [left : 1 .. MaxDelay, func : Func \cup Own \cup {ev_max}]
  <2> SUFFICES ASSUME NEW e \in Entries
               PROVE  Pending[e] \in {None} \cup [left : 1 .. MaxDelay, func : Func \cup Own \cup {ev_max}]
    OBVIOUS
  <2>1. CASE e \in TimerEntries
    <3>1. PICK k \in Used : e = Timer(k) BY <2>1 DEF TimerEntries
    <3>2. Pending[e] \in {None, Entered(t, ev_max)} BY <1>3, <3>1, PendingAt
    <3> QED BY <1>2, <3>2 DEF Entered, Delay
  <2>2. CASE e \notin TimerEntries
    <3>1. PICK s \in Slot : e = SlotEntry(s) BY <2>2 DEF Entries
    <3> QED BY <3>1, PendingAt DEF EventsInit
  <2> QED BY <2>1, <2>2
<1>5. Pending = [e \in Entries |-> Pending[e]] BY PendingAt
<1> HIDE DEF Pending
<1> QED BY <1>4, <1>5 DEF Calendar!CalendarInit

(* Setting or stopping a timer in use is entering or cancelling it. *)
LEMMA TimerStep ==
  ASSUME TypeOK, NEW k \in Used, UNCHANGED <<currcycle, eventtab2>>,
         \/ \E t \in Delay : eventtab' = [eventtab EXCEPT ![k] = After(t)]
         \/ eventtab[k] # None /\ eventtab' = [eventtab EXCEPT ![k] = None]
  PROVE  Calendar!CalendarNext
<1>1. Timer(k) \in Entries /\ Timer(k) \in TimerEntries BY DEF Entries, TimerEntries
<1>2. ASSUME NEW t \in Delay, eventtab' = [eventtab EXCEPT ![k] = After(t)]
      PROVE  Calendar!CalendarNext
  <2>1. t \in Time BY EventsAssumption DEF Delay, Time
  <2>2. After(t) \in Time /\ Left(After(t)) = t BY <2>1, PlusTime DEF After, Left, TypeOK
  <2>3. After(t) # None BY <2>2, EventsAssumption
  <2>4. Pending' = [Pending EXCEPT ![Timer(k)] = Entered(After(t), ev_max)]
    BY <1>2, <2>3, TimerSet
  <2>5. Calendar!Enter(Timer(k), t, ev_max)
    BY <1>1, <2>2, <2>4 DEF Calendar!Enter, Entered
  <2> QED BY <1>1, <2>5 DEF Calendar!CalendarNext, Delay
<1>3. ASSUME eventtab[k] # None, eventtab' = [eventtab EXCEPT ![k] = None]
      PROVE  Calendar!CalendarNext
  <2>1. Pending' = [Pending EXCEPT ![Timer(k)] = None] BY <1>3, TimerSet
  <2>2. eventtab[k] \in Time BY <1>3, EventsAssumption DEF TypeOK
  <2>3. Pending[Timer(k)] # None BY <1>3, <2>2, PendingAt, Entering
  <2>4. Calendar!Cancel(Timer(k)) BY <1>1, <2>1, <2>3 DEF Calendar!Cancel, Calendar!Busy
  <2> QED BY <1>1, <2>4 DEF Calendar!CalendarNext
<1> QED BY <1>2, <1>3

(* Filling a slot that may be filled, and emptying one, are steps of the calendar. *)
LEMMA FillStep ==
  ASSUME TypeOK, NEW s \in Slot, NEW t \in Delay, NEW f \in Func \cup Own,
         s \in Own \/ eventtab2[s] = None,
         eventtab2' = [eventtab2 EXCEPT ![s] = Event(t, f)], UNCHANGED currcycle,
         \A k \in Used : eventtab'[k] = eventtab[k]
  PROVE  Calendar!CalendarNext
<1>1. t \in Time BY EventsAssumption DEF Delay, Time
<1>2. After(t) \in Time /\ Left(After(t)) = t BY <1>1, PlusTime DEF After, Left, TypeOK
<1>3. Event(t, f) \in [time : Time, func : Func \cup Own] BY <1>2 DEF Event
<1>4. Event(t, f) # None BY <1>3, EventsAssumption
<1>5. Pending' = [Pending EXCEPT ![SlotEntry(s)] = Entered(Event(t, f).time, Event(t, f).func)]
  BY <1>4, SlotSet
<1>6. Entered(Event(t, f).time, Event(t, f).func) = [left |-> t, func |-> f]
  BY <1>2 DEF Event, Entered
<1>7. Pending' = [Pending EXCEPT ![SlotEntry(s)] = [left |-> t, func |-> f]] BY <1>5, <1>6
<1>8. SlotEntry(s) \in Entries /\ (eventtab2[s] = None => Pending[SlotEntry(s)] = None) BY PendingAt
<1>9. Calendar!Enter(SlotEntry(s), t, f)
  BY <1>7, <1>8 DEF Calendar!Enter, Calendar!Busy
<1> QED BY <1>8, <1>9 DEF Calendar!CalendarNext, Delay

LEMMA EmptyStep ==
  ASSUME TypeOK, NEW s \in Slot, eventtab2[s] # None,
         s \in Own \/ eventtab2[s].time = currcycle,
         eventtab2' = [eventtab2 EXCEPT ![s] = None], UNCHANGED currcycle,
         \A k \in Used : eventtab'[k] = eventtab[k]
  PROVE  Calendar!CalendarNext
<1>1. Pending' = [Pending EXCEPT ![SlotEntry(s)] = None] BY SlotSet
<1>2. eventtab2[s].time \in Time /\ eventtab2[s].func \in Func \cup Own BY DEF TypeOK
<1>3. /\ SlotEntry(s) \in Entries /\ Pending[SlotEntry(s)] # None
      /\ Pending[SlotEntry(s)].left = Left(eventtab2[s].time)
  BY <1>2, PendingAt, Entering
<1>4. CASE s \in Own
  <2>1. Calendar!Cancel(SlotEntry(s)) BY <1>1, <1>3, <1>4 DEF Calendar!Cancel, Calendar!Busy
  <2> QED BY <1>3, <2>1 DEF Calendar!CalendarNext
<1>5. CASE eventtab2[s].time = currcycle
  <2>1. Left(eventtab2[s].time) = 0 BY <1>2, <1>5, MinusTime DEF Left, TypeOK
  <2>2. Calendar!Happen(SlotEntry(s)) BY <1>1, <1>3, <2>1 DEF Calendar!Happen, Calendar!Busy
  <2> QED BY <1>3, <2>2 DEF Calendar!CalendarNext
<1> QED BY <1>4, <1>5

LEMMA HardwareStep == Inv /\ HardwareCalls => [Calendar!CalendarNext]_Pending
<1> SUFFICES ASSUME Inv, HardwareCalls PROVE [Calendar!CalendarNext]_Pending OBVIOUS
<1>1. TypeOK BY DEF Inv
<1>2. Own \subseteq Slot /\ Dynamic \subseteq Slot BY EventsAssumption DEF Own, Dynamic, Slot
<1>3. ASSUME Inform PROVE \A k \in Used : eventtab'[k] = eventtab[k]
  BY <1>1, <1>3, EventsAssumption DEF Inform, MISC_handler, TypeOK
<1>4. ASSUME NEW t \in Delay, NEW f \in Func, event2_newevent_xx(t, f)
      PROVE  [Calendar!CalendarNext]_Pending
  <2>1. CASE UNCHANGED tables /\ UNCHANGED clock
    <3>1. UNCHANGED <<currcycle, eventtab, eventtab2>> BY <2>1 DEF tables, clock
    <3> QED BY <3>1, Untouched
  <2>2. CASE /\ UNCHANGED clock
             /\ \E k \in 0 .. ev2_max - ev2_misc - 1 :
                  /\ WillDo(Place(k), Event(t, f)) /\ Inform
                  /\ eventtab2' = [eventtab2 EXCEPT ![Place(k)] = Event(t, f)]
    <3>1. PICK k \in 0 .. ev2_max - ev2_misc - 1 :
            /\ WillDo(Place(k), Event(t, f)) /\ Inform
            /\ eventtab2' = [eventtab2 EXCEPT ![Place(k)] = Event(t, f)]
      BY <2>2
    <3>2. Place(k) \in Slot BY <1>1, <1>2, PlaceDynamic
    <3>3. UNCHANGED currcycle /\ \A l \in Used : eventtab'[l] = eventtab[l]
      BY <1>3, <2>2, <3>1 DEF clock
    <3>4. CASE eventtab2[Place(k)] = None
      BY <1>1, <3>1, <3>2, <3>3, <3>4, FillStep
    <3>5. CASE eventtab2[Place(k)] = Event(t, f)
      <4>1. eventtab2' = eventtab2 BY <1>1, <3>1, <3>2, <3>5 DEF TypeOK
      <4> QED BY <3>3, <4>1, Untouched
    <3> QED BY <3>1, <3>4, <3>5 DEF WillDo
  <2> QED BY <1>4, <2>1, <2>2 DEF event2_newevent_xx, FirstPlace
<1>5. ASSUME NEW no \in Own, NEW t \in Delay, event2_newevent(no, t)
      PROVE  [Calendar!CalendarNext]_Pending
  <2>1. /\ eventtab2' = [eventtab2 EXCEPT ![no] = Event(t, no)] /\ UNCHANGED currcycle
        /\ \A k \in Used : eventtab'[k] = eventtab[k]
    BY <1>3, <1>5 DEF event2_newevent, clock
  <2> QED BY <1>1, <1>2, <2>1, FillStep
<1>6. ASSUME NEW no \in Own, event2_remevent(no) PROVE [Calendar!CalendarNext]_Pending
  <2>1. /\ eventtab2[no] # None /\ eventtab2' = [eventtab2 EXCEPT ![no] = None]
        /\ UNCHANGED currcycle /\ \A k \in Used : eventtab'[k] = eventtab[k]
    BY <1>6 DEF event2_remevent, clock
  <2> QED BY <1>1, <1>2, <2>1, EmptyStep
<1>7. ASSUME ArmTimer PROVE [Calendar!CalendarNext]_Pending
  <2>1. PICK k \in Used :
          /\ \/ eventtab[k] # None /\ Rearm(k, None)
             \/ \E t \in Delay : Rearm(k, After(t))
    BY <1>7 DEF ArmTimer
  <2>2. UNCHANGED <<currcycle, eventtab2>> BY <2>1 DEF Rearm
  <2>3. \/ \E t \in Delay : eventtab' = [eventtab EXCEPT ![k] = After(t)]
        \/ eventtab[k] # None /\ eventtab' = [eventtab EXCEPT ![k] = None]
    BY <2>1 DEF Rearm
  <2> QED BY <1>1, <2>2, <2>3, TimerStep
<1>8. ASSUME MoveLine PROVE [Calendar!CalendarNext]_Pending
  <2>1. /\ UNCHANGED <<currcycle, eventtab2>>
        /\ \E t \in Delay : eventtab' = [eventtab EXCEPT ![ev_hsync] = After(t)]
    BY <1>8 DEF MoveLine, Rearm
  <2> QED BY <1>1, <2>1, TimerStep, EventsAssumption
<1> QED BY <1>4, <1>5, <1>6, <1>7, <1>8 DEF HardwareCalls

LEMMA CalendarStep == Inv /\ [EventsNext]_vars => [Calendar!CalendarNext]_Pending
<1> SUFFICES ASSUME Inv, [EventsNext]_vars PROVE [Calendar!CalendarNext]_Pending OBVIOUS
<1>1. TypeOK BY DEF Inv
<1>2. CASE UNCHANGED vars \/ Spend \/ SyncWait \/ CallTimer \/ TimerReturns \/ EndOfTable
           \/ FuncReturns \/ LookAgain
  <2>1. UNCHANGED <<currcycle, eventtab, eventtab2>>
    BY <1>2 DEF vars, clock, tables, Spend, do_cycles_slow, SyncWait, CallTimer, TimerReturns,
       EndOfTable, FuncReturns, LookAgain
  <2> QED BY <2>1, Untouched
<1>3. CASE CallMisc \/ MiscReturns
  <2>1. UNCHANGED <<currcycle, eventtab2>>
    BY <1>3 DEF CallMisc, MiscReturns, clock
  <2>2. \A k \in Used : eventtab'[k] = eventtab[k]
    BY <1>1, <1>3, EventsAssumption DEF CallMisc, MISC_handler, MiscReturns, TypeOK
  <2> QED BY <2>1, <2>2, Untouched
<1>4. CASE Look
  <2>1. UNCHANGED <<currcycle, eventtab>> /\ j \in Slot
    BY <1>1, <1>4, EventsAssumption DEF Look, clock, TypeOK, Slot
  <2>2. CASE UNCHANGED eventtab2 BY <2>1, <2>2, Untouched
  <2>3. CASE /\ eventtab2[j] # None /\ eventtab2[j].time = currcycle
             /\ eventtab2' = [eventtab2 EXCEPT ![j] = None]
    BY <1>1, <2>1, <2>3, EmptyStep
  <2> QED BY <1>4, <2>2, <2>3 DEF Look
<1>5. CASE Advance
  <2>1. /\ pc = "advance" /\ currcycle' = nextevent /\ UNCHANGED <<eventtab, eventtab2>>
        /\ Left(nextevent) <= todo
    BY <1>5 DEF Advance, Reached, tables
  <2>2. currcycle' \in Time /\ Minus(currcycle', currcycle) = Left(nextevent)
    BY <1>1, <2>1 DEF Left, TypeOK
  <2>3. Left(nextevent) \in Nat BY <1>1, MinusTime, EventsAssumption DEF Left, TypeOK, Time
  <2>4. Left(nextevent) <= MaxAdd BY <1>1, <2>1, <2>3, EventsAssumption DEF TypeOK
  <2> QED BY <2>1, <2>2, <2>3, <2>4, ClockPasses
<1>6. CASE AddRest
  <2>1. /\ pc = "advance" /\ currcycle' = Plus(currcycle, todo) /\ UNCHANGED <<eventtab, eventtab2>>
        /\ ~(Left(nextevent) <= todo)
    BY <1>6 DEF AddRest, Reached, tables, After
  <2>2. Left(nextevent) \in Time BY <1>1, MinusTime DEF Left, TypeOK
  <2>3. todo \in Time /\ todo <= Left(nextevent) /\ todo <= MaxAdd
    BY <1>1, <2>1, <2>2, EventsAssumption DEF TypeOK, Time
  <2>4. currcycle' \in Time /\ Minus(currcycle', currcycle) = todo
    BY <1>1, <2>1, <2>3, PlusTime DEF TypeOK
  <2> QED BY <2>1, <2>3, <2>4, ClockPasses
<1>7. CASE set_hpos
  <2>1. /\ UNCHANGED <<currcycle, eventtab2>>
        /\ \E t \in Delay : eventtab' = [eventtab EXCEPT ![ev_hsync] = After(t)]
    BY <1>7 DEF set_hpos, clock
  <2> QED BY <1>1, <2>1, TimerStep, EventsAssumption
<1>8. CASE HardwareCalls BY <1>8, HardwareStep
<1> QED BY <1>2, <1>3, <1>4, <1>5, <1>6, <1>7, <1>8 DEF EventsNext, Loops

(* The scheduler implements the calendar: no time is passed over, no event is lost, runs twice or
   runs early, for every width of the clock, number of slots, delay and pattern of calls. *)
THEOREM SchedulerKeepsCalendar == EventsSpec => KeepsCalendar
<1>1. EventsSpec => EventsInit /\ [][EventsNext]_vars BY DEF EventsSpec
<1> QED BY <1>1, CalendarBegins, CalendarStep, EventsInvariant, PTL
    DEF KeepsCalendar, Calendar!CalendarSpec
=============================================================================
