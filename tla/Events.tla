------------------------------- MODULE Events -------------------------------
(***************************************************************************)
(* The event scheduler of events.cpp: a table of four timers, one of which *)
(* (ev_misc) stands for the earliest of the one-shot events in a second    *)
(* table.  Everything runs on the emulation thread; what makes it hard is  *)
(* that handlers run in the middle of the loops over both tables and enter *)
(* new events there, and that times are compared after unsigned            *)
(* subtraction, by equality.  Times are modulo Wrap, the number of values  *)
(* of an unsigned long.                                                    *)
(***************************************************************************)
EXTENDS Integers

CONSTANTS Wrap,
          MaxDelay,     \* the longest delay that hardware asks for
          MaxAdd,       \* the most cycles one call adds
          Used,         \* timers that the hardware uses, ev_misc aside
          Func,         \* what a dynamic event calls, with its data
          ev2_misc,     \* the first dynamic slot; those below have an owner
          ev2_max,
          None          \* an inactive entry: its other fields are never read

ev_cia == 0
ev_audio == 1
ev_misc == 2
ev_hsync == 3
ev_max == 4

Time == 0 .. Wrap - 1
Delay == 1 .. MaxDelay
Slot == 0 .. ev2_max - 1
Own == 0 .. ev2_misc - 1
Dynamic == ev2_misc .. ev2_max - 1
Never == Wrap - 1           \* mintime = ~0L

ASSUME EventsAssumption ==
    /\ MaxDelay \in Nat \ {0} /\ MaxAdd \in Nat \ {0}
    /\ Wrap \in Nat /\ MaxDelay + 1 < Wrap
    /\ Used \subseteq {ev_cia, ev_audio, ev_hsync} /\ ev_hsync \in Used
    /\ ev2_misc \in Nat /\ ev2_max \in Nat /\ ev2_misc < ev2_max
    /\ None \notin Time
    /\ None \notin [time : Time, func : Func \cup Own]
    /\ None \notin [left : Time, func : Func \cup Own \cup {ev_max}]

VARIABLES
    currcycle, nextevent,
    eventtab,      \* per timer: None or evtime
    eventtab2,     \* per slot: None or evtime and handler with data
    next,          \* where event2_newevent_xx begins to search
    pc,            \* "cpu" or the loop or handler that runs
    todo,          \* cycles_to_add of do_cycles_slow
    i,             \* its place in eventtab
    back,          \* who called MISC_handler
    j, mintime, recheck, dorecheck      \* MISC_handler

clock == <<currcycle, nextevent>>
tables == <<eventtab, eventtab2, next>>
loop == <<todo, i>>
misc == <<back, j, mintime, recheck, dorecheck>>
vars == <<clock, tables, pc, loop, misc>>

\* Unsigned arithmetic
Minus(t, c) == (t - c) % Wrap
Plus(c, d) == (c + d) % Wrap

Left(t) == Minus(t, currcycle)
After(t) == Plus(currcycle, t)

TypeOK ==
    /\ currcycle \in Time /\ nextevent \in Time
    /\ eventtab \in [0 .. ev_max - 1 -> Time \cup {None}]
    /\ eventtab2 \in [Slot -> [time : Time, func : Func \cup Own] \cup {None}]
    /\ next \in Dynamic
    /\ pc \in {"cpu", "advance", "table", "timer", "misc", "func"}
    /\ todo \in 0 .. MaxAdd /\ i \in 0 .. ev_max
    /\ back \in {"cpu", "table", "timer"}
    /\ j \in 0 .. ev2_max /\ mintime \in Time
    /\ recheck \in BOOLEAN /\ dorecheck \in BOOLEAN

\* nextevent after the timers became tab
events_schedule(tab) ==
    LET lefts == {Left(tab[k]) : k \in {k \in DOMAIN tab : tab[k] # None}} \cup {Never}
    IN \E m \in lefts : (\A l \in lefts : m <= l) /\ nextevent' = After(m)

EventsInit ==
    /\ currcycle = 0
    /\ eventtab \in {[k \in 0 .. ev_max - 1 |-> IF k = ev_hsync THEN t ELSE None] : t \in Delay}
    /\ nextevent = eventtab[ev_hsync]
    /\ eventtab2 = [s \in Slot |-> None] /\ next = ev2_misc
    /\ pc = "cpu" /\ todo = 0 /\ i = 0
    /\ back = "cpu" /\ j = 0 /\ mintime = Never /\ recheck = FALSE /\ dorecheck = FALSE

----------------------------------------------------------------------------
(* MISC_handler *)

MISC_handler(from) ==
    /\ pc' = "misc" /\ back' = from /\ j' = 0 /\ mintime' = Never
    /\ recheck' = FALSE /\ UNCHANGED dorecheck
    /\ eventtab' = [eventtab EXCEPT ![ev_misc] = None]

\* One slot of the loop: it is free, its time has not come, or its handler runs.
Look ==
    /\ pc = "misc" /\ j < ev2_max
    /\ \/ /\ eventtab2[j] = None
          /\ j' = j + 1 /\ UNCHANGED <<pc, eventtab2, mintime>>
       \/ /\ eventtab2[j] # None /\ eventtab2[j].time # currcycle
          /\ mintime' = IF Left(eventtab2[j].time) < mintime
                        THEN Left(eventtab2[j].time) ELSE mintime
          /\ j' = j + 1 /\ UNCHANGED <<pc, eventtab2>>
       \/ /\ eventtab2[j] # None /\ eventtab2[j].time = currcycle
          /\ eventtab2' = [eventtab2 EXCEPT ![j] = None]
          /\ pc' = "func" /\ UNCHANGED <<j, mintime>>
    /\ UNCHANGED <<clock, eventtab, next, loop, back, recheck, dorecheck>>

RecheckSlot == eventtab2[j] # None              \* forgets the other slots
Recheck == dorecheck \/ eventtab2[j] # None

FuncReturns ==
    /\ pc = "func"
    /\ recheck' = (recheck \/ Recheck)
    /\ dorecheck' = (dorecheck /\ ~Recheck)
    /\ pc' = "misc" /\ j' = j + 1
    /\ UNCHANGED <<clock, tables, loop, back, mintime>>

LookAgainForEver ==                             \* recheck is not cleared
    /\ pc = "misc" /\ j = ev2_max /\ recheck
    /\ mintime' = Never /\ j' = 0
    /\ UNCHANGED <<clock, tables, pc, loop, back, recheck, dorecheck>>

LookAgain ==
    /\ pc = "misc" /\ j = ev2_max /\ recheck
    /\ recheck' = FALSE /\ mintime' = Never /\ j' = 0
    /\ UNCHANGED <<clock, tables, pc, loop, back, dorecheck>>

\* Arms ev_misc for the earliest event and goes back to the caller.
MiscReturns ==
    /\ pc = "misc" /\ j = ev2_max /\ ~recheck
    /\ IF mintime # Never
       THEN /\ eventtab' = [eventtab EXCEPT ![ev_misc] = After(mintime)]
            /\ events_schedule(eventtab')
       ELSE UNCHANGED <<eventtab, nextevent>>
    /\ pc' = back /\ i' = IF back = "table" THEN i + 1 ELSE i
    /\ back' = "cpu" /\ j' = 0 /\ mintime' = Never
    /\ UNCHANGED <<currcycle, eventtab2, next, todo, recheck, dorecheck>>

----------------------------------------------------------------------------
(* What the emulated hardware calls: from the CPU's accesses, from the     *)
(* handler of a timer, from the handler of an event.                       *)

Hardware == pc \in {"cpu", "timer", "func"}

\* MISC_handler as event2_newevent_xx calls it: the inner call only leaves word.
Inform ==
    IF pc = "func"
    THEN dorecheck' = TRUE /\ UNCHANGED <<eventtab, pc, back, j, mintime, recheck>>
    ELSE MISC_handler(pc)

Event(t, f) == [time |-> After(t), func |-> f]

\* Slots in the order of the search, and the first one that will do.
Place(k) == ev2_misc + ((next - ev2_misc + k) % (ev2_max - ev2_misc))
WillDo(s, e) == eventtab2[s] = None \/ eventtab2[s] = e
FirstPlace(k, e) ==
    /\ WillDo(Place(k), e)
    /\ \A l \in 0 .. k - 1 : ~WillDo(Place(l), e)

event2_newevent_xx(t, f) ==
    /\ \/ \E k \in 0 .. ev2_max - ev2_misc - 1 :
            /\ FirstPlace(k, Event(t, f))
            /\ next' = Place(k)
            /\ eventtab2' = [eventtab2 EXCEPT ![Place(k)] = Event(t, f)]
            /\ Inform
       \/ /\ \A s \in Dynamic : ~WillDo(s, Event(t, f))          \* out of event2's!
          /\ UNCHANGED <<tables, pc, misc>>
    /\ UNCHANGED <<clock, loop>>

\* The blitter and the disk have slots of their own.
event2_newevent(no, t) ==
    /\ eventtab2' = [eventtab2 EXCEPT ![no] = Event(t, no)]
    /\ Inform
    /\ UNCHANGED <<clock, next, loop>>

event2_remevent(no) ==
    /\ eventtab2[no] # None
    /\ eventtab2' = [eventtab2 EXCEPT ![no] = None]
    /\ UNCHANGED <<clock, eventtab, next, pc, loop, misc>>

Rearm(k, when) ==
    /\ eventtab' = [eventtab EXCEPT ![k] = when]
    /\ events_schedule(eventtab')
    /\ UNCHANGED <<currcycle, eventtab2, next, pc, loop, misc>>

\* schedule_audio and CIA_calctimers set their timer or stop it.
ArmTimer ==
    \E k \in Used \ {ev_hsync} :
      \/ eventtab[k] # None /\ Rearm(k, None)
      \/ \E t \in Delay : Rearm(k, After(t))

\* A change of the display mode begins a line anew (init_hz), at the end
\* of a frame.
MoveLine ==
    /\ pc = "timer" /\ i = ev_hsync /\ eventtab[ev_hsync] # currcycle
    /\ \E t \in Delay : Rearm(ev_hsync, After(t))

HardwareCalls ==
    /\ Hardware
    /\ \/ \E t \in Delay, f \in Func : event2_newevent_xx(t, f)
       \/ \E no \in Own, t \in Delay : event2_newevent(no, t)
       \/ \E no \in Own : event2_remevent(no)
       \/ ArmTimer
       \/ MoveLine

\* set_hpos, in the handler of the line, leaves nextevent to do_cycles_slow.
set_hpos ==
    /\ pc = "timer" /\ i = ev_hsync /\ eventtab[ev_hsync] = currcycle
    /\ \E t \in Delay : eventtab' = [eventtab EXCEPT ![ev_hsync] = After(t)]
    /\ UNCHANGED <<clock, eventtab2, next, pc, loop, misc>>

----------------------------------------------------------------------------
(* do_cycles_slow.  Cycles that are paid from pissoff change nothing here: *)
(* n is what is left of them.                                              *)

do_cycles_slow(n) ==
    /\ pc = "cpu"
    /\ todo' = n /\ pc' = "advance"
    /\ UNCHANGED <<clock, tables, i, misc>>

Reached == Left(nextevent) <= todo

\* is_syncline is 0, or the host's time has come.
Advance ==
    /\ pc = "advance" /\ Reached
    /\ todo' = todo - Left(nextevent) /\ currcycle' = nextevent
    /\ i' = 0 /\ pc' = "table"
    /\ UNCHANGED <<nextevent, tables, misc>>

\* A line that waits for the host's time (is_syncline): the cycles are forgotten.
SyncWait ==
    /\ pc = "advance" /\ Reached
    /\ todo' = 0 /\ pc' = "cpu"
    /\ UNCHANGED <<clock, tables, i, misc>>

AddRest ==
    /\ pc = "advance" /\ ~Reached
    /\ currcycle' = After(todo) /\ todo' = 0 /\ pc' = "cpu"
    /\ UNCHANGED <<nextevent, tables, i, misc>>

Due == eventtab[i] = currcycle

\* k is the next timer that is due.
NextDue(k) ==
    /\ eventtab[k] = currcycle
    /\ \A l \in i .. k - 1 : eventtab[l] # currcycle

CallMisc ==
    /\ pc = "table" /\ i <= ev_misc /\ NextDue(ev_misc)
    /\ MISC_handler("table") /\ i' = ev_misc
    /\ UNCHANGED <<clock, eventtab2, next, todo>>

CallTimer ==
    /\ pc = "table"
    /\ \E k \in i .. ev_max - 1 : k # ev_misc /\ NextDue(k) /\ i' = k
    /\ pc' = "timer"
    /\ UNCHANGED <<clock, tables, todo, misc>>

\* A timer's handler has set the timer for its next time, or stopped it.
TimerReturns ==
    /\ pc = "timer" /\ ~Due
    /\ pc' = "table" /\ i' = i + 1
    /\ UNCHANGED <<clock, tables, todo, misc>>

EndOfTable ==
    /\ pc = "table" /\ \A k \in i .. ev_max - 1 : eventtab[k] # currcycle
    /\ events_schedule(eventtab)
    /\ pc' = "advance" /\ i' = 0
    /\ UNCHANGED <<currcycle, tables, todo, misc>>

Spend == \E n \in 1 .. MaxAdd : do_cycles_slow(n)

Loops ==
    \/ AddRest \/ CallMisc \/ CallTimer \/ EndOfTable
    \/ Look \/ FuncReturns \/ LookAgain \/ MiscReturns

EventsNext ==
    \/ Spend \/ Advance \/ SyncWait \/ Loops
    \/ TimerReturns \/ set_hpos \/ HardwareCalls

\* The handler of a timer other than ev_hsync sets the timer or stops it.
OwnTimer ==
    /\ pc = "timer" /\ i # ev_hsync /\ Due
    /\ Rearm(i, None) \/ \E t \in Delay : Rearm(i, After(t))

(* The loops go on; handlers, which are finite code, set their timer and   *)
(* return; the CPU executes instructions; the host's time comes.           *)
Fairness ==
    /\ WF_vars(Loops)
    /\ SF_vars(TimerReturns \/ set_hpos \/ OwnTimer)
    /\ SF_vars(Spend) /\ SF_vars(Advance)

EventsSpec == EventsInit /\ [][EventsNext]_vars /\ Fairness

----------------------------------------------------------------------------
(* What the two tables hold for the hardware.  ev_misc is not part of it:  *)
(* it only stands for the second table.                                    *)

Timer(k) == <<"timer", k>>
SlotEntry(s) == <<"slot", s>>

TimerEntries == {Timer(k) : k \in Used}
Entries == TimerEntries \cup {SlotEntry(s) : s \in Slot}

Entered(t, f) == [left |-> Left(t), func |-> f]

\* A timer calls the handler of its own.
Pending == [e \in Entries |->
    IF e \in TimerEntries
    THEN IF eventtab[e[2]] = None THEN None ELSE Entered(eventtab[e[2]], ev_max)
    ELSE IF eventtab2[e[2]] = None THEN None
         ELSE Entered(eventtab2[e[2]].time, eventtab2[e[2]].func)]

Calendar == INSTANCE Calendar WITH
    Entry <- Entries,
    Fixed <- TimerEntries \cup {SlotEntry(s) : s \in Own},
    Func <- Func \cup Own \cup {ev_max},
    MaxStep <- MaxAdd,
    pending <- Pending

(* No time is passed over, no event is lost, runs twice or runs early,     *)
(* whatever handlers enter, replace or remove in the middle of the loops.  *)
KeepsCalendar == Calendar!CalendarSpec

(* Every event that is entered runs: the slot becomes free.                *)
EventsRun == \A s \in Dynamic : eventtab2[s] # None ~> eventtab2[s] = None
=============================================================================
