------------------------------ MODULE Calendar ------------------------------
(***************************************************************************)
(* What the event scheduler promises to the emulated hardware: time never  *)
(* passes an entry that is due, and an entry that nobody re-arms or        *)
(* cancels stays until exactly the cycles that were asked for have passed. *)
(* An entry holds what is to be called and the cycles that are left.       *)
(***************************************************************************)
EXTENDS Integers

CONSTANTS Entry,      \* places in the calendar
          Fixed,      \* those with an owner, who may move or cancel what is there
          Func,       \* what may be called
          MaxDelay,   \* the longest time that is asked for
          MaxStep,    \* the most cycles that pass in one step
          None        \* an empty place

VARIABLE pending

CalendarInit == pending \in [Entry -> {None} \cup [left : 1 .. MaxDelay, func : Func]]

Busy(e) == pending[e] # None

Enter(e, t, f) ==
    /\ e \in Fixed \/ ~Busy(e)
    /\ pending' = [pending EXCEPT ![e] = [left |-> t, func |-> f]]

Cancel(e) == e \in Fixed /\ Busy(e) /\ pending' = [pending EXCEPT ![e] = None]

Happen(e) == Busy(e) /\ pending[e].left = 0 /\ pending' = [pending EXCEPT ![e] = None]

\* Everything comes closer by d; what is due holds time back.
Pass(d) ==
    /\ \A e \in Entry : Busy(e) => pending[e].left >= d
    /\ pending' = [e \in Entry |->
                     IF Busy(e) THEN [pending[e] EXCEPT !.left = @ - d] ELSE None]

CalendarNext ==
    \/ \E e \in Entry : Cancel(e) \/ Happen(e)
    \/ \E e \in Entry, t \in 1 .. MaxDelay, f \in Func : Enter(e, t, f)
    \/ \E d \in 1 .. MaxStep : Pass(d)

CalendarSpec == CalendarInit /\ [][CalendarNext]_pending
=============================================================================
