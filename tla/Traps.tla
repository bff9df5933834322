------------------------------- MODULE Traps -------------------------------
(***************************************************************************)
(* Extended traps (traps.cpp): guest code calls a function of the host     *)
(* that calls guest code in turn.  The function runs on a thread of its    *)
(* own, and control of the emulated CPU is passed between this thread and  *)
(* the emulation thread with two semaphores of the trap's context.  While  *)
(* the function waits for guest code, guest tasks are switched and other   *)
(* traps begin and end, also on the same task.                             *)
(*                                                                         *)
(* A step of a thread is a semaphore operation with the code up to the     *)
(* next one.  The guest is what the source needs of it: tasks with         *)
(* registers and stacks, switched at any instruction that an interrupt     *)
(* may precede.  An interrupt server counts as a task.                     *)
(***************************************************************************)
EXTENDS Integers, Sequences, SequencesExt

CONSTANTS Tasks,        \* guest tasks
          MaxTraps,     \* bound: extended traps in a behaviour
          MaxCalls,     \* bound: calls of guest code by trap functions
          NoRetval,     \* traps defined with TRAPFLAG_NO_RETVAL, by their context
          Joins         \* TRUE: uae_wait_thread waits (on AROS it is a TODO)

ASSUME TrapsAssumption ==
    /\ Tasks # {} /\ MaxTraps \in Nat /\ MaxCalls \in Nat
    /\ NoRetval \subseteq 1 .. MaxTraps /\ Joins \in BOOLEAN

VARIABLES
    running, regs,      \* the task that has the CPU; the CPU's registers
    saved, stack,       \* registers of the others; return traps on their stacks
    epc, ectx,          \* emulation thread: label, the context it deals with
    tpc, ctx,           \* per context: label of its thread, struct TrapContext
    switch_to_emu_sem, switch_to_trap_sem,
    trap_mutex, current_context,
    used, freed, calls, \* contexts allocated, contexts freed, calls made
    entered             \* per task: its unfinished traps, with the entry registers

guest   == <<running, saved>>
thread  == <<tpc, ctx, switch_to_emu_sem, switch_to_trap_sem>>
locks   == <<trap_mutex, current_context>>
counts  == <<used, freed, calls>>
vars == <<guest, regs, stack, epc, ectx, thread, locks, counts, entered>>

Contexts == 1 .. MaxTraps

\* d0 is a number, a stands for the other registers and the place in the code, pc
\* tells ordinary code from the three traps of init_extended_traps.
Registers == [pc : {"code", "call", "return", "exit"}, intmask : {0, 7},
              d0 : 0 .. MaxCalls + MaxTraps, a : {0, 1}]

Reset == [pc |-> "code", intmask |-> 0, d0 |-> 0, a |-> 0]

TrapContext == [saved : Registers, has_retval : BOOLEAN, retval : Nat,
                func_addr : 0 .. MaxCalls, call68k_retval : 0 .. MaxCalls + MaxTraps]

TrapsInit ==
    /\ running \in Tasks /\ regs = Reset
    /\ saved = [t \in Tasks |-> Reset] /\ stack = [t \in Tasks |-> <<>>]
    /\ epc = "cpu" /\ ectx = 0
    /\ tpc = [c \in Contexts |-> "none"]
    /\ ctx = [c \in Contexts |-> [saved |-> Reset, has_retval |-> FALSE, retval |-> 0,
                                  func_addr |-> 0, call68k_retval |-> 0]]
    /\ switch_to_emu_sem = [c \in Contexts |-> 0]
    /\ switch_to_trap_sem = [c \in Contexts |-> 0]
    /\ trap_mutex = 1 /\ current_context = 0
    /\ used = 0 /\ freed = {} /\ calls = 0
    /\ entered = [t \in Tasks |-> <<>>]

Post(sem, c) == sem' = [sem EXCEPT ![c] = @ + 1]
Wait(sem, c) == sem[c] > 0 /\ sem' = [sem EXCEPT ![c] = @ - 1]

Lock   == trap_mutex = 1 /\ trap_mutex' = 0
Unlock == trap_mutex' = trap_mutex + 1

----------------------------------------------------------------------------
(* The guest *)

At(label) == epc = "cpu" /\ regs.pc = label

\* Exec gives the CPU to another task; it takes an interrupt to do so.
Switch(t) ==
    /\ epc = "cpu" /\ regs.intmask < 7 /\ t # running
    /\ saved' = [saved EXCEPT ![running] = regs]
    /\ regs' = saved[t]
    /\ running' = t
    /\ UNCHANGED <<stack, epc, ectx, thread, locks, counts, entered>>

\* A task goes on with its own code.
Compute ==
    /\ At("code")
    /\ regs' = [regs EXCEPT !.a = 1 - @]
    /\ UNCHANGED <<guest, stack, epc, ectx, thread, locks, counts, entered>>

\* A function that a trap called returns: to the return trap on its stack.
Rts(t) ==
    /\ At("code") /\ t = running /\ stack[t] # <<>>
    /\ regs' = [regs EXCEPT !.pc = "return", !.d0 = Last(stack[t]).func]
    /\ UNCHANGED <<guest, stack, epc, ectx, thread, locks, counts, entered>>

----------------------------------------------------------------------------
(* The emulation thread *)

\* trap_HandleExtendedTrap: a context, a thread for it, and the first switch.
HandleExtendedTrap ==
    /\ At("code") /\ used < MaxTraps
    /\ used' = used + 1
    /\ ctx' = [ctx EXCEPT ![used + 1].saved = regs,
                           ![used + 1].has_retval = used + 1 \notin NoRetval]
    /\ tpc' = [tpc EXCEPT ![used + 1] = "start"]
    /\ Post(switch_to_trap_sem, used + 1)
    /\ epc' = "wait" /\ ectx' = used + 1
    /\ entered' = [entered EXCEPT ![running] =
                        Append(@, [ctx |-> used + 1, regs |-> regs])]
    /\ UNCHANGED <<guest, regs, stack, switch_to_emu_sem, locks, freed, calls>>

\* The trap function is done or wants to call guest code.
Resume ==
    /\ epc = "wait" /\ Wait(switch_to_emu_sem, ectx)
    /\ epc' = "cpu"
    /\ UNCHANGED <<guest, regs, stack, ectx, tpc, ctx, switch_to_trap_sem, locks,
                   counts, entered>>

\* m68k_call_handler: the context goes on the task's stack ...
CallHandler ==
    /\ At("call")
    /\ ectx' = current_context
    /\ stack' = [stack EXCEPT ![running] =
                    Append(@, [ctx |-> current_context,
                               func |-> ctx[current_context].func_addr])]
    /\ regs' = [regs EXCEPT !.pc = "code"]
    /\ epc' = "call post"
    /\ UNCHANGED <<guest, thread, locks, counts, entered>>

\* ... other traps may run ...
CallPost ==
    /\ epc = "call post" /\ Unlock
    /\ epc' = "call mask"
    /\ UNCHANGED <<guest, regs, stack, ectx, thread, current_context, counts, entered>>

\* ... and interrupts are allowed again.
CallMask ==
    /\ epc = "call mask"
    /\ regs' = [regs EXCEPT !.intmask = ctx[ectx].saved.intmask]
    /\ epc' = "cpu"
    /\ UNCHANGED <<guest, stack, ectx, thread, locks, counts, entered>>

\* Fault: the mutex is not taken.
ReturnUnlocked ==
    /\ At("return")
    /\ ectx' = Last(stack[running]).ctx
    /\ stack' = [stack EXCEPT ![running] = Front(@)]
    /\ ctx' = [ctx EXCEPT ![Last(stack[running]).ctx].call68k_retval = regs.d0]
    /\ epc' = "return post"
    /\ UNCHANGED <<guest, regs, tpc, switch_to_emu_sem, switch_to_trap_sem,
                   locks, counts, entered>>

\* Fault: the context at the other end of the stack.
ReturnOldest ==
    /\ At("return") /\ Lock
    /\ ectx' = Head(stack[running]).ctx
    /\ stack' = [stack EXCEPT ![running] = Tail(@)]
    /\ ctx' = [ctx EXCEPT ![Head(stack[running]).ctx].call68k_retval = regs.d0]
    /\ epc' = "return post"
    /\ UNCHANGED <<guest, regs, tpc, switch_to_emu_sem, switch_to_trap_sem,
                   current_context, counts, entered>>

\* m68k_return_handler: the context is found on the stack and gets the result ...
ReturnHandler ==
    /\ At("return") /\ Lock
    /\ ectx' = Last(stack[running]).ctx
    /\ stack' = [stack EXCEPT ![running] = Front(@)]
    /\ ctx' = [ctx EXCEPT ![Last(stack[running]).ctx].call68k_retval = regs.d0]
    /\ epc' = "return post"
    /\ UNCHANGED <<guest, regs, tpc, switch_to_emu_sem, switch_to_trap_sem,
                   current_context, counts, entered>>

\* Fault: the emulation thread goes on without waiting.
ReturnAndRun ==
    /\ epc = "return post" /\ Post(switch_to_trap_sem, ectx)
    /\ epc' = "cpu"
    /\ UNCHANGED <<guest, regs, stack, ectx, tpc, ctx, switch_to_emu_sem, locks,
                   counts, entered>>

\* ... its thread goes on, and the emulation thread waits for the next switch.
ReturnPost ==
    /\ epc = "return post" /\ Post(switch_to_trap_sem, ectx)
    /\ epc' = "wait"
    /\ UNCHANGED <<guest, regs, stack, ectx, tpc, ctx, switch_to_emu_sem, locks,
                   counts, entered>>

\* Fault: interrupts stay masked.
ResultMasked(c) ==
    [ctx[c].saved EXCEPT !.d0 = IF ctx[c].has_retval THEN ctx[c].retval ELSE @,
                         !.intmask = 7]

\* The registers that the trap leaves behind.
Result(c) ==
    [ctx[c].saved EXCEPT !.d0 = IF ctx[c].has_retval THEN ctx[c].retval ELSE @]

\* exit_trap_handler: the thread is waited for, the registers are restored, the
\* context is freed ...
ExitHandler ==
    /\ At("exit") /\ (Joins => tpc[current_context] = "ended")
    /\ ectx' = current_context
    /\ regs' = Result(current_context)
    /\ freed' = freed \cup {current_context}
    /\ entered' = [entered EXCEPT ![running] = Front(@)]
    /\ epc' = "exit post"
    /\ UNCHANGED <<guest, stack, thread, locks, used, calls>>

\* ... and the mutex released.
ExitPost ==
    /\ epc = "exit post" /\ Unlock
    /\ epc' = "cpu"
    /\ UNCHANGED <<guest, regs, stack, ectx, thread, current_context, counts, entered>>

EmuStep ==
    \/ Resume \/ CallHandler \/ CallPost \/ CallMask \/ ReturnHandler \/ ReturnPost
    \/ ExitHandler \/ ExitPost

----------------------------------------------------------------------------
(* The thread of a trap: trap_thread and trap_Call68k *)

Goto(c, label) == tpc' = [tpc EXCEPT ![c] = label]

Start(c) ==
    /\ tpc[c] = "start" /\ Wait(switch_to_trap_sem, c)
    /\ Goto(c, "run")
    /\ UNCHANGED <<guest, regs, stack, epc, ectx, ctx, switch_to_emu_sem, locks,
                   counts, entered>>

\* The trap function calls guest code ...
WantCall(c) ==
    /\ tpc[c] = "run" /\ calls < MaxCalls
    /\ calls' = calls + 1
    /\ ctx' = [ctx EXCEPT ![c].func_addr = calls + 1]
    /\ Goto(c, "call")
    /\ UNCHANGED <<guest, regs, stack, epc, ectx, switch_to_emu_sem,
                   switch_to_trap_sem, locks, used, freed, entered>>

\* Fault: interrupts are not masked ("This is probably just being paranoid").
Call68kUnmasked(c) ==
    /\ tpc[c] = "call" /\ Lock
    /\ current_context' = c
    /\ regs' = [regs EXCEPT !.pc = "call", !.a = 1 - @]
    /\ Goto(c, "call post")
    /\ UNCHANGED <<guest, stack, epc, ectx, ctx, switch_to_emu_sem,
                   switch_to_trap_sem, counts, entered>>

\* ... with other registers than it found ...
Call68k(c) ==
    /\ tpc[c] = "call" /\ Lock
    /\ current_context' = c
    /\ regs' = [regs EXCEPT !.pc = "call", !.intmask = 7, !.a = 1 - @]
    /\ Goto(c, "call post")
    /\ UNCHANGED <<guest, stack, epc, ectx, ctx, switch_to_emu_sem,
                   switch_to_trap_sem, counts, entered>>

PostCall(c) ==
    /\ tpc[c] = "call post" /\ Post(switch_to_emu_sem, c)
    /\ Goto(c, "wait")
    /\ UNCHANGED <<guest, regs, stack, epc, ectx, ctx, switch_to_trap_sem, locks,
                   counts, entered>>

WaitReturn(c) ==
    /\ tpc[c] = "wait" /\ Wait(switch_to_trap_sem, c)
    /\ Goto(c, "returned")
    /\ UNCHANGED <<guest, regs, stack, epc, ectx, ctx, switch_to_emu_sem, locks,
                   counts, entered>>

\* Fault: the call is made again.
EndCallAgain(c) ==
    /\ tpc[c] = "returned" /\ Unlock
    /\ Goto(c, "call")
    /\ UNCHANGED <<guest, regs, stack, epc, ectx, ctx, switch_to_emu_sem,
                   switch_to_trap_sem, current_context, counts, entered>>

EndCall(c) ==
    /\ tpc[c] = "returned" /\ Unlock
    /\ Goto(c, "run")
    /\ UNCHANGED <<guest, regs, stack, epc, ectx, ctx, switch_to_emu_sem,
                   switch_to_trap_sem, current_context, counts, entered>>

\* ... or is done.
Finish(c) ==
    /\ tpc[c] = "run"
    /\ ctx' = [ctx EXCEPT ![c].retval = MaxCalls + c]
    /\ Goto(c, "exit")
    /\ UNCHANGED <<guest, regs, stack, epc, ectx, switch_to_emu_sem,
                   switch_to_trap_sem, locks, counts, entered>>

\* Fault: current_context stays that of the last call.
ExitTrapForget(c) ==
    /\ tpc[c] = "exit" /\ Lock
    /\ current_context' = IF current_context = 0 THEN c ELSE current_context
    /\ regs' = [ctx[c].saved EXCEPT !.pc = "exit", !.intmask = 7]
    /\ Goto(c, "exit post")
    /\ UNCHANGED <<guest, stack, epc, ectx, ctx, switch_to_emu_sem,
                   switch_to_trap_sem, counts, entered>>

ExitTrap(c) ==
    /\ tpc[c] = "exit" /\ Lock
    /\ current_context' = c
    /\ regs' = [ctx[c].saved EXCEPT !.pc = "exit", !.intmask = 7]
    /\ Goto(c, "exit post")
    /\ UNCHANGED <<guest, stack, epc, ectx, ctx, switch_to_emu_sem,
                   switch_to_trap_sem, counts, entered>>

PostExit(c) ==
    /\ tpc[c] = "exit post" /\ Post(switch_to_emu_sem, c)
    /\ Goto(c, "ending")
    /\ UNCHANGED <<guest, regs, stack, epc, ectx, ctx, switch_to_trap_sem, locks,
                   counts, entered>>

End(c) ==
    /\ tpc[c] = "ending"
    /\ Goto(c, "ended")
    /\ UNCHANGED <<guest, regs, stack, epc, ectx, ctx, switch_to_emu_sem,
                   switch_to_trap_sem, locks, counts, entered>>

ThreadStep(c) ==
    \/ Start(c) \/ WantCall(c) \/ PostCall(c) \/ WaitReturn(c) \/ EndCall(c)
    \/ Finish(c) \/ ExitTrap(c) \/ PostExit(c) \/ End(c) \/ Call68k(c)

----------------------------------------------------------------------------
TrapsNext ==
    \/ \E t \in Tasks : Switch(t) \/ Rts(t)
    \/ Compute \/ HandleExtendedTrap \/ EmuStep
    \/ \E c \in Contexts : ThreadStep(c)

TrapsSpec == TrapsInit /\ [][TrapsNext]_vars

\* Threads run; exec runs every task again and again; a task that has the CPU again
\* and again gets through its traps, and the functions that traps call return.
Progress(t) == running = t /\ (Rts(t) \/ EmuStep)

TrapsFairSpec ==
    /\ TrapsSpec
    /\ WF_vars(\E c \in Contexts : ThreadStep(c))
    /\ \A t \in Tasks : SF_vars(Switch(t)) /\ SF_vars(Progress(t))

----------------------------------------------------------------------------
(* Properties *)

TypeOK ==
    /\ running \in Tasks /\ regs \in Registers
    /\ saved \in [Tasks -> Registers]
    /\ stack \in [Tasks -> Seq([ctx : Contexts, func : 0 .. MaxCalls])]
    /\ epc \in {"cpu", "wait", "call post", "call mask", "return post", "exit post"}
    /\ ectx \in 0 .. MaxTraps /\ current_context \in 0 .. MaxTraps
    /\ tpc \in [Contexts -> {"none", "start", "run", "call", "call post", "wait",
                             "returned", "exit", "exit post", "ending", "ended"}]
    /\ ctx \in [Contexts -> TrapContext]
    /\ switch_to_emu_sem \in [Contexts -> {0, 1}]
    /\ switch_to_trap_sem \in [Contexts -> {0, 1}]
    /\ trap_mutex \in {0, 1}
    /\ used \in 0 .. MaxTraps /\ freed \subseteq Contexts /\ calls \in 0 .. MaxCalls
    /\ entered \in [Tasks -> Seq([ctx : Contexts, regs : Registers])]

\* Threads that may touch the registers of the emulated CPU: the emulation thread
\* unless it waits, a trap's thread unless it waits or has handed over.
EmuActive == epc # "wait" \/ switch_to_emu_sem[ectx] > 0
Active(c) ==
    \/ tpc[c] \in {"run", "call", "call post", "returned", "exit", "exit post"}
    \/ tpc[c] \in {"start", "wait"} /\ switch_to_trap_sem[c] > 0

\* The CPU's registers are a plain global structure (traps.cpp:273, :337): exactly
\* one thread has control of them.
OneAtATime ==
    /\ EmuActive => \A c \in Contexts : ~Active(c)
    /\ \A c, d \in Contexts : Active(c) /\ Active(d) => c = d
    /\ EmuActive \/ \E c \in Contexts : Active(c)

\* "Only one trap at a time, please!": no thread ever has to wait for trap_mutex.
\* If the emulation thread had to, it would wait for itself.
NeverContended ==
    /\ \A c \in Contexts : tpc[c] \in {"call", "exit"} => trap_mutex = 1
    /\ At("return") => trap_mutex = 1

\* The three traps run on the task whose trap they serve, innermost trap first,
\* however tasks were switched: current_context and the task's stack agree with
\* the traps that the task has entered.
RightTask ==
    LET mine == entered[running]
    IN  /\ At("call") \/ At("exit") =>
                mine # <<>> /\ Last(mine).ctx = current_context
        /\ At("return") =>
                stack[running] # <<>> /\ mine # <<>>
                /\ Last(mine).ctx = Last(stack[running]).ctx

\* Each call of guest code gives the trap function the result of that call.
RightAnswer ==
    \A c \in Contexts : tpc[c] = "returned" =>
        ctx[c].call68k_retval = ctx[c].func_addr

\* When the innermost trap of a task ends, the task finds its registers as they were
\* when it entered that trap, but for the result in D0.
Transparent ==
    [][ExitHandler =>
        LET e == Last(entered[running])
        IN  regs' = IF e.ctx \in NoRetval THEN e.regs
                    ELSE [e.regs EXCEPT !.d0 = MaxCalls + e.ctx]]_vars

\* Every trap returns to the task that entered it.
TrapsReturn == \A c \in Contexts : used >= c ~> c \in freed

\* "Wait for trap context thread to exit" (traps.cpp:445): the context and its
\* semaphores are freed only after the thread has ended.
ThreadGone == \A c \in freed : tpc[c] = "ended"
=============================================================================
