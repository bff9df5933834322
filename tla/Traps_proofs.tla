----------------------------- MODULE Traps_proofs -----------------------------
(***************************************************************************)
(* Extended traps of Traps: one thread at a time has the emulated CPU, the *)
(* mutex is never waited for, and every trap serves its own task, for any  *)
(* number of tasks, traps and calls.                                       *)
(***************************************************************************)
EXTENDS Traps, SequenceTheorems, TLAPS

(* Labels at which a trap's thread has control. *)
Working == {"run", "call", "call post", "returned", "exit", "exit post"}

(* The baton: at most one semaphore is up, and only for the context the emulation thread waits for. *)
BatonOf(c) ==
    /\ switch_to_emu_sem[c] = 1 =>
         /\ epc = "wait" /\ c = ectx /\ switch_to_trap_sem[c] = 0
         /\ tpc[c] \in {"wait", "ending", "ended"}
    /\ switch_to_trap_sem[c] = 1 => epc = "wait" /\ c = ectx /\ tpc[c] \in {"start", "wait"}
    /\ tpc[c] \in Working =>
         epc = "wait" /\ c = ectx /\ switch_to_emu_sem[c] = 0 /\ switch_to_trap_sem[c] = 0
    /\ tpc[c] = "start" => switch_to_trap_sem[c] = 1

Baton ==
    /\ \A c \in Contexts : BatonOf(c)
    /\ epc = "wait" =>
         /\ ectx \in Contexts
         /\ switch_to_emu_sem[ectx] = 1 \/ switch_to_trap_sem[ectx] = 1 \/ tpc[ectx] \in Working

(* Contexts that are not in use yet. *)
Fresh == \A c \in Contexts : c > used =>
            tpc[c] = "none" /\ switch_to_emu_sem[c] = 0 /\ switch_to_trap_sem[c] = 0

(* trap_mutex is taken from the moment a trap asks for guest code, or ends, until its handler is done. *)
Requested ==
    switch_to_emu_sem[ectx] = 1 \/ tpc[ectx] \in {"call post", "wait", "returned", "exit post"}

Mutex ==
    /\ epc = "wait" /\ Requested => trap_mutex = 0
    /\ epc = "wait" /\ ~Requested => trap_mutex = 1
    /\ epc = "cpu" /\ regs.pc \in {"call", "exit"} => trap_mutex = 0
    /\ epc = "cpu" /\ regs.pc \notin {"call", "exit"} => trap_mutex = 1
    /\ epc \in {"call post", "exit post", "return post"} => trap_mutex = 0
    /\ epc = "call mask" => trap_mutex = 1

(* The registers that a trap hands over, and what is left of them elsewhere. *)
HandsOver(c) ==
    /\ tpc[c] = "call post" => current_context = c /\ regs.pc = "call" /\ regs.intmask = 7
    /\ tpc[c] = "exit post" => current_context = c /\ regs.pc = "exit" /\ regs.intmask = 7
    /\ switch_to_emu_sem[c] = 1 => current_context = c /\ regs.intmask = 7
    /\ switch_to_emu_sem[c] = 1 /\ tpc[c] = "wait" => regs.pc = "call"
    /\ switch_to_emu_sem[c] = 1 /\ tpc[c] # "wait" => regs.pc = "exit"

Handed ==
    /\ \A c \in Contexts : HandsOver(c) /\ ctx[c].saved.pc = "code"
    /\ epc = "cpu" /\ regs.pc \in {"call", "exit"} =>
         /\ regs.intmask = 7 /\ current_context \in Contexts
         /\ regs.pc = "call" => tpc[current_context] = "wait"
         /\ regs.pc = "exit" => tpc[current_context] \in {"ending", "ended"}
    /\ epc \in {"call post", "call mask", "exit post"} => regs.pc = "code" /\ ectx \in Contexts
    /\ \A t \in Tasks : saved[t].pc \in {"code", "return"}

(* The innermost trap of the running task is at work, or on its way from or to its thread. *)
InTrap == epc \in {"wait", "return post"} \/ (epc = "cpu" /\ regs.pc \in {"call", "exit"})
Innermost == IF epc = "cpu" THEN current_context ELSE ectx

(* The stack of a task holds the traps it has entered, but for the one at work. *)
Nesting ==
    /\ \A t \in Tasks :
         /\ Len(entered[t]) = IF InTrap /\ t = running THEN Len(stack[t]) + 1 ELSE Len(stack[t])
         /\ \A i \in 1 .. Len(stack[t]) : stack[t][i].ctx = entered[t][i].ctx
    /\ InTrap => entered[running][Len(entered[running])].ctx = Innermost

(* A trap on a stack waits for the function it called. *)
OnStack ==
    \A t \in Tasks : \A i \in 1 .. Len(stack[t]) :
       LET c == stack[t][i].ctx
       IN  /\ tpc[c] = "wait" /\ switch_to_emu_sem[c] = 0 /\ switch_to_trap_sem[c] = 0
           /\ stack[t][i].func = ctx[c].func_addr

(* A context serves one trap. *)
Unique ==
    /\ \A t \in Tasks : \A i \in 1 .. Len(entered[t]) : entered[t][i].ctx <= used
    /\ \A t, u \in Tasks : \A i \in 1 .. Len(entered[t]), k \in 1 .. Len(entered[u]) :
         entered[t][i].ctx = entered[u][k].ctx => t = u /\ i = k

(* The result of a function on its way to the trap that called it. *)
KnowsAnswer(c) ==
    tpc[c] = "returned" \/ (tpc[c] = "wait" /\ switch_to_trap_sem[c] = 1) =>
        ctx[c].call68k_retval = ctx[c].func_addr

HasResult(t, r) == stack[t] # <<>> /\ r.d0 = stack[t][Len(stack[t])].func

SavedAnswers == \A t \in Tasks \ {running} : saved[t].pc = "return" => HasResult(t, saved[t])

Answers ==
    /\ epc = "cpu" /\ regs.pc = "return" => HasResult(running, regs)
    /\ SavedAnswers
    /\ epc = "return post" =>
         /\ ectx \in Contexts /\ tpc[ectx] = "wait"
         /\ ctx[ectx].call68k_retval = ctx[ectx].func_addr
    /\ \A c \in Contexts : KnowsAnswer(c)

(* What a context holds for the end of its trap. *)
KnowsResult(c) ==
    tpc[c] \in {"exit", "exit post", "ending", "ended"} => ctx[c].retval = MaxCalls + c

Kept ==
    \A t \in Tasks : \A i \in 1 .. Len(entered[t]) :
       LET e == entered[t][i]
       IN  ctx[e.ctx].saved = e.regs /\ (ctx[e.ctx].has_retval <=> e.ctx \notin NoRetval)

Contents == Kept /\ \A c \in Contexts : KnowsResult(c)

Inv == TypeOK /\ Baton /\ Fresh /\ Mutex /\ Handed /\ Nesting /\ OnStack /\ Unique
       /\ Answers /\ Contents

----------------------------------------------------------------------------
(* Sequences *)

LEMMA FrontFacts ==
    ASSUME NEW S, NEW s \in Seq(S), s # <<>>
    PROVE  /\ Len(s) \in Nat \ {0}
           /\ Front(s) \in Seq(S) /\ Len(Front(s)) = Len(s) - 1
           /\ \A i \in 1 .. Len(s) - 1 : Front(s)[i] = s[i]
           /\ Last(s) = s[Len(s)] /\ Last(s) \in S
  <1>1. Len(s) \in Nat /\ Len(s) # 0
    BY LenProperties, EmptySeq
  <1>2. \A i \in 1 .. Len(s) - 1 : s[i] \in S
    BY <1>1, ElementOfSeq
  <1>3. s[Len(s)] \in S
    BY <1>1, ElementOfSeq
  <1>4. /\ SubSeq(s, 1, Len(s) - 1) \in Seq(S)
        /\ Len(SubSeq(s, 1, Len(s) - 1)) = IF 1 <= Len(s) - 1 THEN Len(s) - 1 - 1 + 1 ELSE 0
        /\ \A i \in 1 .. Len(s) - 1 - 1 + 1 : SubSeq(s, 1, Len(s) - 1)[i] = s[1 + i - 1]
    BY <1>1, <1>2, SubSeqProperties
  <1>5. \A i \in 1 .. Len(s) - 1 : SubSeq(s, 1, Len(s) - 1)[i] = s[i]
    BY <1>1, <1>4
  <1>6. Len(SubSeq(s, 1, Len(s) - 1)) = Len(s) - 1
    <2> DEFINE n == Len(s) - 1
    <2>1. n \in Nat /\ Len(SubSeq(s, 1, n)) = IF 1 <= n THEN n - 1 + 1 ELSE 0
      BY <1>1, <1>4
    <2> HIDE DEF n
    <2>2. Len(SubSeq(s, 1, n)) = n
      BY <2>1
    <2> QED  BY <2>2 DEF n
  <1>7. SubSeq(s, 1, Len(s) - 1) \in Seq(S)
    BY <1>4
  <1> QED  BY <1>1, <1>3, <1>5, <1>6, <1>7 DEF Front, Last

----------------------------------------------------------------------------
(* The thread that has control *)

(* Context c is on the stack of some task. *)
Stacked(c) == \E t \in Tasks : \E i \in 1 .. Len(stack[t]) : stack[t][i].ctx = c

(* What every step of a trap's thread leaves alone. *)
Elsewhere(c) ==
    /\ UNCHANGED <<running, saved, stack, entered, epc, ectx, used, freed>>
    /\ \A d \in Contexts \ {c} :
         /\ tpc'[d] = tpc[d] /\ ctx'[d] = ctx[d]
         /\ switch_to_emu_sem'[d] = switch_to_emu_sem[d]
         /\ switch_to_trap_sem'[d] = switch_to_trap_sem[d]
    /\ ctx'[c].saved = ctx[c].saved /\ ctx'[c].has_retval = ctx[c].has_retval

LEMMA Lengths ==
    ASSUME TypeOK
    PROVE  \A t \in Tasks : Len(stack[t]) \in Nat /\ Len(entered[t]) \in Nat
  BY LenProperties DEF TypeOK

LEMMA Elements ==
    ASSUME TypeOK, NEW t \in Tasks
    PROVE  /\ \A i \in 1 .. Len(stack[t]) : stack[t][i] \in [ctx : Contexts, func : 0 .. MaxCalls]
           /\ \A i \in 1 .. Len(entered[t]) : entered[t][i] \in [ctx : Contexts, regs : Registers]
  <1>1. /\ stack[t] \in Seq([ctx : Contexts, func : 0 .. MaxCalls])
        /\ entered[t] \in Seq([ctx : Contexts, regs : Registers])
    BY DEF TypeOK
  <1> QED  BY <1>1, ElementOfSeq

(* The sets that the numbers are from. *)
LEMMA Numbers ==
    ASSUME TypeOK
    PROVE  /\ MaxTraps \in Nat /\ MaxCalls \in Nat
           /\ used \in Nat /\ used <= MaxTraps /\ calls \in Nat /\ calls <= MaxCalls
           /\ \A c \in Contexts : /\ c \in Nat /\ c > 0
                                  /\ switch_to_emu_sem[c] \in {0, 1}
                                  /\ switch_to_trap_sem[c] \in {0, 1}
  <1>1. used \in 0 .. MaxTraps /\ calls \in 0 .. MaxCalls
    BY DEF TypeOK
  <1>2. \A c \in Contexts : switch_to_emu_sem[c] \in {0, 1} /\ switch_to_trap_sem[c] \in {0, 1}
    BY DEF TypeOK
  <1> QED  BY <1>1, <1>2, TrapsAssumption DEF Contexts

(* The trap at work is on no stack. *)
LEMMA AtWork ==
    ASSUME Inv, InTrap
    PROVE  ~Stacked(Innermost)
  <1> SUFFICES ASSUME NEW t \in Tasks, NEW i \in 1 .. Len(stack[t]),
                      stack[t][i].ctx = Innermost
               PROVE  FALSE
    BY DEF Stacked
  <1>1. running \in Tasks /\ \A u \in Tasks : Len(stack[u]) \in Nat /\ Len(entered[u]) \in Nat
    BY Lengths DEF Inv, TypeOK
  <1>2. /\ Len(entered[running]) = Len(stack[running]) + 1
        /\ entered[running][Len(entered[running])].ctx = Innermost
        /\ entered[t][i].ctx = Innermost
        /\ Len(entered[t]) >= Len(stack[t]) /\ (t = running => Len(entered[t]) > Len(stack[t]))
    BY <1>1 DEF Inv, Nesting
  <1>3. i \in 1 .. Len(entered[t]) /\ Len(entered[running]) \in 1 .. Len(entered[running])
    BY <1>1, <1>2
  <1>4. t = running /\ i = Len(entered[running])
    BY <1>1, <1>2, <1>3 DEF Inv, Unique
  <1> QED  BY <1>1, <1>2, <1>4

(* A thread that has control has it alone, and its trap is at work. *)
LEMMA InControl ==
    ASSUME Inv, NEW c \in Contexts, tpc[c] \in Working \/ switch_to_trap_sem[c] = 1
    PROVE  /\ epc = "wait" /\ ectx = c /\ ~Stacked(c)
           /\ switch_to_emu_sem[c] = 0 /\ switch_to_emu_sem[c] # 1
           /\ tpc[c] \in Working => switch_to_trap_sem[c] = 0 /\ switch_to_trap_sem[c] # 1
           /\ used \in Nat /\ c <= used
           /\ \A d \in Contexts \ {c} :
                 /\ tpc[d] \notin Working /\ tpc[d] # "start"
                 /\ switch_to_emu_sem[d] # 1 /\ switch_to_trap_sem[d] # 1
  <1>1. epc = "wait" /\ ectx = c
    BY DEF Inv, Baton, BatonOf
  <1>2. \A d \in Contexts : switch_to_emu_sem[d] \in {0, 1} /\ switch_to_trap_sem[d] \in {0, 1}
    BY DEF Inv, TypeOK
  <1>3. switch_to_emu_sem[c] = 0 /\ (tpc[c] \in Working => switch_to_trap_sem[c] = 0)
    BY <1>2 DEF Inv, Baton, BatonOf
  <1>4. \A d \in Contexts \ {c} :
           /\ tpc[d] \notin Working /\ tpc[d] # "start"
           /\ switch_to_emu_sem[d] # 1 /\ switch_to_trap_sem[d] # 1
    BY <1>1, <1>2 DEF Inv, Baton, BatonOf
  <1>5. ~Stacked(c)
    BY <1>1, AtWork DEF InTrap, Innermost
  <1>6. used \in Nat /\ c <= used
    <2>1. used \in Nat /\ c \in Nat
      BY Numbers DEF Inv
    <2>2. tpc[c] # "none" \/ switch_to_trap_sem[c] = 1
      BY DEF Working
    <2> QED  BY <2>1, <2>2 DEF Inv, Fresh
  <1>7. /\ switch_to_emu_sem[c] # 1
        /\ tpc[c] \in Working => switch_to_trap_sem[c] # 1
    BY <1>3
  <1> QED  BY <1>1, <1>7, <1>3, <1>4, <1>5, <1>6

(* What most steps leave of the guest and of the contexts on its stacks. *)
Quiet ==
    /\ UNCHANGED <<running, saved, stack, entered, used>>
    /\ \A c \in Contexts : /\ ctx'[c].saved = ctx[c].saved
                           /\ ctx'[c].has_retval = ctx[c].has_retval
    /\ \A c \in Contexts : Stacked(c) =>
         /\ tpc'[c] = tpc[c] /\ ctx'[c].func_addr = ctx[c].func_addr
         /\ switch_to_emu_sem'[c] = switch_to_emu_sem[c]
         /\ switch_to_trap_sem'[c] = switch_to_trap_sem[c]

LEMMA GuestFrame ==
    ASSUME Inv, Quiet, InTrap' <=> InTrap, InTrap => Innermost' = Innermost
    PROVE  Nesting' /\ OnStack' /\ Unique' /\ SavedAnswers' /\ Kept'
  <1>1. Nesting'
    BY DEF Inv, Nesting, Quiet
  <1>2. OnStack'
    <2> SUFFICES ASSUME NEW t \in Tasks, NEW i \in 1 .. Len(stack[t])
                 PROVE  LET d == stack[t][i].ctx
                        IN  /\ tpc'[d] = "wait" /\ switch_to_emu_sem'[d] = 0
                            /\ switch_to_trap_sem'[d] = 0 /\ stack[t][i].func = ctx'[d].func_addr
      BY DEF OnStack, Quiet
    <2> DEFINE d == stack[t][i].ctx
    <2>1. d \in Contexts /\ Stacked(d)
      BY Elements DEF Stacked, Inv
    <2> QED  BY <2>1 DEF Inv, OnStack, Quiet
  <1>3. Unique'
    BY DEF Inv, Unique, Quiet
  <1>4. SavedAnswers'
    BY DEF Inv, Answers, SavedAnswers, HasResult, Quiet
  <1>5. Kept'
    <2>1. \A d \in Contexts : ctx'[d].saved = ctx[d].saved /\ ctx'[d].has_retval = ctx[d].has_retval
      BY DEF Quiet
    <2>2. \A t \in Tasks : \A i \in 1 .. Len(entered[t]) : entered[t][i].ctx \in Contexts
      BY Elements DEF Inv
    <2>3. entered' = entered
      BY DEF Quiet
    <2> QED  BY <2>1, <2>2, <2>3 DEF Inv, Contents, Kept
  <1> QED  BY <1>1, <1>2, <1>3, <1>4, <1>5

(* The parts of the invariant that a thread cannot disturb elsewhere. *)
LEMMA ThreadFrame ==
    ASSUME Inv, TypeOK', NEW c \in Contexts, Elsewhere(c),
           tpc[c] \in Working \/ switch_to_trap_sem[c] = 1,
           HandsOver(c)', KnowsAnswer(c)', KnowsResult(c)'
    PROVE  Handed' /\ Fresh' /\ Nesting' /\ OnStack' /\ Unique' /\ Answers' /\ Contents'
  <1>c. /\ epc = "wait" /\ ectx = c /\ epc' = "wait" /\ ectx' = c /\ ~Stacked(c)
        /\ used \in Nat /\ c <= used
        /\ \A d \in Contexts \ {c} : tpc[d] \notin Working /\ switch_to_emu_sem[d] # 1
    BY InControl DEF Elsewhere
  <1>0. Handed'
    <2>1. \A d \in Contexts \ {c} : HandsOver(d)'
      BY <1>c, Zenon DEF HandsOver, Working, Elsewhere
    <2>4. \A d \in Contexts : ctx'[d].saved = ctx[d].saved
      BY DEF Elsewhere
    <2>2. \A d \in Contexts : ctx'[d].saved.pc = "code"
      BY <2>4, Zenon DEF Inv, Handed
    <2>3. \A t \in Tasks : saved'[t].pc \in {"code", "return"}
      BY DEF Inv, Handed, Elsewhere
    <2> QED  BY <1>c, <2>1, <2>2, <2>3 DEF Handed
  <1>1. Fresh'
    <2> SUFFICES ASSUME NEW d \in Contexts, d > used
                 PROVE  tpc'[d] = "none" /\ switch_to_emu_sem'[d] = 0 /\ switch_to_trap_sem'[d] = 0
      BY DEF Fresh, Elsewhere
    <2>1. d # c
      <3>1. c \in Nat
        BY Numbers DEF Inv
      <3> QED  BY <1>c, <3>1
    <2> QED  BY <2>1 DEF Inv, Fresh, Elsewhere
  <1>q. Nesting' /\ OnStack' /\ Unique' /\ SavedAnswers' /\ Kept'
    <2>1. InTrap /\ InTrap' /\ Innermost = c /\ Innermost' = c
      BY <1>c DEF InTrap, Innermost
    <2>2. Quiet
      BY <1>c, Zenon DEF Quiet, Elsewhere
    <2> QED  BY <2>1, <2>2, GuestFrame
  <1>5. Answers'
    <2>1. \A d \in Contexts \ {c} : KnowsAnswer(d)'
      BY ZenonT(60) DEF Inv, Answers, KnowsAnswer, Elsewhere
    <2> QED  BY <1>c, <2>1, <1>q DEF Answers
  <1>6. Contents'
    <2>1. \A d \in Contexts \ {c} : KnowsResult(d)'
      BY DEF Inv, Contents, KnowsResult, Elsewhere
    <2> QED  BY <1>q, <2>1 DEF Contents
  <1> QED  BY <1>0, <1>1, <1>5, <1>6, <1>q

(* The steps of a trap's thread *)

LEMMA PostFacts ==
    ASSUME NEW sem \in [Contexts -> {0, 1}], NEW c \in Contexts, sem[c] = 0, NEW after,
           after = [sem EXCEPT ![c] = @ + 1]
    PROVE  /\ after \in [Contexts -> {0, 1}] /\ after[c] = 1
           /\ \A d \in Contexts \ {c} : after[d] = sem[d]
  <1>1. after = [sem EXCEPT ![c] = 1]
    OBVIOUS
  <1> QED  BY <1>1

LEMMA WaitFacts ==
    ASSUME NEW sem \in [Contexts -> {0, 1}], NEW c \in Contexts, sem[c] > 0, NEW after,
           after = [sem EXCEPT ![c] = @ - 1]
    PROVE  /\ after \in [Contexts -> {0, 1}] /\ sem[c] = 1 /\ after[c] = 0 /\ after[c] # 1
           /\ \A d \in Contexts \ {c} : after[d] = sem[d]
  <1>1. sem[c] \in {0, 1}
    OBVIOUS
  <1>2. sem[c] = 1
    BY <1>1
  <1>3. after = [sem EXCEPT ![c] = 0]
    BY <1>2
  <1> QED  BY <1>2, <1>3

LEMMA StartKeeps ==
    ASSUME Inv, NEW c \in Contexts, Start(c)
    PROVE  Inv'
  <1>1. /\ tpc[c] = "start" /\ tpc'[c] = "run"
        /\ \A e \in Contexts \ {c} : tpc'[e] = tpc[e]
        /\ tpc' \in [Contexts -> {"none", "start", "run", "call", "call post", "wait",
                               "returned", "exit", "exit post", "ending", "ended"}]
    BY DEF Inv, TypeOK, Start, Goto
  <1>2. UNCHANGED <<running, saved, stack, entered, epc, ectx, used, freed, regs,
                    ctx, calls, trap_mutex, current_context, switch_to_emu_sem>>
    BY DEF Start, guest, thread, locks, counts
  <1>3. switch_to_trap_sem[c] = 1
    BY Numbers DEF Inv, Start, Wait
  <1>4. /\ epc = "wait" /\ ectx = c
        /\ switch_to_emu_sem[c] = 0 /\ switch_to_emu_sem[c] # 1
        /\ \A e \in Contexts \ {c} :
              /\ tpc[e] \notin Working /\ tpc[e] # "start"
              /\ switch_to_emu_sem[e] # 1 /\ switch_to_trap_sem[e] # 1
    BY <1>3, InControl
  <1>5. switch_to_trap_sem \in [Contexts -> {0, 1}]
    BY DEF Inv, TypeOK
  <1>6. switch_to_trap_sem[c] > 0 /\ switch_to_trap_sem' = [switch_to_trap_sem EXCEPT ![c] = @ - 1]
    BY DEF Start, Wait
  <1>7. switch_to_trap_sem' \in [Contexts -> {0, 1}]
    BY <1>4, <1>5, <1>6, WaitFacts
  <1>8. /\ switch_to_trap_sem'[c] = 0 /\ switch_to_trap_sem'[c] # 1
        /\ \A e \in Contexts \ {c} : switch_to_trap_sem'[e] = switch_to_trap_sem[e]
    BY <1>4, <1>5, <1>6, WaitFacts
  <1>9. TypeOK'
    BY <1>1, <1>2, <1>7 DEF Inv, TypeOK
  <1>10. Elsewhere(c)
    BY <1>1, <1>2, <1>4, <1>8 DEF Elsewhere
  <1>11. switch_to_emu_sem'[c] # 1
    BY <1>2, <1>4, Zenon
  <1>12. HandsOver(c)'
    BY <1>1, <1>2, <1>4, <1>8, <1>11, Zenon DEF HandsOver
  <1>13. KnowsAnswer(c)'
    BY <1>1, <1>2, <1>4, <1>8, <1>3, <1>11, Zenon DEF KnowsAnswer
  <1>14. KnowsResult(c)'
    BY <1>1, <1>2, <1>4, <1>8, Zenon DEF KnowsResult
  <1>15. Handed' /\ Fresh' /\ Nesting' /\ OnStack' /\ Unique' /\ Answers' /\ Contents'
    BY <1>3, <1>9, <1>10, <1>11, <1>12, <1>13, <1>14, ThreadFrame
  <1>16. Baton'
    <2>0. /\ switch_to_emu_sem'[c] # 1 /\ switch_to_trap_sem'[c] # 1
          /\ \A e \in Contexts \ {c} : switch_to_emu_sem'[e] # 1 /\ switch_to_trap_sem'[e] # 1
      BY <1>1, <1>2, <1>4, <1>8, Zenon
    <2>1. BatonOf(c)'
      BY <1>1, <1>2, <1>4, <1>8, <2>0, Zenon DEF BatonOf, Working
    <2>2. \A e \in Contexts \ {c} : BatonOf(e)'
      BY <1>1, <1>2, <1>4, <1>8, <2>0, Zenon DEF BatonOf, Working
    <2>3. switch_to_emu_sem'[c] = 1 \/ switch_to_trap_sem'[c] = 1 \/ tpc'[c] \in Working
      BY <1>1, <1>2, <1>4, <1>8 DEF Working
    <2> QED  BY <1>2, <1>4, <2>1, <2>2, <2>3 DEF Baton
  <1>17. Mutex'
    BY <1>1, <1>2, <1>4, <1>8, <1>3 DEF Inv, Mutex, Requested
  <1> QED  BY <1>9, <1>15, <1>16, <1>17 DEF Inv

LEMMA WantCallKeeps ==
    ASSUME Inv, NEW c \in Contexts, WantCall(c)
    PROVE  Inv'
  <1>1. /\ tpc[c] = "run" /\ tpc'[c] = "call"
        /\ \A e \in Contexts \ {c} : tpc'[e] = tpc[e]
        /\ tpc' \in [Contexts -> {"none", "start", "run", "call", "call post", "wait",
                               "returned", "exit", "exit post", "ending", "ended"}]
    BY DEF Inv, TypeOK, WantCall, Goto
  <1>2. UNCHANGED <<running, saved, stack, entered, epc, ectx, used, freed, regs,
                    trap_mutex, current_context, switch_to_emu_sem, switch_to_trap_sem>>
    BY DEF WantCall, guest, thread, locks, counts
  <1>3. tpc[c] \in Working
    BY <1>1 DEF Working
  <1>4. /\ epc = "wait" /\ ectx = c
        /\ switch_to_emu_sem[c] = 0 /\ switch_to_emu_sem[c] # 1
        /\ switch_to_trap_sem[c] = 0 /\ switch_to_trap_sem[c] # 1
        /\ \A e \in Contexts \ {c} :
              /\ tpc[e] \notin Working /\ tpc[e] # "start"
              /\ switch_to_emu_sem[e] # 1 /\ switch_to_trap_sem[e] # 1
    BY <1>3, InControl
  <1>5. calls' \in 0 .. MaxCalls /\ calls + 1 \in 0 .. MaxCalls
    BY Numbers DEF Inv, WantCall
  <1>6. ctx' = [ctx EXCEPT ![c].func_addr = calls + 1] /\ ctx \in [Contexts -> TrapContext]
    BY DEF Inv, TypeOK, WantCall
  <1>7. ctx' \in [Contexts -> TrapContext]
    BY <1>5, <1>6 DEF TrapContext
  <1>8. /\ \A e \in Contexts \ {c} : ctx'[e] = ctx[e]
        /\ \A e \in Contexts : ctx'[e].saved = ctx[e].saved
        /\ ctx'[c].has_retval = ctx[c].has_retval
    BY <1>6 DEF TrapContext
  <1>9. TypeOK'
    BY <1>1, <1>2, <1>5, <1>7 DEF Inv, TypeOK
  <1>10. Elsewhere(c)
    BY <1>1, <1>2, <1>4, <1>5, <1>8 DEF Elsewhere
  <1>11. switch_to_emu_sem'[c] # 1
    BY <1>2, <1>4, Zenon
  <1>12. HandsOver(c)'
    BY <1>1, <1>2, <1>4, <1>5, <1>8, <1>11, Zenon DEF HandsOver
  <1>13. KnowsAnswer(c)'
    BY <1>1, <1>2, <1>4, <1>5, <1>8, <1>11, Zenon DEF KnowsAnswer
  <1>14. KnowsResult(c)'
    BY <1>1, <1>2, <1>4, <1>5, <1>8, Zenon DEF KnowsResult
  <1>15. Handed' /\ Fresh' /\ Nesting' /\ OnStack' /\ Unique' /\ Answers' /\ Contents'
    BY <1>3, <1>9, <1>10, <1>11, <1>12, <1>13, <1>14, ThreadFrame
  <1>16. Baton'
    <2>0. /\ switch_to_emu_sem'[c] # 1 /\ switch_to_trap_sem'[c] # 1
          /\ \A e \in Contexts \ {c} : switch_to_emu_sem'[e] # 1 /\ switch_to_trap_sem'[e] # 1
      BY <1>1, <1>2, <1>4, <1>5, <1>8, Zenon
    <2>1. BatonOf(c)'
      BY <1>1, <1>2, <1>4, <1>5, <1>8, <2>0, Zenon DEF BatonOf, Working
    <2>2. \A e \in Contexts \ {c} : BatonOf(e)'
      BY <1>1, <1>2, <1>4, <1>5, <1>8, <2>0, Zenon DEF BatonOf, Working
    <2>3. switch_to_emu_sem'[c] = 1 \/ switch_to_trap_sem'[c] = 1 \/ tpc'[c] \in Working
      BY <1>1, <1>2, <1>4, <1>5, <1>8 DEF Working
    <2> QED  BY <1>2, <1>4, <2>1, <2>2, <2>3 DEF Baton
  <1>17. Mutex'
    BY <1>1, <1>2, <1>4, <1>5, <1>8 DEF Inv, Mutex, Requested
  <1> QED  BY <1>9, <1>15, <1>16, <1>17 DEF Inv

LEMMA Call68kKeeps ==
    ASSUME Inv, NEW c \in Contexts, Call68k(c)
    PROVE  Inv'
  <1>1. /\ tpc[c] = "call" /\ tpc'[c] = "call post"
        /\ \A e \in Contexts \ {c} : tpc'[e] = tpc[e]
        /\ tpc' \in [Contexts -> {"none", "start", "run", "call", "call post", "wait",
                               "returned", "exit", "exit post", "ending", "ended"}]
    BY DEF Inv, TypeOK, Call68k, Goto
  <1>2. UNCHANGED <<running, saved, stack, entered, epc, ectx, used, freed, ctx,
                    calls, switch_to_emu_sem, switch_to_trap_sem>>
    BY DEF Call68k, guest, thread, locks, counts
  <1>3. tpc[c] \in Working
    BY <1>1 DEF Working
  <1>4. /\ epc = "wait" /\ ectx = c
        /\ switch_to_emu_sem[c] = 0 /\ switch_to_emu_sem[c] # 1
        /\ switch_to_trap_sem[c] = 0 /\ switch_to_trap_sem[c] # 1
        /\ \A e \in Contexts \ {c} :
              /\ tpc[e] \notin Working /\ tpc[e] # "start"
              /\ switch_to_emu_sem[e] # 1 /\ switch_to_trap_sem[e] # 1
    BY <1>3, InControl
  <1>5. trap_mutex' = 0 /\ current_context' = c
    BY DEF Call68k, Lock
  <1>6. c \in 0 .. MaxTraps
    BY Numbers DEF Inv, Contexts
  <1>7. regs \in Registers /\ regs' = [regs EXCEPT !.pc = "call", !.intmask = 7, !.a = 1 - @]
    BY DEF Inv, TypeOK, Call68k
  <1>8. 1 - regs.a \in {0, 1}
    BY <1>7 DEF Registers
  <1>9. regs' \in Registers
    BY <1>7, <1>8 DEF Registers
  <1>10. regs'.pc = "call" /\ regs'.intmask = 7
    BY <1>7 DEF Registers
  <1>11. TypeOK'
    BY <1>1, <1>2, <1>5, <1>6, <1>9 DEF Inv, TypeOK
  <1>12. Elsewhere(c)
    BY <1>1, <1>2, <1>4, <1>5, <1>10 DEF Elsewhere
  <1>13. switch_to_emu_sem'[c] # 1
    BY <1>2, <1>4, Zenon
  <1>14. HandsOver(c)'
    BY <1>1, <1>2, <1>4, <1>5, <1>10, <1>13, Zenon DEF HandsOver
  <1>15. KnowsAnswer(c)'
    BY <1>1, <1>2, <1>4, <1>5, <1>10, <1>13, Zenon DEF KnowsAnswer
  <1>16. KnowsResult(c)'
    BY <1>1, <1>2, <1>4, <1>5, <1>10, Zenon DEF KnowsResult
  <1>17. Handed' /\ Fresh' /\ Nesting' /\ OnStack' /\ Unique' /\ Answers' /\ Contents'
    BY <1>3, <1>11, <1>12, <1>13, <1>14, <1>15, <1>16, ThreadFrame
  <1>18. Baton'
    <2>0. /\ switch_to_emu_sem'[c] # 1 /\ switch_to_trap_sem'[c] # 1
          /\ \A e \in Contexts \ {c} : switch_to_emu_sem'[e] # 1 /\ switch_to_trap_sem'[e] # 1
      BY <1>1, <1>2, <1>4, <1>5, <1>10, Zenon
    <2>1. BatonOf(c)'
      BY <1>1, <1>2, <1>4, <1>5, <1>10, <2>0, Zenon DEF BatonOf, Working
    <2>2. \A e \in Contexts \ {c} : BatonOf(e)'
      BY <1>1, <1>2, <1>4, <1>5, <1>10, <2>0, Zenon DEF BatonOf, Working
    <2>3. switch_to_emu_sem'[c] = 1 \/ switch_to_trap_sem'[c] = 1 \/ tpc'[c] \in Working
      BY <1>1, <1>2, <1>4, <1>5, <1>10 DEF Working
    <2> QED  BY <1>2, <1>4, <2>1, <2>2, <2>3 DEF Baton
  <1>19. Mutex'
    BY <1>1, <1>2, <1>4, <1>5, <1>10 DEF Inv, Mutex, Requested
  <1> QED  BY <1>11, <1>17, <1>18, <1>19 DEF Inv

LEMMA PostCallKeeps ==
    ASSUME Inv, NEW c \in Contexts, PostCall(c)
    PROVE  Inv'
  <1>1. /\ tpc[c] = "call post" /\ tpc'[c] = "wait"
        /\ \A e \in Contexts \ {c} : tpc'[e] = tpc[e]
        /\ tpc' \in [Contexts -> {"none", "start", "run", "call", "call post", "wait",
                               "returned", "exit", "exit post", "ending", "ended"}]
    BY DEF Inv, TypeOK, PostCall, Goto
  <1>2. UNCHANGED <<running, saved, stack, entered, epc, ectx, used, freed, regs,
                    ctx, calls, trap_mutex, current_context, switch_to_trap_sem>>
    BY DEF PostCall, guest, thread, locks, counts
  <1>3. tpc[c] \in Working
    BY <1>1 DEF Working
  <1>4. /\ epc = "wait" /\ ectx = c
        /\ switch_to_emu_sem[c] = 0 /\ switch_to_emu_sem[c] # 1
        /\ switch_to_trap_sem[c] = 0 /\ switch_to_trap_sem[c] # 1
        /\ \A e \in Contexts \ {c} :
              /\ tpc[e] \notin Working /\ tpc[e] # "start"
              /\ switch_to_emu_sem[e] # 1 /\ switch_to_trap_sem[e] # 1
    BY <1>3, InControl
  <1>5. switch_to_emu_sem \in [Contexts -> {0, 1}]
    BY DEF Inv, TypeOK
  <1>6. switch_to_emu_sem' = [switch_to_emu_sem EXCEPT ![c] = @ + 1]
    BY DEF PostCall, Post
  <1>7. switch_to_emu_sem' \in [Contexts -> {0, 1}]
    BY <1>4, <1>5, <1>6, PostFacts
  <1>8. /\ switch_to_emu_sem'[c] = 1
        /\ \A e \in Contexts \ {c} : switch_to_emu_sem'[e] = switch_to_emu_sem[e]
    BY <1>4, <1>5, <1>6, PostFacts
  <1>9. TypeOK'
    BY <1>1, <1>2, <1>7 DEF Inv, TypeOK
  <1>10. Elsewhere(c)
    BY <1>1, <1>2, <1>4, <1>8 DEF Elsewhere
  <1>11. HandsOver(c)'
    BY <1>1, <1>2, <1>4, <1>8, Zenon DEF Inv, Handed, HandsOver
  <1>12. switch_to_trap_sem'[c] # 1
    BY <1>2, <1>4, Zenon
  <1>13. KnowsAnswer(c)'
    BY <1>1, <1>2, <1>4, <1>8, <1>12, Zenon DEF KnowsAnswer
  <1>14. KnowsResult(c)'
    BY <1>1, <1>2, <1>4, <1>8, Zenon DEF KnowsResult
  <1>15. Handed' /\ Fresh' /\ Nesting' /\ OnStack' /\ Unique' /\ Answers' /\ Contents'
    BY <1>3, <1>9, <1>10, <1>11, <1>12, <1>13, <1>14, ThreadFrame
  <1>16. Baton'
    <2>0. /\ switch_to_trap_sem'[c] # 1
          /\ \A e \in Contexts \ {c} : switch_to_emu_sem'[e] # 1 /\ switch_to_trap_sem'[e] # 1
      BY <1>1, <1>2, <1>4, <1>8, Zenon
    <2>1. BatonOf(c)'
      BY <1>1, <1>2, <1>4, <1>8, <2>0, Zenon DEF BatonOf, Working
    <2>2. \A e \in Contexts \ {c} : BatonOf(e)'
      BY <1>1, <1>2, <1>4, <1>8, <2>0, Zenon DEF BatonOf, Working
    <2>3. switch_to_emu_sem'[c] = 1 \/ switch_to_trap_sem'[c] = 1 \/ tpc'[c] \in Working
      BY <1>1, <1>2, <1>4, <1>8 DEF Working
    <2> QED  BY <1>2, <1>4, <2>1, <2>2, <2>3 DEF Baton
  <1>17. Mutex'
    BY <1>1, <1>2, <1>4, <1>8 DEF Inv, Mutex, Requested
  <1> QED  BY <1>9, <1>15, <1>16, <1>17 DEF Inv

LEMMA WaitReturnKeeps ==
    ASSUME Inv, NEW c \in Contexts, WaitReturn(c)
    PROVE  Inv'
  <1>1. /\ tpc[c] = "wait" /\ tpc'[c] = "returned"
        /\ \A e \in Contexts \ {c} : tpc'[e] = tpc[e]
        /\ tpc' \in [Contexts -> {"none", "start", "run", "call", "call post", "wait",
                               "returned", "exit", "exit post", "ending", "ended"}]
    BY DEF Inv, TypeOK, WaitReturn, Goto
  <1>2. UNCHANGED <<running, saved, stack, entered, epc, ectx, used, freed, regs,
                    ctx, calls, trap_mutex, current_context, switch_to_emu_sem>>
    BY DEF WaitReturn, guest, thread, locks, counts
  <1>3. switch_to_trap_sem[c] = 1
    BY Numbers DEF Inv, WaitReturn, Wait
  <1>4. /\ epc = "wait" /\ ectx = c
        /\ switch_to_emu_sem[c] = 0 /\ switch_to_emu_sem[c] # 1
        /\ \A e \in Contexts \ {c} :
              /\ tpc[e] \notin Working /\ tpc[e] # "start"
              /\ switch_to_emu_sem[e] # 1 /\ switch_to_trap_sem[e] # 1
    BY <1>3, InControl
  <1>5. switch_to_trap_sem \in [Contexts -> {0, 1}]
    BY DEF Inv, TypeOK
  <1>6. switch_to_trap_sem[c] > 0 /\ switch_to_trap_sem' = [switch_to_trap_sem EXCEPT ![c] = @ - 1]
    BY DEF WaitReturn, Wait
  <1>7. switch_to_trap_sem' \in [Contexts -> {0, 1}]
    BY <1>4, <1>5, <1>6, WaitFacts
  <1>8. /\ switch_to_trap_sem'[c] = 0 /\ switch_to_trap_sem'[c] # 1
        /\ \A e \in Contexts \ {c} : switch_to_trap_sem'[e] = switch_to_trap_sem[e]
    BY <1>4, <1>5, <1>6, WaitFacts
  <1>9. TypeOK'
    BY <1>1, <1>2, <1>7 DEF Inv, TypeOK
  <1>10. Elsewhere(c)
    BY <1>1, <1>2, <1>4, <1>8 DEF Elsewhere
  <1>11. switch_to_emu_sem'[c] # 1
    BY <1>2, <1>4, Zenon
  <1>12. HandsOver(c)'
    BY <1>1, <1>2, <1>4, <1>8, <1>11, Zenon DEF HandsOver
  <1>13. KnowsAnswer(c)'
    BY <1>1, <1>2, <1>4, <1>8, <1>3, <1>11, Zenon DEF Inv, Answers, KnowsAnswer
  <1>14. KnowsResult(c)'
    BY <1>1, <1>2, <1>4, <1>8, Zenon DEF KnowsResult
  <1>15. Handed' /\ Fresh' /\ Nesting' /\ OnStack' /\ Unique' /\ Answers' /\ Contents'
    BY <1>3, <1>9, <1>10, <1>11, <1>12, <1>13, <1>14, ThreadFrame
  <1>16. Baton'
    <2>0. /\ switch_to_emu_sem'[c] # 1 /\ switch_to_trap_sem'[c] # 1
          /\ \A e \in Contexts \ {c} : switch_to_emu_sem'[e] # 1 /\ switch_to_trap_sem'[e] # 1
      BY <1>1, <1>2, <1>4, <1>8, Zenon
    <2>1. BatonOf(c)'
      BY <1>1, <1>2, <1>4, <1>8, <2>0, Zenon DEF BatonOf, Working
    <2>2. \A e \in Contexts \ {c} : BatonOf(e)'
      BY <1>1, <1>2, <1>4, <1>8, <2>0, Zenon DEF BatonOf, Working
    <2>3. switch_to_emu_sem'[c] = 1 \/ switch_to_trap_sem'[c] = 1 \/ tpc'[c] \in Working
      BY <1>1, <1>2, <1>4, <1>8 DEF Working
    <2> QED  BY <1>2, <1>4, <2>1, <2>2, <2>3 DEF Baton
  <1>17. Mutex'
    BY <1>1, <1>2, <1>4, <1>8, <1>3 DEF Inv, Mutex, Requested
  <1> QED  BY <1>9, <1>15, <1>16, <1>17 DEF Inv

LEMMA EndCallKeeps ==
    ASSUME Inv, NEW c \in Contexts, EndCall(c)
    PROVE  Inv'
  <1>1. /\ tpc[c] = "returned" /\ tpc'[c] = "run"
        /\ \A e \in Contexts \ {c} : tpc'[e] = tpc[e]
        /\ tpc' \in [Contexts -> {"none", "start", "run", "call", "call post", "wait",
                               "returned", "exit", "exit post", "ending", "ended"}]
    BY DEF Inv, TypeOK, EndCall, Goto
  <1>2. UNCHANGED <<running, saved, stack, entered, epc, ectx, used, freed, regs,
                    ctx, calls, current_context, switch_to_emu_sem, switch_to_trap_sem>>
    BY DEF EndCall, Unlock, guest, thread, locks, counts
  <1>3. tpc[c] \in Working
    BY <1>1 DEF Working
  <1>4. /\ epc = "wait" /\ ectx = c
        /\ switch_to_emu_sem[c] = 0 /\ switch_to_emu_sem[c] # 1
        /\ switch_to_trap_sem[c] = 0 /\ switch_to_trap_sem[c] # 1
        /\ \A e \in Contexts \ {c} :
              /\ tpc[e] \notin Working /\ tpc[e] # "start"
              /\ switch_to_emu_sem[e] # 1 /\ switch_to_trap_sem[e] # 1
    BY <1>3, InControl
  <1>5. trap_mutex = 0
    BY <1>1, <1>2, <1>4 DEF Inv, Mutex, Requested
  <1>6. trap_mutex' = 1
    BY <1>5 DEF EndCall, Unlock
  <1>7. TypeOK'
    BY <1>1, <1>2, <1>6 DEF Inv, TypeOK
  <1>8. Elsewhere(c)
    BY <1>1, <1>2, <1>4, <1>6 DEF Elsewhere
  <1>9. switch_to_emu_sem'[c] # 1
    BY <1>2, <1>4, Zenon
  <1>10. HandsOver(c)'
    BY <1>1, <1>2, <1>4, <1>6, <1>9, Zenon DEF HandsOver
  <1>11. KnowsAnswer(c)'
    BY <1>1, <1>2, <1>4, <1>6, <1>9, Zenon DEF KnowsAnswer
  <1>12. KnowsResult(c)'
    BY <1>1, <1>2, <1>4, <1>6, Zenon DEF KnowsResult
  <1>13. Handed' /\ Fresh' /\ Nesting' /\ OnStack' /\ Unique' /\ Answers' /\ Contents'
    BY <1>3, <1>7, <1>8, <1>9, <1>10, <1>11, <1>12, ThreadFrame
  <1>14. Baton'
    <2>0. /\ switch_to_emu_sem'[c] # 1 /\ switch_to_trap_sem'[c] # 1
          /\ \A e \in Contexts \ {c} : switch_to_emu_sem'[e] # 1 /\ switch_to_trap_sem'[e] # 1
      BY <1>1, <1>2, <1>4, <1>6, Zenon
    <2>1. BatonOf(c)'
      BY <1>1, <1>2, <1>4, <1>6, <2>0, Zenon DEF BatonOf, Working
    <2>2. \A e \in Contexts \ {c} : BatonOf(e)'
      BY <1>1, <1>2, <1>4, <1>6, <2>0, Zenon DEF BatonOf, Working
    <2>3. switch_to_emu_sem'[c] = 1 \/ switch_to_trap_sem'[c] = 1 \/ tpc'[c] \in Working
      BY <1>1, <1>2, <1>4, <1>6 DEF Working
    <2> QED  BY <1>2, <1>4, <2>1, <2>2, <2>3 DEF Baton
  <1>15. Mutex'
    BY <1>1, <1>2, <1>4, <1>6 DEF Inv, Mutex, Requested
  <1> QED  BY <1>7, <1>13, <1>14, <1>15 DEF Inv

LEMMA FinishKeeps ==
    ASSUME Inv, NEW c \in Contexts, Finish(c)
    PROVE  Inv'
  <1>1. /\ tpc[c] = "run" /\ tpc'[c] = "exit"
        /\ \A e \in Contexts \ {c} : tpc'[e] = tpc[e]
        /\ tpc' \in [Contexts -> {"none", "start", "run", "call", "call post", "wait",
                               "returned", "exit", "exit post", "ending", "ended"}]
    BY DEF Inv, TypeOK, Finish, Goto
  <1>2. UNCHANGED <<running, saved, stack, entered, epc, ectx, used, freed, regs,
                    calls, trap_mutex, current_context, switch_to_emu_sem, switch_to_trap_sem>>
    BY DEF Finish, guest, thread, locks, counts
  <1>3. tpc[c] \in Working
    BY <1>1 DEF Working
  <1>4. /\ epc = "wait" /\ ectx = c
        /\ switch_to_emu_sem[c] = 0 /\ switch_to_emu_sem[c] # 1
        /\ switch_to_trap_sem[c] = 0 /\ switch_to_trap_sem[c] # 1
        /\ \A e \in Contexts \ {c} :
              /\ tpc[e] \notin Working /\ tpc[e] # "start"
              /\ switch_to_emu_sem[e] # 1 /\ switch_to_trap_sem[e] # 1
    BY <1>3, InControl
  <1>5. MaxCalls + c \in Nat
    BY Numbers DEF Inv
  <1>6. ctx' = [ctx EXCEPT ![c].retval = MaxCalls + c] /\ ctx \in [Contexts -> TrapContext]
    BY DEF Inv, TypeOK, Finish
  <1>7. ctx' \in [Contexts -> TrapContext]
    BY <1>5, <1>6 DEF TrapContext
  <1>8. /\ \A e \in Contexts \ {c} : ctx'[e] = ctx[e]
        /\ \A e \in Contexts : ctx'[e].saved = ctx[e].saved
        /\ ctx'[c].has_retval = ctx[c].has_retval /\ ctx'[c].retval = MaxCalls + c
    BY <1>5, <1>6 DEF TrapContext
  <1>9. TypeOK'
    BY <1>1, <1>2, <1>7 DEF Inv, TypeOK
  <1>10. Elsewhere(c)
    BY <1>1, <1>2, <1>4, <1>8 DEF Elsewhere
  <1>11. switch_to_emu_sem'[c] # 1
    BY <1>2, <1>4, Zenon
  <1>12. HandsOver(c)'
    BY <1>1, <1>2, <1>4, <1>8, <1>11, Zenon DEF HandsOver
  <1>13. KnowsAnswer(c)'
    BY <1>1, <1>2, <1>4, <1>8, <1>11, Zenon DEF KnowsAnswer
  <1>14. KnowsResult(c)'
    BY <1>1, <1>2, <1>4, <1>8 DEF KnowsResult
  <1>15. Handed' /\ Fresh' /\ Nesting' /\ OnStack' /\ Unique' /\ Answers' /\ Contents'
    BY <1>3, <1>9, <1>10, <1>11, <1>12, <1>13, <1>14, ThreadFrame
  <1>16. Baton'
    <2>0. /\ switch_to_emu_sem'[c] # 1 /\ switch_to_trap_sem'[c] # 1
          /\ \A e \in Contexts \ {c} : switch_to_emu_sem'[e] # 1 /\ switch_to_trap_sem'[e] # 1
      BY <1>1, <1>2, <1>4, <1>8, Zenon
    <2>1. BatonOf(c)'
      BY <1>1, <1>2, <1>4, <1>8, <2>0, Zenon DEF BatonOf, Working
    <2>2. \A e \in Contexts \ {c} : BatonOf(e)'
      BY <1>1, <1>2, <1>4, <1>8, <2>0, Zenon DEF BatonOf, Working
    <2>3. switch_to_emu_sem'[c] = 1 \/ switch_to_trap_sem'[c] = 1 \/ tpc'[c] \in Working
      BY <1>1, <1>2, <1>4, <1>8 DEF Working
    <2> QED  BY <1>2, <1>4, <2>1, <2>2, <2>3 DEF Baton
  <1>17. Mutex'
    BY <1>1, <1>2, <1>4, <1>8 DEF Inv, Mutex, Requested
  <1> QED  BY <1>9, <1>15, <1>16, <1>17 DEF Inv

LEMMA ExitTrapKeeps ==
    ASSUME Inv, NEW c \in Contexts, ExitTrap(c)
    PROVE  Inv'
  <1>1. /\ tpc[c] = "exit" /\ tpc'[c] = "exit post"
        /\ \A e \in Contexts \ {c} : tpc'[e] = tpc[e]
        /\ tpc' \in [Contexts -> {"none", "start", "run", "call", "call post", "wait",
                               "returned", "exit", "exit post", "ending", "ended"}]
    BY DEF Inv, TypeOK, ExitTrap, Goto
  <1>2. UNCHANGED <<running, saved, stack, entered, epc, ectx, used, freed, ctx,
                    calls, switch_to_emu_sem, switch_to_trap_sem>>
    BY DEF ExitTrap, guest, thread, locks, counts
  <1>3. tpc[c] \in Working
    BY <1>1 DEF Working
  <1>4. /\ epc = "wait" /\ ectx = c
        /\ switch_to_emu_sem[c] = 0 /\ switch_to_emu_sem[c] # 1
        /\ switch_to_trap_sem[c] = 0 /\ switch_to_trap_sem[c] # 1
        /\ \A e \in Contexts \ {c} :
              /\ tpc[e] \notin Working /\ tpc[e] # "start"
              /\ switch_to_emu_sem[e] # 1 /\ switch_to_trap_sem[e] # 1
    BY <1>3, InControl
  <1>5. trap_mutex' = 0 /\ current_context' = c
    BY DEF ExitTrap, Lock
  <1>6. c \in 0 .. MaxTraps
    BY Numbers DEF Inv, Contexts
  <1>7. ctx[c].saved \in Registers
    BY DEF Inv, TypeOK, TrapContext
  <1>8. regs' \in Registers
    BY <1>7 DEF Registers, ExitTrap
  <1>9. regs'.pc = "exit" /\ regs'.intmask = 7
    BY <1>7 DEF Registers, ExitTrap
  <1>10. TypeOK'
    BY <1>1, <1>2, <1>5, <1>6, <1>8 DEF Inv, TypeOK
  <1>11. Elsewhere(c)
    BY <1>1, <1>2, <1>4, <1>5, <1>9 DEF Elsewhere
  <1>12. switch_to_emu_sem'[c] # 1
    BY <1>2, <1>4, Zenon
  <1>13. HandsOver(c)'
    BY <1>1, <1>2, <1>4, <1>5, <1>9, <1>12, Zenon DEF HandsOver
  <1>14. KnowsAnswer(c)'
    BY <1>1, <1>2, <1>4, <1>5, <1>9, <1>12, Zenon DEF KnowsAnswer
  <1>15. KnowsResult(c)'
    BY <1>1, <1>2, <1>4, <1>5, <1>9, Zenon DEF Inv, Contents, KnowsResult
  <1>16. Handed' /\ Fresh' /\ Nesting' /\ OnStack' /\ Unique' /\ Answers' /\ Contents'
    BY <1>3, <1>10, <1>11, <1>12, <1>13, <1>14, <1>15, ThreadFrame
  <1>17. Baton'
    <2>0. /\ switch_to_emu_sem'[c] # 1 /\ switch_to_trap_sem'[c] # 1
          /\ \A e \in Contexts \ {c} : switch_to_emu_sem'[e] # 1 /\ switch_to_trap_sem'[e] # 1
      BY <1>1, <1>2, <1>4, <1>5, <1>9, Zenon
    <2>1. BatonOf(c)'
      BY <1>1, <1>2, <1>4, <1>5, <1>9, <2>0, Zenon DEF BatonOf, Working
    <2>2. \A e \in Contexts \ {c} : BatonOf(e)'
      BY <1>1, <1>2, <1>4, <1>5, <1>9, <2>0, Zenon DEF BatonOf, Working
    <2>3. switch_to_emu_sem'[c] = 1 \/ switch_to_trap_sem'[c] = 1 \/ tpc'[c] \in Working
      BY <1>1, <1>2, <1>4, <1>5, <1>9 DEF Working
    <2> QED  BY <1>2, <1>4, <2>1, <2>2, <2>3 DEF Baton
  <1>18. Mutex'
    BY <1>1, <1>2, <1>4, <1>5, <1>9 DEF Inv, Mutex, Requested
  <1> QED  BY <1>10, <1>16, <1>17, <1>18 DEF Inv

LEMMA PostExitKeeps ==
    ASSUME Inv, NEW c \in Contexts, PostExit(c)
    PROVE  Inv'
  <1>1. /\ tpc[c] = "exit post" /\ tpc'[c] = "ending"
        /\ \A e \in Contexts \ {c} : tpc'[e] = tpc[e]
        /\ tpc' \in [Contexts -> {"none", "start", "run", "call", "call post", "wait",
                               "returned", "exit", "exit post", "ending", "ended"}]
    BY DEF Inv, TypeOK, PostExit, Goto
  <1>2. UNCHANGED <<running, saved, stack, entered, epc, ectx, used, freed, regs,
                    ctx, calls, trap_mutex, current_context, switch_to_trap_sem>>
    BY DEF PostExit, guest, thread, locks, counts
  <1>3. tpc[c] \in Working
    BY <1>1 DEF Working
  <1>4. /\ epc = "wait" /\ ectx = c
        /\ switch_to_emu_sem[c] = 0 /\ switch_to_emu_sem[c] # 1
        /\ switch_to_trap_sem[c] = 0 /\ switch_to_trap_sem[c] # 1
        /\ \A e \in Contexts \ {c} :
              /\ tpc[e] \notin Working /\ tpc[e] # "start"
              /\ switch_to_emu_sem[e] # 1 /\ switch_to_trap_sem[e] # 1
    BY <1>3, InControl
  <1>5. switch_to_emu_sem \in [Contexts -> {0, 1}]
    BY DEF Inv, TypeOK
  <1>6. switch_to_emu_sem' = [switch_to_emu_sem EXCEPT ![c] = @ + 1]
    BY DEF PostExit, Post
  <1>7. switch_to_emu_sem' \in [Contexts -> {0, 1}]
    BY <1>4, <1>5, <1>6, PostFacts
  <1>8. /\ switch_to_emu_sem'[c] = 1
        /\ \A e \in Contexts \ {c} : switch_to_emu_sem'[e] = switch_to_emu_sem[e]
    BY <1>4, <1>5, <1>6, PostFacts
  <1>9. TypeOK'
    BY <1>1, <1>2, <1>7 DEF Inv, TypeOK
  <1>10. Elsewhere(c)
    BY <1>1, <1>2, <1>4, <1>8 DEF Elsewhere
  <1>11. HandsOver(c)'
    BY <1>1, <1>2, <1>4, <1>8, Zenon DEF Inv, Handed, HandsOver
  <1>12. KnowsAnswer(c)'
    BY <1>1, <1>2, <1>4, <1>8, Zenon DEF KnowsAnswer
  <1>13. KnowsResult(c)'
    BY <1>1, <1>2, <1>4, <1>8, Zenon DEF Inv, Contents, KnowsResult
  <1>14. Handed' /\ Fresh' /\ Nesting' /\ OnStack' /\ Unique' /\ Answers' /\ Contents'
    BY <1>3, <1>9, <1>10, <1>11, <1>12, <1>13, ThreadFrame
  <1>15. Baton'
    <2>0. /\ switch_to_trap_sem'[c] # 1
          /\ \A e \in Contexts \ {c} : switch_to_emu_sem'[e] # 1 /\ switch_to_trap_sem'[e] # 1
      BY <1>1, <1>2, <1>4, <1>8, Zenon
    <2>1. BatonOf(c)'
      BY <1>1, <1>2, <1>4, <1>8, <2>0, Zenon DEF BatonOf, Working
    <2>2. \A e \in Contexts \ {c} : BatonOf(e)'
      BY <1>1, <1>2, <1>4, <1>8, <2>0, Zenon DEF BatonOf, Working
    <2>3. switch_to_emu_sem'[c] = 1 \/ switch_to_trap_sem'[c] = 1 \/ tpc'[c] \in Working
      BY <1>1, <1>2, <1>4, <1>8 DEF Working
    <2> QED  BY <1>2, <1>4, <2>1, <2>2, <2>3 DEF Baton
  <1>16. Mutex'
    BY <1>1, <1>2, <1>4, <1>8 DEF Inv, Mutex, Requested
  <1> QED  BY <1>9, <1>14, <1>15, <1>16 DEF Inv

LEMMA EndKeeps ==
    ASSUME Inv, NEW c \in Contexts, End(c)
    PROVE  Inv'
  <1>1. /\ tpc[c] = "ending" /\ tpc'[c] = "ended"
        /\ \A e \in Contexts \ {c} : tpc'[e] = tpc[e]
        /\ tpc' \in [Contexts -> {"none", "start", "run", "call", "call post", "wait",
                               "returned", "exit", "exit post", "ending", "ended"}]
    BY DEF Inv, TypeOK, End, Goto
  <1>2. UNCHANGED <<running, saved, regs, stack, epc, ectx, ctx, switch_to_emu_sem,
                    switch_to_trap_sem, trap_mutex, current_context, used, freed, calls,
                    entered>>
    BY DEF End, guest, locks, counts
  <1>3. TypeOK'
    BY <1>1, <1>2 DEF Inv, TypeOK
  <1>4. Baton'
    <2>1. \A e \in Contexts : BatonOf(e)'
      BY <1>1, <1>2, Zenon DEF Inv, Baton, BatonOf, Working
    <2>2. epc = "wait" /\ ectx = c => switch_to_emu_sem[c] = 1
      BY <1>1, Zenon DEF Inv, Baton, BatonOf, Working
    <2> QED  BY <1>1, <1>2, <2>1, <2>2, Zenon DEF Inv, Baton
  <1>5. Fresh'
    BY <1>1, <1>2, Zenon DEF Inv, Fresh
  <1>6. Mutex'
    <2>1. epc = "wait" /\ ectx = c => switch_to_emu_sem[c] = 1
      BY <1>1, Zenon DEF Inv, Baton, BatonOf, Working
    <2>2. epc = "wait" /\ ectx # c => tpc'[ectx] = tpc[ectx]
      BY <1>1 DEF Inv, Baton
    <2> QED  BY <1>1, <1>2, <2>1, <2>2 DEF Inv, Mutex, Requested
  <1>7. Handed'
    <2>3. \A e \in Contexts : HandsOver(e) /\ ctx[e].saved.pc = "code"
      BY DEF Inv, Handed
    <2>4. HandsOver(c)'
      BY <1>1, <1>2, <2>3, Zenon DEF HandsOver
    <2>5. \A e \in Contexts \ {c} : HandsOver(e)'
      BY ZenonT(60), <1>1, <1>2, <2>3, Zenon DEF HandsOver
    <2>1. \A e \in Contexts : HandsOver(e)' /\ ctx'[e].saved.pc = "code"
      BY <1>2, <2>3, <2>4, <2>5
    <2>2. regs.pc = "call" /\ current_context = c => epc # "cpu"
      BY <1>1, Zenon DEF Inv, Handed
    <2> QED  BY <1>1, <1>2, <2>1, <2>2, Zenon DEF Inv, Handed
  <1>8. ~Stacked(c)
    BY <1>1, Zenon DEF Inv, OnStack, Stacked
  <1>9. Nesting' /\ OnStack' /\ Unique' /\ SavedAnswers' /\ Kept'
    <2>1. (InTrap' <=> InTrap) /\ Innermost' = Innermost
      BY <1>2, Zenon DEF InTrap, Innermost
    <2> QED  BY <1>1, <1>2, <1>8, <2>1, GuestFrame DEF Quiet
  <1>10. Answers'
    <2>1. \A e \in Contexts : KnowsAnswer(e)'
      BY <1>1, <1>2, Zenon DEF Inv, Answers, KnowsAnswer
    <2>2. epc = "return post" => ectx # c
      BY <1>1, Zenon DEF Inv, Answers
    <2> QED  BY <1>1, <1>2, <1>9, <2>1, <2>2, Zenon DEF Inv, Answers, HasResult
  <1>11. Contents'
    <2>1. \A e \in Contexts : KnowsResult(e)
      BY DEF Inv, Contents
    <2>2. KnowsResult(c)'
      BY <1>1, <1>2, <2>1 DEF KnowsResult
    <2>4. Kept'
      BY <1>9
    <2>3. \A e \in Contexts \ {c} : KnowsResult(e)'
      BY <1>1, <1>2, <2>1 DEF KnowsResult
    <2>5. \A e \in Contexts : KnowsResult(e)'
      BY <2>2, <2>3, Zenon
    <2> QED  BY <2>4, <2>5 DEF Contents
  <1> QED  BY <1>3, <1>4, <1>5, <1>6, <1>7, <1>9, <1>10, <1>11 DEF Inv

----------------------------------------------------------------------------
(* The steps of the emulation thread and of the guest *)

LEMMA NoThread ==
    ASSUME Inv, epc # "wait"
    PROVE  \A c \in Contexts : /\ switch_to_emu_sem[c] # 1 /\ switch_to_trap_sem[c] # 1
                              /\ switch_to_emu_sem[c] = 0 /\ switch_to_trap_sem[c] = 0
                              /\ tpc[c] \notin Working /\ tpc[c] # "start"
  <1>1. \A c \in Contexts : /\ switch_to_emu_sem[c] # 1 /\ switch_to_trap_sem[c] # 1
                           /\ tpc[c] \notin Working /\ tpc[c] # "start"
    BY Zenon DEF Inv, Baton, BatonOf
  <1> QED  BY <1>1, Numbers DEF Inv

(* What no step of the emulation thread changes, but for its semaphore operations. *)
LEMMA EmuFrame ==
    ASSUME Inv, epc # "wait", epc' # "wait",
           UNCHANGED <<tpc, switch_to_emu_sem, switch_to_trap_sem, used>>,
           \A c \in Contexts : ctx'[c].saved = ctx[c].saved /\ ctx'[c].retval = ctx[c].retval
    PROVE  /\ Baton' /\ Fresh'
           /\ \A c \in Contexts : /\ HandsOver(c)' /\ ctx'[c].saved.pc = "code"
                                  /\ KnowsAnswer(c)' /\ KnowsResult(c)'
  <1>1. \A c \in Contexts : /\ switch_to_emu_sem'[c] # 1 /\ switch_to_trap_sem'[c] # 1
                           /\ tpc'[c] \notin Working /\ tpc'[c] # "start"
    BY NoThread
  <1>2. Baton'
    BY <1>1, Zenon DEF Baton, BatonOf
  <1>3. Fresh'
    BY Zenon DEF Inv, Fresh
  <1>4. \A c \in Contexts : HandsOver(c)' /\ KnowsAnswer(c)'
    BY <1>1, Zenon DEF HandsOver, KnowsAnswer, Working
  <1>5. \A c \in Contexts : ctx'[c].saved.pc = "code"
    BY Zenon DEF Inv, Handed
  <1>6. \A c \in Contexts : KnowsResult(c)'
    <2>1. \A c \in Contexts : KnowsResult(c)
      BY DEF Inv, Contents
    <2> QED  BY <2>1, Zenon DEF KnowsResult
  <1> QED  BY <1>2, <1>3, <1>4, <1>5, <1>6

LEMMA ComputeKeeps ==
    ASSUME Inv, Compute
    PROVE  Inv'
  <1>1. /\ epc = "cpu" /\ regs.pc = "code"
        /\ UNCHANGED <<running, saved, stack, epc, ectx, tpc, ctx, switch_to_emu_sem,
                       switch_to_trap_sem, trap_mutex, current_context, used, freed, calls,
                       entered>>
    BY DEF Compute, At, guest, thread, locks, counts
  <1>2. regs \in Registers /\ regs' = [regs EXCEPT !.a = 1 - @]
    BY DEF Inv, TypeOK, Compute
  <1>3. regs'.pc = "code"
    BY <1>1, <1>2 DEF Registers
  <1>4. regs' \in Registers
    <2>1. 1 - regs.a \in {0, 1}
      BY <1>2 DEF Registers
    <2> QED  BY <1>2, <2>1 DEF Registers
  <1>5. TypeOK'
    BY <1>1, <1>4 DEF Inv, TypeOK
  <1>6. /\ Baton' /\ Fresh'
        /\ \A c \in Contexts : /\ HandsOver(c)' /\ ctx'[c].saved.pc = "code"
                               /\ KnowsAnswer(c)' /\ KnowsResult(c)'
    BY <1>1, EmuFrame
  <1>7. Nesting' /\ OnStack' /\ Unique' /\ SavedAnswers' /\ Kept'
    <2>1. ~InTrap /\ ~InTrap'
      BY <1>1, <1>3 DEF InTrap
    <2> QED  BY <1>1, <2>1, GuestFrame DEF Quiet
  <1>8. Mutex'
    BY <1>1, <1>3 DEF Inv, Mutex, Requested
  <1>9. Handed'
    BY <1>1, <1>3, <1>6, Zenon DEF Inv, Handed
  <1>10. Answers'
    BY <1>1, <1>3, <1>6, <1>7, Zenon DEF Answers
  <1>11. Contents'
    BY <1>6, <1>7 DEF Contents
  <1> QED  BY <1>5, <1>6, <1>7, <1>8, <1>9, <1>10, <1>11 DEF Inv

LEMMA RtsKeeps ==
    ASSUME Inv, NEW t \in Tasks, Rts(t)
    PROVE  Inv'
  <1>1. /\ epc = "cpu" /\ regs.pc = "code" /\ t = running /\ stack[t] # <<>>
        /\ UNCHANGED <<running, saved, stack, epc, ectx, tpc, ctx, switch_to_emu_sem,
                       switch_to_trap_sem, trap_mutex, current_context, used, freed, calls,
                       entered>>
    BY DEF Rts, At, guest, thread, locks, counts
  <1>2. /\ regs \in Registers
        /\ regs' = [regs EXCEPT !.pc = "return", !.d0 = Last(stack[t]).func]
    BY DEF Inv, TypeOK, Rts
  <1>3. regs'.pc = "return" /\ regs'.d0 = Last(stack[t]).func
    BY <1>2 DEF Registers
  <1>4. Last(stack[t]) = stack[t][Len(stack[t])] /\ Last(stack[t]).func \in 0 .. MaxCalls
    <2>1. stack[t] \in Seq([ctx : Contexts, func : 0 .. MaxCalls])
      BY DEF Inv, TypeOK
    <2>2. /\ Last(stack[t]) = stack[t][Len(stack[t])]
          /\ Last(stack[t]) \in [ctx : Contexts, func : 0 .. MaxCalls]
      BY <1>1, <2>1, FrontFacts
    <2> QED  BY <2>2
  <1>5. regs' \in Registers
    <2>1. Last(stack[t]).func \in 0 .. MaxCalls + MaxTraps
      BY <1>4, TrapsAssumption
    <2> QED  BY <1>2, <2>1 DEF Registers
  <1>6. TypeOK'
    BY <1>1, <1>5 DEF Inv, TypeOK
  <1>7. /\ Baton' /\ Fresh'
        /\ \A c \in Contexts : /\ HandsOver(c)' /\ ctx'[c].saved.pc = "code"
                               /\ KnowsAnswer(c)' /\ KnowsResult(c)'
    BY <1>1, EmuFrame
  <1>8. Nesting' /\ OnStack' /\ Unique' /\ SavedAnswers' /\ Kept'
    <2>1. ~InTrap /\ ~InTrap'
      BY <1>1, <1>3 DEF InTrap
    <2> QED  BY <1>1, <2>1, GuestFrame DEF Quiet
  <1>9. Mutex'
    BY <1>1, <1>3 DEF Inv, Mutex, Requested
  <1>10. Handed'
    BY <1>1, <1>3, <1>7, Zenon DEF Inv, Handed
  <1>11. Answers'
    BY <1>1, <1>3, <1>4, <1>7, <1>8, Zenon DEF Answers, HasResult
  <1>12. Contents'
    BY <1>7, <1>8 DEF Contents
  <1> QED  BY <1>6, <1>7, <1>8, <1>9, <1>10, <1>11, <1>12 DEF Inv

LEMMA CallPostKeeps ==
    ASSUME Inv, CallPost
    PROVE  Inv'
  <1>1. /\ epc = "call post" /\ epc' = "call mask"
        /\ UNCHANGED <<running, saved, regs, stack, ectx, tpc, ctx, switch_to_emu_sem,
                       switch_to_trap_sem, current_context, used, freed, calls, entered>>
    BY DEF CallPost, guest, thread, counts
  <1>2. trap_mutex' = 1
    <2>1. trap_mutex = 0
      BY <1>1 DEF Inv, Mutex, Requested
    <2>2. trap_mutex' = trap_mutex + 1
      BY DEF CallPost, Unlock
    <2> QED  BY <2>1, <2>2
  <1>3. TypeOK'
    BY <1>1, <1>2 DEF Inv, TypeOK
  <1>4. /\ Baton' /\ Fresh'
        /\ \A c \in Contexts : /\ HandsOver(c)' /\ ctx'[c].saved.pc = "code"
                               /\ KnowsAnswer(c)' /\ KnowsResult(c)'
    BY <1>1, EmuFrame
  <1>5. Nesting' /\ OnStack' /\ Unique' /\ SavedAnswers' /\ Kept'
    <2>1. ~InTrap /\ ~InTrap'
      BY <1>1 DEF InTrap
    <2> QED  BY <1>1, <2>1, GuestFrame DEF Quiet
  <1>6. Mutex'
    BY <1>1, <1>2 DEF Mutex, Requested
  <1>7. Handed'
    BY <1>1, <1>4, Zenon DEF Inv, Handed
  <1>8. Answers'
    BY <1>1, <1>4, <1>5, Zenon DEF Answers
  <1>9. Contents'
    BY <1>4, <1>5 DEF Contents
  <1> QED  BY <1>3, <1>4, <1>5, <1>6, <1>7, <1>8, <1>9 DEF Inv

LEMMA CallMaskKeeps ==
    ASSUME Inv, CallMask
    PROVE  Inv'
  <1>1. /\ epc = "call mask" /\ epc' = "cpu"
        /\ UNCHANGED <<running, saved, stack, ectx, tpc, ctx, switch_to_emu_sem,
                       switch_to_trap_sem, trap_mutex, current_context, used, freed, calls,
                       entered>>
    BY DEF CallMask, guest, thread, locks, counts
  <1>2. regs \in Registers /\ regs' = [regs EXCEPT !.intmask = ctx[ectx].saved.intmask]
    BY DEF Inv, TypeOK, CallMask
  <1>3. regs.pc = "code" /\ regs'.pc = "code"
    BY <1>1, <1>2 DEF Inv, Handed, Registers
  <1>4. regs' \in Registers
    <2>1. ctx[ectx].saved \in Registers
      BY <1>1 DEF Inv, TypeOK, Handed, TrapContext
    <2>2. ctx[ectx].saved.intmask \in {0, 7}
      BY <2>1 DEF Registers
    <2> QED  BY <1>2, <2>2 DEF Registers
  <1>5. TypeOK'
    BY <1>1, <1>4 DEF Inv, TypeOK
  <1>6. /\ Baton' /\ Fresh'
        /\ \A c \in Contexts : /\ HandsOver(c)' /\ ctx'[c].saved.pc = "code"
                               /\ KnowsAnswer(c)' /\ KnowsResult(c)'
    BY <1>1, EmuFrame
  <1>7. Nesting' /\ OnStack' /\ Unique' /\ SavedAnswers' /\ Kept'
    <2>1. ~InTrap /\ ~InTrap'
      BY <1>1, <1>3 DEF InTrap
    <2> QED  BY <1>1, <2>1, GuestFrame DEF Quiet
  <1>8. Mutex'
    BY <1>1, <1>3 DEF Inv, Mutex, Requested
  <1>9. Handed'
    BY <1>1, <1>3, <1>6, Zenon DEF Inv, Handed
  <1>10. Answers'
    BY <1>1, <1>3, <1>6, <1>7, Zenon DEF Answers
  <1>11. Contents'
    BY <1>6, <1>7 DEF Contents
  <1> QED  BY <1>5, <1>6, <1>7, <1>8, <1>9, <1>10, <1>11 DEF Inv

LEMMA ExitPostKeeps ==
    ASSUME Inv, ExitPost
    PROVE  Inv'
  <1>1. /\ epc = "exit post" /\ epc' = "cpu"
        /\ UNCHANGED <<running, saved, regs, stack, ectx, tpc, ctx, switch_to_emu_sem,
                       switch_to_trap_sem, current_context, used, freed, calls, entered>>
    BY DEF ExitPost, guest, thread, counts
  <1>2. trap_mutex' = 1 /\ regs.pc = "code"
    <2>1. trap_mutex = 0 /\ regs.pc = "code"
      BY <1>1 DEF Inv, Mutex, Requested, Handed
    <2>2. trap_mutex' = trap_mutex + 1
      BY DEF ExitPost, Unlock
    <2> QED  BY <2>1, <2>2
  <1>3. TypeOK'
    BY <1>1, <1>2 DEF Inv, TypeOK
  <1>4. /\ Baton' /\ Fresh'
        /\ \A c \in Contexts : /\ HandsOver(c)' /\ ctx'[c].saved.pc = "code"
                               /\ KnowsAnswer(c)' /\ KnowsResult(c)'
    BY <1>1, EmuFrame
  <1>5. Nesting' /\ OnStack' /\ Unique' /\ SavedAnswers' /\ Kept'
    <2>1. ~InTrap /\ ~InTrap'
      BY <1>1, <1>2 DEF InTrap
    <2> QED  BY <1>1, <2>1, GuestFrame DEF Quiet
  <1>6. Mutex'
    BY <1>1, <1>2 DEF Mutex, Requested
  <1>7. Handed'
    BY <1>1, <1>2, <1>4, Zenon DEF Inv, Handed
  <1>8. Answers'
    BY <1>1, <1>2, <1>4, <1>5, Zenon DEF Answers
  <1>9. Contents'
    BY <1>4, <1>5 DEF Contents
  <1> QED  BY <1>3, <1>4, <1>5, <1>6, <1>7, <1>8, <1>9 DEF Inv

LEMMA ResumeKeeps ==
    ASSUME Inv, Resume
    PROVE  Inv'
  <1>1. /\ epc = "wait" /\ epc' = "cpu" /\ ectx \in Contexts
        /\ UNCHANGED <<running, saved, regs, stack, ectx, tpc, ctx, switch_to_trap_sem,
                       trap_mutex, current_context, used, freed, calls, entered>>
    BY DEF Inv, Baton, Resume, guest, locks, counts
  <1>2. switch_to_emu_sem \in [Contexts -> {0, 1}]
    BY DEF Inv, TypeOK
  <1>3. switch_to_emu_sem[ectx] > 0 /\ switch_to_emu_sem' = [switch_to_emu_sem EXCEPT ![ectx] = @ - 1]
    BY DEF Resume, Wait
  <1>4. switch_to_emu_sem' \in [Contexts -> {0, 1}]
    BY <1>1, <1>2, <1>3, WaitFacts
  <1>5. /\ switch_to_emu_sem[ectx] = 1 /\ switch_to_emu_sem'[ectx] # 1
        /\ \A c \in Contexts \ {ectx} : switch_to_emu_sem'[c] = switch_to_emu_sem[c]
    BY <1>1, <1>2, <1>3, WaitFacts
  <1>6. /\ current_context = ectx /\ regs.intmask = 7
        /\ tpc[ectx] = "wait" => regs.pc = "call"
        /\ tpc[ectx] # "wait" => regs.pc = "exit"
    BY <1>1, <1>5, Zenon DEF Inv, Handed, HandsOver
  <1>7. /\ tpc[ectx] \in {"wait", "ending", "ended"}
        /\ switch_to_trap_sem[ectx] = 0
    BY <1>1, <1>5, Zenon DEF Inv, Baton, BatonOf
  <1>8. \A c \in Contexts : /\ switch_to_emu_sem'[c] # 1 /\ switch_to_trap_sem[c] # 1
                            /\ tpc[c] \notin Working /\ tpc[c] # "start"
    <2>0. switch_to_trap_sem[ectx] # 1
      BY <1>7
    <2>1. switch_to_trap_sem[ectx] # 1 /\ tpc[ectx] \notin Working /\ tpc[ectx] # "start"
      BY <1>7, <2>0, Zenon DEF Working
    <2>2. \A c \in Contexts \ {ectx} :
            /\ switch_to_emu_sem[c] # 1 /\ switch_to_trap_sem[c] # 1
            /\ tpc[c] \notin Working /\ tpc[c] # "start"
      BY Zenon DEF Inv, Baton, BatonOf
    <2> QED  BY <1>5, <2>1, <2>2, Zenon
  <1>9. regs.pc \in {"call", "exit"}
    BY <1>6
  <1>10. InTrap /\ InTrap' /\ Innermost = ectx /\ Innermost' = ectx
    BY <1>1, <1>6, <1>9 DEF InTrap, Innermost
  <1>11. TypeOK'
    BY <1>1, <1>4 DEF Inv, TypeOK
  <1>12. Baton'
    BY <1>1, <1>8, Zenon DEF Baton, BatonOf
  <1>13. Fresh'
    <2>1. \A c \in Contexts \ {ectx} : c > used => switch_to_emu_sem'[c] = 0
      BY <1>5 DEF Inv, Fresh
    <2>2. ~(ectx > used)
      BY <1>1, <1>7, Zenon DEF Inv, Fresh
    <2> QED  BY <1>1, <2>1, <2>2, Zenon DEF Inv, Fresh
  <1>14. Mutex'
    <2>1. trap_mutex = 0
      BY <1>1, <1>5 DEF Inv, Mutex, Requested
    <2> QED  BY <1>1, <1>9, <2>1 DEF Mutex, Requested
  <1>15. Handed'
    <2>1. \A c \in Contexts : HandsOver(c)'
      BY <1>1, <1>8, Zenon DEF HandsOver, Working
    <2>2. /\ \A c \in Contexts : ctx'[c].saved.pc = "code"
          /\ \A t \in Tasks : saved'[t].pc \in {"code", "return"}
      BY <1>1, Zenon DEF Inv, Handed
    <2>3. /\ regs.pc = "call" => tpc[ectx] = "wait"
          /\ regs.pc = "exit" => tpc[ectx] \in {"ending", "ended"}
      BY <1>6, <1>7, Zenon
    <2> QED  BY <1>1, <1>6, <2>1, <2>2, <2>3, Zenon DEF Handed
  <1>16. Nesting' /\ OnStack' /\ Unique' /\ SavedAnswers' /\ Kept'
    <2>1. ~Stacked(ectx)
      BY <1>10, AtWork
    <2>2. Quiet
      BY <1>1, <1>5, <2>1, Zenon DEF Quiet
    <2> QED  BY <1>10, <2>2, GuestFrame
  <1>17. Answers'
    <2>1. \A c \in Contexts : KnowsAnswer(c)'
      BY <1>1, <1>8, Zenon DEF KnowsAnswer, Working
    <2> QED  BY <1>1, <1>9, <1>16, <2>1, Zenon DEF Answers
  <1>18. Contents'
    BY <1>1, <1>16, Zenon DEF Inv, Contents, KnowsResult
  <1> QED  BY <1>11, <1>12, <1>13, <1>14, <1>15, <1>16, <1>17, <1>18 DEF Inv

LEMMA ReturnPostKeeps ==
    ASSUME Inv, ReturnPost
    PROVE  Inv'
  <1>1. /\ epc = "return post" /\ epc' = "wait"
        /\ UNCHANGED <<running, saved, regs, stack, ectx, tpc, ctx, switch_to_emu_sem,
                       trap_mutex, current_context, used, freed, calls, entered>>
    BY DEF ReturnPost, guest, locks, counts
  <1>2. /\ ectx \in Contexts /\ tpc[ectx] = "wait"
        /\ ctx[ectx].call68k_retval = ctx[ectx].func_addr
    BY <1>1, Zenon DEF Inv, Answers
  <1>3. switch_to_trap_sem \in [Contexts -> {0, 1}] /\ switch_to_trap_sem[ectx] = 0
    BY <1>1, <1>2, NoThread DEF Inv, TypeOK
  <1>4. switch_to_trap_sem' = [switch_to_trap_sem EXCEPT ![ectx] = @ + 1]
    BY DEF ReturnPost, Post
  <1>5. switch_to_trap_sem' \in [Contexts -> {0, 1}]
    BY <1>2, <1>3, <1>4, PostFacts
  <1>6. /\ switch_to_trap_sem'[ectx] = 1
        /\ \A c \in Contexts \ {ectx} : switch_to_trap_sem'[c] = switch_to_trap_sem[c]
    BY <1>2, <1>3, <1>4, PostFacts
  <1>7. /\ \A c \in Contexts : /\ switch_to_emu_sem[c] # 1
                               /\ tpc[c] \notin Working /\ tpc[c] # "start"
        /\ \A c \in Contexts \ {ectx} : switch_to_trap_sem'[c] # 1
    BY <1>1, <1>6, NoThread, Zenon
  <1>8. InTrap /\ InTrap' /\ Innermost = ectx /\ Innermost' = ectx
    BY <1>1 DEF InTrap, Innermost
  <1>9. TypeOK'
    BY <1>1, <1>5 DEF Inv, TypeOK
  <1>10. Baton'
    <2>1. \A c \in Contexts \ {ectx} : BatonOf(c)'
      BY <1>1, <1>7, Zenon DEF BatonOf
    <2>2. BatonOf(ectx)'
      BY <1>1, <1>2, <1>6, <1>7, Zenon DEF BatonOf
    <2>3. \A c \in Contexts : BatonOf(c)'
      BY <1>1, <2>1, <2>2, Zenon
    <2> QED  BY <1>1, <1>2, <1>6, <2>3, Zenon DEF Baton
  <1>11. Fresh'
    <2>1. \A c \in Contexts \ {ectx} : c > used => switch_to_trap_sem'[c] = 0
      BY <1>6 DEF Inv, Fresh
    <2>2. ~(ectx > used)
      BY <1>2, Zenon DEF Inv, Fresh
    <2> QED  BY <1>1, <2>1, <2>2, Zenon DEF Inv, Fresh
  <1>12. Mutex'
    <2>1. trap_mutex = 0
      BY <1>1 DEF Inv, Mutex, Requested
    <2> QED  BY <1>1, <1>2, <2>1 DEF Mutex, Requested
  <1>13. Handed'
    <2>1. \A c \in Contexts : HandsOver(c)'
      BY <1>1, <1>7, Zenon DEF HandsOver, Working
    <2> QED  BY <1>1, <2>1, Zenon DEF Inv, Handed
  <1>14. Nesting' /\ OnStack' /\ Unique' /\ SavedAnswers' /\ Kept'
    <2>1. ~Stacked(ectx)
      BY <1>8, AtWork
    <2>2. Quiet
      BY <1>1, <1>6, <2>1, Zenon DEF Quiet
    <2> QED  BY <1>8, <2>2, GuestFrame
  <1>15. Answers'
    <2>1. \A c \in Contexts : KnowsAnswer(c)'
      BY <1>1, <1>2, <1>7, Zenon DEF KnowsAnswer, Working
    <2> QED  BY <1>1, <1>14, <2>1, Zenon DEF Answers
  <1>16. Contents'
    BY <1>1, <1>14, Zenon DEF Inv, Contents, KnowsResult
  <1> QED  BY <1>9, <1>10, <1>11, <1>12, <1>13, <1>14, <1>15, <1>16 DEF Inv

LEMMA SwitchKeeps ==
    ASSUME Inv, NEW t \in Tasks, Switch(t)
    PROVE  Inv'
  <1>1. /\ epc = "cpu" /\ running' = t /\ t # running /\ regs' = saved[t]
        /\ UNCHANGED <<stack, epc, ectx, tpc, ctx, switch_to_emu_sem, switch_to_trap_sem,
                       trap_mutex, current_context, used, freed, calls, entered>>
    BY DEF Switch, thread, locks, counts
  <1>2. running \in Tasks /\ regs \in Registers /\ saved \in [Tasks -> Registers]
    BY DEF Inv, TypeOK
  <1>3. /\ saved' = [saved EXCEPT ![running] = regs]
        /\ saved'[running] = regs /\ \A u \in Tasks \ {running} : saved'[u] = saved[u]
    BY <1>2 DEF Switch
  <1>4. saved' \in [Tasks -> Registers] /\ regs' \in Registers
    BY <1>1, <1>2, <1>3
  <1>5. regs.pc \in {"code", "return"}
    <2>1. regs.intmask # 7
      <3>1. regs.intmask \in {0, 7} /\ regs.intmask < 7
        BY <1>2 DEF Switch, Registers
      <3> QED  BY <3>1
    <2>2. regs.pc \in {"code", "call", "return", "exit"}
      BY <1>2 DEF Registers
    <2> QED  BY <1>1, <2>1, <2>2, Zenon DEF Inv, Handed
  <1>6. regs'.pc \in {"code", "return"}
    BY <1>1, Zenon DEF Inv, Handed
  <1>7. TypeOK'
    BY <1>1, <1>4 DEF Inv, TypeOK
  <1>8. /\ Baton' /\ Fresh'
        /\ \A c \in Contexts : /\ HandsOver(c)' /\ ctx'[c].saved.pc = "code"
                               /\ KnowsAnswer(c)' /\ KnowsResult(c)'
    BY <1>1, EmuFrame
  <1>9. Mutex'
    <2>1. trap_mutex = 1
      BY <1>1, <1>5 DEF Inv, Mutex, Requested
    <2> QED  BY <1>1, <1>6, <2>1 DEF Mutex, Requested
  <1>10. Handed'
    <2>1. \A u \in Tasks : saved'[u].pc \in {"code", "return"}
      BY <1>3, <1>5, Zenon DEF Inv, Handed
    <2> QED  BY <1>1, <1>6, <1>8, <2>1, Zenon DEF Handed
  <1>11. Nesting'
    <2>1. ~InTrap /\ ~InTrap'
      BY <1>1, <1>5, <1>6 DEF InTrap
    <2> QED  BY <1>1, <2>1 DEF Inv, Nesting
  <1>12. OnStack'
    BY <1>1 DEF Inv, OnStack
  <1>13. Unique'
    BY <1>1 DEF Inv, Unique
  <1>14. Answers'
    <2>1. regs'.pc = "return" => HasResult(t, regs')
      BY <1>1, <1>2, Zenon DEF Inv, Answers, SavedAnswers
    <2>2. \A u \in Tasks \ {t} : saved'[u].pc = "return" => HasResult(u, saved'[u])
      BY <1>1, <1>3, Zenon DEF Inv, Answers, SavedAnswers
    <2> QED  BY <1>1, <1>8, <2>1, <2>2, Zenon DEF Answers, SavedAnswers, HasResult
  <1>15. Contents'
    <2>1. Kept'
      BY <1>1 DEF Inv, Contents, Kept
    <2> QED  BY <1>8, <2>1, Zenon DEF Contents
  <1> QED  BY <1>7, <1>8, <1>9, <1>10, <1>11, <1>12, <1>13, <1>14, <1>15 DEF Inv

LEMMA CallHandlerKeeps ==
    ASSUME Inv, CallHandler
    PROVE  Inv'
  <1> DEFINE c == current_context
             f == [ctx |-> c, func |-> ctx[c].func_addr]
  <1>1. /\ epc = "cpu" /\ regs.pc = "call" /\ epc' = "call post" /\ ectx' = c
        /\ UNCHANGED <<running, saved, tpc, ctx, switch_to_emu_sem, switch_to_trap_sem,
                       trap_mutex, current_context, used, freed, calls, entered>>
    BY DEF CallHandler, At, guest, thread, locks, counts
  <1>2. c \in Contexts /\ tpc[c] = "wait"
    BY <1>1, Zenon DEF Inv, Handed
  <1>3. /\ running \in Tasks /\ regs \in Registers
        /\ stack \in [Tasks -> Seq([ctx : Contexts, func : 0 .. MaxCalls])]
        /\ f \in [ctx : Contexts, func : 0 .. MaxCalls]
    <2>1. ctx[c] \in TrapContext
      BY <1>2 DEF Inv, TypeOK
    <2>2. ctx[c].func_addr \in 0 .. MaxCalls
      BY <2>1 DEF TrapContext
    <2> QED  BY <1>2, <2>2 DEF Inv, TypeOK
  <1>4. regs' = [regs EXCEPT !.pc = "code"]
    BY DEF CallHandler
  <1>5. regs'.pc = "code"
    BY <1>3, <1>4 DEF Registers
  <1>6. regs' \in Registers
    BY <1>3, <1>4 DEF Registers
  <1>7. stack' = [stack EXCEPT ![running] = Append(@, f)]
    BY DEF CallHandler
  <1>8. stack' \in [Tasks -> Seq([ctx : Contexts, func : 0 .. MaxCalls])]
    BY <1>3, <1>7, AppendProperties
  <1>9. \A t \in Tasks \ {running} : stack'[t] = stack[t]
    BY <1>3, <1>7
  <1> HIDE DEF f
  <1>10. /\ Len(stack[running]) \in Nat
         /\ Len(stack'[running]) = Len(stack[running]) + 1
         /\ \A i \in 1 .. Len(stack[running]) : stack'[running][i] = stack[running][i]
         /\ stack'[running][Len(stack[running]) + 1] = f
    BY <1>3, <1>7, AppendProperties, LenProperties
  <1> HIDE DEF c
  <1>11. f.ctx = c /\ f.func = ctx[c].func_addr
    BY DEF f
  <1>12. TypeOK'
    <2>1. c \in 0 .. MaxTraps
      BY <1>2, Numbers DEF Inv, Contexts
    <2> QED  BY <1>1, <1>6, <1>8, <2>1 DEF Inv, TypeOK
  <1>13. /\ Baton' /\ Fresh'
         /\ \A d \in Contexts : /\ HandsOver(d)' /\ ctx'[d].saved.pc = "code"
                                /\ KnowsAnswer(d)' /\ KnowsResult(d)'
    BY <1>1, EmuFrame
  <1>14. Mutex'
    <2>1. trap_mutex = 0
      BY <1>1 DEF Inv, Mutex, Requested
    <2> QED  BY <1>1, <2>1 DEF Mutex, Requested
  <1>15. Handed'
    BY <1>1, <1>2, <1>5, <1>13, Zenon DEF Inv, Handed
  <1>16. Nesting'
    <2>1. InTrap /\ ~InTrap' /\ Innermost = c
      BY <1>1, <1>5 DEF InTrap, Innermost, c
    <2>2. \A t \in Tasks \ {running} :
             /\ Len(entered[t]) = Len(stack'[t])
             /\ \A i \in 1 .. Len(stack'[t]) : stack'[t][i].ctx = entered[t][i].ctx
      BY <1>9 DEF Inv, Nesting
    <2>3. /\ Len(entered[running]) = Len(stack[running]) + 1
          /\ entered[running][Len(entered[running])].ctx = c
          /\ \A i \in 1 .. Len(stack[running]) : stack[running][i].ctx = entered[running][i].ctx
      BY <1>3, <2>1 DEF Inv, Nesting
    <2>4. \A i \in 1 .. Len(stack'[running]) : stack'[running][i].ctx = entered[running][i].ctx
      <3>1. \A i \in 1 .. Len(stack'[running]) :
               i \in 1 .. Len(stack[running]) \/ i = Len(stack[running]) + 1
        BY <1>10
      <3> QED  BY <1>10, <1>11, <2>3, <3>1
    <2> QED  BY <1>1, <1>10, <2>1, <2>2, <2>3, <2>4 DEF Nesting
  <1>17. OnStack'
    <2> SUFFICES ASSUME NEW t \in Tasks, NEW i \in 1 .. Len(stack'[t])
                 PROVE  LET d == stack'[t][i].ctx
                        IN  /\ tpc[d] = "wait" /\ switch_to_emu_sem[d] = 0
                            /\ switch_to_trap_sem[d] = 0 /\ stack'[t][i].func = ctx[d].func_addr
      BY <1>1 DEF OnStack
    <2>1. CASE t # running
      BY <1>9, <2>1 DEF Inv, OnStack
    <2>2. CASE t = running /\ i \in 1 .. Len(stack[t])
      BY <1>10, <2>2 DEF Inv, OnStack
    <2>3. CASE t = running /\ i = Len(stack[t]) + 1
      <3>1. switch_to_emu_sem[c] = 0 /\ switch_to_trap_sem[c] = 0
        BY <1>1, <1>2, NoThread
      <3> QED  BY <1>2, <1>10, <1>11, <2>3, <3>1
    <2>4. t = running => i \in 1 .. Len(stack[t]) \/ i = Len(stack[t]) + 1
      BY <1>10, Lengths DEF Inv
    <2> QED  BY <2>1, <2>2, <2>3, <2>4
  <1>18. Unique'
    BY <1>1, ZenonT(60) DEF Inv, Unique
  <1>19. Answers'
    <2>1. SavedAnswers'
      BY <1>1, <1>9, Zenon DEF Inv, Answers, SavedAnswers, HasResult
    <2> QED  BY <1>1, <1>13, <2>1, Zenon DEF Answers
  <1>20. Contents'
    <2>1. Kept'
      BY <1>1 DEF Inv, Contents, Kept
    <2> QED  BY <1>13, <2>1, Zenon DEF Contents
  <1> QED  BY <1>12, <1>13, <1>14, <1>15, <1>16, <1>17, <1>18, <1>19, <1>20 DEF Inv

LEMMA ReturnHandlerKeeps ==
    ASSUME Inv, ReturnHandler
    PROVE  Inv'
  <1> DEFINE f == Last(stack[running])
             n == Len(stack[running])
  <1>1. /\ epc = "cpu" /\ regs.pc = "return" /\ epc' = "return post" /\ trap_mutex' = 0
        /\ UNCHANGED <<running, saved, regs, tpc, switch_to_emu_sem, switch_to_trap_sem,
                       current_context, used, freed, calls, entered>>
    BY DEF ReturnHandler, At, Lock, guest, counts
  <1>2. stack[running] # <<>> /\ regs.d0 = stack[running][n].func
    BY <1>1, Zenon DEF Inv, Answers, HasResult
  <1>3. /\ running \in Tasks /\ regs \in Registers
        /\ stack \in [Tasks -> Seq([ctx : Contexts, func : 0 .. MaxCalls])]
        /\ stack[running] \in Seq([ctx : Contexts, func : 0 .. MaxCalls])
    BY DEF Inv, TypeOK
  <1>4. /\ n \in Nat \ {0} /\ f = stack[running][n]
        /\ f \in [ctx : Contexts, func : 0 .. MaxCalls]
        /\ Front(stack[running]) \in Seq([ctx : Contexts, func : 0 .. MaxCalls])
        /\ Len(Front(stack[running])) = n - 1
        /\ \A i \in 1 .. n - 1 : Front(stack[running])[i] = stack[running][i]
    BY <1>2, <1>3, FrontFacts
  <1>5. /\ ectx' = f.ctx /\ stack' = [stack EXCEPT ![running] = Front(@)]
        /\ ctx' = [ctx EXCEPT ![f.ctx].call68k_retval = regs.d0]
    BY DEF ReturnHandler
  <1>6. stack' \in [Tasks -> Seq([ctx : Contexts, func : 0 .. MaxCalls])]
    BY <1>3, <1>4, <1>5
  <1>7. /\ \A t \in Tasks \ {running} : stack'[t] = stack[t]
        /\ stack'[running] = Front(stack[running])
    BY <1>3, <1>5
  <1>8. f.ctx \in Contexts /\ tpc[f.ctx] = "wait" /\ f.func = ctx[f.ctx].func_addr
    BY <1>3, <1>4 DEF Inv, OnStack
  <1>9. regs.d0 = f.func
    BY <1>2, <1>4
  <1> HIDE DEF f, n
  <1>10. ctx \in [Contexts -> TrapContext] /\ regs.d0 \in 0 .. MaxCalls + MaxTraps
    BY <1>3 DEF Inv, TypeOK, Registers
  <1>11. ctx' \in [Contexts -> TrapContext]
    BY <1>5, <1>8, <1>10 DEF TrapContext
  <1>12. \A c \in Contexts : /\ ctx'[c].saved = ctx[c].saved /\ ctx'[c].retval = ctx[c].retval
                             /\ ctx'[c].has_retval = ctx[c].has_retval
                             /\ ctx'[c].func_addr = ctx[c].func_addr
    BY <1>5, <1>8, <1>10 DEF TrapContext
  <1>13. ctx'[f.ctx].call68k_retval = regs.d0
    BY <1>5, <1>8, <1>10 DEF TrapContext
  <1>14. TypeOK'
    <2>1. f.ctx \in 0 .. MaxTraps
      BY <1>8, Numbers DEF Inv, Contexts
    <2> QED  BY <1>1, <1>5, <1>6, <1>11, <2>1 DEF Inv, TypeOK
  <1>15. /\ Baton' /\ Fresh'
         /\ \A c \in Contexts : /\ HandsOver(c)' /\ ctx'[c].saved.pc = "code"
                                /\ KnowsAnswer(c)' /\ KnowsResult(c)'
    BY <1>1, <1>12, EmuFrame
  <1>16. Mutex'
    BY <1>1 DEF Mutex, Requested
  <1>17. Handed'
    BY <1>1, <1>15, Zenon DEF Inv, Handed
  <1>18. Nesting'
    <2>1. ~InTrap /\ InTrap' /\ Innermost' = f.ctx
      BY <1>1, <1>5 DEF InTrap, Innermost
    <2>2. \A t \in Tasks \ {running} :
             /\ Len(entered[t]) = Len(stack'[t])
             /\ \A i \in 1 .. Len(stack'[t]) : stack'[t][i].ctx = entered[t][i].ctx
      BY <1>7, <2>1 DEF Inv, Nesting
    <2>3. /\ Len(entered[running]) = n
          /\ \A i \in 1 .. n : stack[running][i].ctx = entered[running][i].ctx
      BY <1>3, <2>1 DEF Inv, Nesting, n
    <2>4. ASSUME NEW i \in 1 .. n - 1 PROVE stack'[running][i].ctx = entered[running][i].ctx
      <3>1. i \in 1 .. n
        BY <1>4
      <3>2. stack'[running][i] = stack[running][i]
        BY <1>4, <1>7
      <3> QED  BY <2>3, <3>1, <3>2
    <2>5. entered[running][n].ctx = f.ctx
      BY <1>4, <2>3
    <2>6. Len(stack'[running]) = n - 1
      BY <1>4, <1>7
    <2>7. /\ Len(entered[running]) = Len(stack'[running]) + 1
          /\ \A i \in 1 .. Len(stack'[running]) : stack'[running][i].ctx = entered[running][i].ctx
      BY <1>4, <2>3, <2>4, <2>6
    <2>8. entered[running][Len(entered[running])].ctx = f.ctx
      BY <2>3, <2>5
    <2> QED  BY <1>1, <2>1, <2>2, <2>7, <2>8 DEF Nesting
  <1>19. OnStack'
    <2> SUFFICES ASSUME NEW t \in Tasks, NEW i \in 1 .. Len(stack'[t])
                 PROVE  LET d == stack'[t][i].ctx
                        IN  /\ tpc[d] = "wait" /\ switch_to_emu_sem[d] = 0
                            /\ switch_to_trap_sem[d] = 0 /\ stack'[t][i].func = ctx'[d].func_addr
      BY <1>1 DEF OnStack
    <2>1. i \in 1 .. Len(stack[t]) /\ stack'[t][i] = stack[t][i]
      <3>1. CASE t = running
        <4>1. i \in 1 .. n - 1
          BY <1>4, <1>7, <3>1
        <4>2. i \in 1 .. n
          BY <1>4, <4>1
        <4> QED  BY <1>4, <1>7, <3>1, <4>1, <4>2 DEF n
      <3>2. CASE t # running
        BY <1>7, <3>2
      <3> QED  BY <3>1, <3>2
    <2> DEFINE d == stack[t][i].ctx
    <2>2. d \in Contexts
      BY <2>1, Elements DEF Inv
    <2>3. /\ tpc[d] = "wait" /\ switch_to_emu_sem[d] = 0 /\ switch_to_trap_sem[d] = 0
          /\ stack[t][i].func = ctx[d].func_addr
      BY <2>1 DEF Inv, OnStack
    <2> HIDE DEF d
    <2>4. ctx'[d].func_addr = ctx[d].func_addr
      BY <1>12, <2>2
    <2> QED  BY <2>1, <2>3, <2>4 DEF d
  <1>20. Unique'
    BY <1>1, ZenonT(60) DEF Inv, Unique
  <1>21. Answers'
    <2>1. SavedAnswers'
      BY <1>1, <1>7, Zenon DEF Inv, Answers, SavedAnswers, HasResult
    <2>2. ctx'[f.ctx].call68k_retval = ctx'[f.ctx].func_addr
      BY <1>8, <1>9, <1>12, <1>13
    <2> QED  BY <1>1, <1>5, <1>8, <1>15, <2>1, <2>2, Zenon DEF Answers
  <1>22. Contents'
    <2>1. Kept'
      <3>1. \A t \in Tasks : \A i \in 1 .. Len(entered[t]) : entered[t][i].ctx \in Contexts
        BY Elements DEF Inv
      <3> QED  BY <1>1, <1>12, <3>1 DEF Inv, Contents, Kept
    <2> QED  BY <1>15, <2>1, Zenon DEF Contents
  <1> QED  BY <1>14, <1>15, <1>16, <1>17, <1>18, <1>19, <1>20, <1>21, <1>22 DEF Inv

(* The trap that ends is the innermost one of the running task. *)
LEMMA Ending ==
    ASSUME Inv, At("exit") \/ At("call")
    PROVE  /\ running \in Tasks /\ current_context \in Contexts
           /\ entered[running] \in Seq([ctx : Contexts, regs : Registers])
           /\ entered[running] # <<>> /\ Len(entered[running]) = Len(stack[running]) + 1
           /\ Len(stack[running]) \in Nat
           /\ Last(entered[running]) = entered[running][Len(entered[running])]
           /\ Last(entered[running]).ctx = current_context
  <1>1. /\ running \in Tasks
        /\ entered[running] \in Seq([ctx : Contexts, regs : Registers])
    BY DEF Inv, TypeOK
  <1>2. InTrap /\ Innermost = current_context
    BY DEF InTrap, Innermost, At
  <1>3. current_context \in Contexts
    BY Zenon DEF Inv, Handed, At
  <1>4. Len(entered[running]) \in Nat /\ Len(stack[running]) \in Nat
    BY <1>1, Lengths DEF Inv
  <1>5. /\ Len(entered[running]) = Len(stack[running]) + 1
        /\ entered[running][Len(entered[running])].ctx = current_context
    BY <1>1, <1>2 DEF Inv, Nesting
  <1>6. entered[running] # <<>>
    <2>1. Len(entered[running]) # 0
      BY <1>4, <1>5
    <2> QED  BY <1>1, <2>1, EmptySeq
  <1>7. Last(entered[running]) = entered[running][Len(entered[running])]
    BY <1>1, <1>6, FrontFacts
  <1> QED  BY <1>1, <1>3, <1>4, <1>5, <1>6, <1>7

LEMMA ExitHandlerKeeps ==
    ASSUME Inv, ExitHandler
    PROVE  Inv'
  <1> DEFINE c == current_context
             n == Len(stack[running])
  <1>1. /\ epc = "cpu" /\ regs.pc = "exit" /\ epc' = "exit post" /\ ectx' = c
        /\ freed' = freed \cup {c}
        /\ UNCHANGED <<running, saved, stack, tpc, ctx, switch_to_emu_sem,
                       switch_to_trap_sem, trap_mutex, current_context, used, calls>>
    BY DEF ExitHandler, At, guest, thread, locks
  <1>2. /\ running \in Tasks /\ c \in Contexts /\ n \in Nat
        /\ entered[running] \in Seq([ctx : Contexts, regs : Registers])
        /\ entered[running] # <<>> /\ Len(entered[running]) = n + 1
    BY <1>1, Ending DEF At
  <1>3. /\ Front(entered[running]) \in Seq([ctx : Contexts, regs : Registers])
        /\ Len(Front(entered[running])) = n
        /\ \A i \in 1 .. n : Front(entered[running])[i] = entered[running][i]
    <2>1. /\ Front(entered[running]) \in Seq([ctx : Contexts, regs : Registers])
          /\ Len(Front(entered[running])) = Len(entered[running]) - 1
          /\ \A i \in 1 .. Len(entered[running]) - 1 : Front(entered[running])[i] = entered[running][i]
      BY <1>2, FrontFacts
    <2>2. Len(entered[running]) - 1 = n
      BY <1>2
    <2> QED  BY <2>1, <2>2
  <1>4. /\ entered \in [Tasks -> Seq([ctx : Contexts, regs : Registers])]
        /\ entered' = [entered EXCEPT ![running] = Front(@)]
    BY DEF Inv, TypeOK, ExitHandler
  <1>5. /\ entered' \in [Tasks -> Seq([ctx : Contexts, regs : Registers])]
        /\ entered'[running] = Front(entered[running])
        /\ \A t \in Tasks \ {running} : entered'[t] = entered[t]
    BY <1>2, <1>3, <1>4
  <1>6. ctx[c] \in TrapContext
    BY <1>2 DEF Inv, TypeOK
  <1>7. ctx[c].saved \in Registers /\ ctx[c].saved.pc = "code"
    BY <1>2, <1>6, Zenon DEF Inv, Handed, TrapContext
  <1>8. regs' = Result(c)
    BY DEF ExitHandler
  <1>9. ctx[c].retval \in 0 .. MaxCalls + MaxTraps
    <2>1. tpc[c] \in {"ending", "ended"}
      BY <1>1, Zenon DEF Inv, Handed
    <2>2. ctx[c].retval = MaxCalls + c
      BY <1>2, <2>1 DEF Inv, Contents, KnowsResult
    <2> QED  BY <1>2, <2>2, TrapsAssumption DEF Contexts
  <1>10. regs' \in Registers
    BY <1>7, <1>8, <1>9 DEF Result, Registers
  <1>11. regs'.pc = "code"
    BY <1>7, <1>8 DEF Result, Registers
  <1> HIDE DEF c, n
  <1>12. TypeOK'
    <2>1. c \in 0 .. MaxTraps
      BY <1>2, Numbers DEF Inv, Contexts
    <2>2. freed \subseteq Contexts
      BY DEF Inv, TypeOK
    <2>3. freed' \subseteq Contexts
      BY <1>1, <1>2, <2>2
    <2> QED  BY <1>1, <1>5, <1>10, <2>1, <2>3 DEF Inv, TypeOK
  <1>13. /\ Baton' /\ Fresh'
         /\ \A d \in Contexts : /\ HandsOver(d)' /\ ctx'[d].saved.pc = "code"
                                /\ KnowsAnswer(d)' /\ KnowsResult(d)'
    BY <1>1, EmuFrame
  <1>14. Mutex'
    <2>1. trap_mutex = 0
      BY <1>1 DEF Inv, Mutex, Requested
    <2> QED  BY <1>1, <2>1 DEF Mutex, Requested
  <1>15. Handed'
    BY <1>1, <1>2, <1>11, <1>13, Zenon DEF Inv, Handed
  <1>16. Nesting'
    <2>1. InTrap /\ ~InTrap'
      BY <1>1 DEF InTrap
    <2>2. \A t \in Tasks \ {running} :
             /\ Len(entered'[t]) = Len(stack[t])
             /\ \A i \in 1 .. Len(stack[t]) : stack[t][i].ctx = entered'[t][i].ctx
      BY <1>5, <2>1 DEF Inv, Nesting
    <2>3. \A i \in 1 .. n : stack[running][i].ctx = entered[running][i].ctx
      BY <1>2 DEF Inv, Nesting, n
    <2>4. \A i \in 1 .. n : stack[running][i].ctx = entered'[running][i].ctx
      BY <1>3, <1>5, <2>3
    <2>5. Len(entered'[running]) = n
      BY <1>3, <1>5
    <2> QED  BY <1>1, <2>1, <2>2, <2>4, <2>5 DEF Nesting, n
  <1>17. OnStack'
    BY <1>1 DEF Inv, OnStack
  <1>18. \A t \in Tasks : \A i \in 1 .. Len(entered'[t]) :
            i \in 1 .. Len(entered[t]) /\ entered'[t][i] = entered[t][i]
    <2> SUFFICES ASSUME NEW t \in Tasks, NEW i \in 1 .. Len(entered'[t])
                 PROVE  i \in 1 .. Len(entered[t]) /\ entered'[t][i] = entered[t][i]
      OBVIOUS
    <2>1. CASE t # running
      BY <1>5, <2>1
    <2>2. CASE t = running
      BY <1>2, <1>3, <1>5, <2>2
    <2> QED  BY <2>1, <2>2
  <1>19. Unique'
    <2>1. \A t \in Tasks : \A i \in 1 .. Len(entered'[t]) : entered'[t][i].ctx <= used
      BY <1>18 DEF Inv, Unique
    <2>2. ASSUME NEW t \in Tasks, NEW u \in Tasks, NEW i \in 1 .. Len(entered'[t]),
                 NEW k \in 1 .. Len(entered'[u]), entered'[t][i].ctx = entered'[u][k].ctx
          PROVE  t = u /\ i = k
      <3>1. /\ i \in 1 .. Len(entered[t]) /\ entered'[t][i] = entered[t][i]
            /\ k \in 1 .. Len(entered[u]) /\ entered'[u][k] = entered[u][k]
        BY <1>18
      <3> QED  BY <2>2, <3>1 DEF Inv, Unique
    <2> QED  BY <1>1, <2>1, <2>2 DEF Unique
  <1>20. Answers'
    <2>1. SavedAnswers'
      BY <1>1, Zenon DEF Inv, Answers, SavedAnswers, HasResult
    <2> QED  BY <1>1, <1>13, <2>1, Zenon DEF Answers
  <1>21. Contents'
    <2>1. Kept'
      <3> SUFFICES ASSUME NEW t \in Tasks, NEW i \in 1 .. Len(entered'[t])
                   PROVE  LET x == entered'[t][i]
                          IN  /\ ctx[x.ctx].saved = x.regs
                              /\ ctx[x.ctx].has_retval <=> x.ctx \notin NoRetval
        BY <1>1 DEF Kept
      <3>1. i \in 1 .. Len(entered[t]) /\ entered'[t][i] = entered[t][i]
        BY <1>18
      <3> QED  BY <3>1 DEF Inv, Contents, Kept
    <2> QED  BY <1>13, <2>1, Zenon DEF Contents
  <1> QED  BY <1>12, <1>13, <1>14, <1>15, <1>16, <1>17, <1>19, <1>20, <1>21 DEF Inv

LEMMA HandleExtendedTrapKeeps ==
    ASSUME Inv, HandleExtendedTrap
    PROVE  Inv'
  <1>a. used + 1 \in Contexts /\ used \in Nat /\ used + 1 \in 0 .. MaxTraps
    <2>1. used < MaxTraps
      BY DEF HandleExtendedTrap
    <2> QED  BY <2>1, Numbers DEF Inv, Contexts
  <1>n. PICK n \in Contexts : n = used + 1
    BY <1>a
  <1> DEFINE b == n \notin NoRetval
             x == [ctx |-> n, regs |-> regs]
             m == Len(stack[running])
  <1>1. /\ epc = "cpu" /\ regs.pc = "code" /\ epc' = "wait" /\ ectx' = n /\ used' = n
        /\ UNCHANGED <<running, saved, regs, stack, switch_to_emu_sem, trap_mutex,
                       current_context, freed, calls>>
    BY <1>n DEF HandleExtendedTrap, At, guest, locks
  <1>2. n \in Contexts /\ n \in Nat /\ used \in Nat /\ n \in 0 .. MaxTraps /\ n = used + 1
    BY <1>a, <1>n
  <1>3. /\ tpc[n] = "none" /\ switch_to_emu_sem[n] = 0 /\ switch_to_trap_sem[n] = 0
    <2>1. n > used
      BY <1>2
    <2> QED  BY <2>1 DEF Inv, Fresh
  <1>4. /\ running \in Tasks /\ regs \in Registers
        /\ entered \in [Tasks -> Seq([ctx : Contexts, regs : Registers])]
        /\ entered[running] \in Seq([ctx : Contexts, regs : Registers])
        /\ ctx \in [Contexts -> TrapContext]
        /\ switch_to_trap_sem \in [Contexts -> {0, 1}]
        /\ x \in [ctx : Contexts, regs : Registers]
    BY <1>2 DEF Inv, TypeOK
  <1>5. tpc' = [tpc EXCEPT ![n] = "start"]
    BY <1>n DEF HandleExtendedTrap
  <1>6. /\ tpc' \in [Contexts -> {"none", "start", "run", "call", "call post", "wait",
                                "returned", "exit", "exit post", "ending", "ended"}]
        /\ tpc'[n] = "start" /\ \A c \in Contexts \ {n} : tpc'[c] = tpc[c]
    BY <1>2, <1>5 DEF Inv, TypeOK
  <1>7. switch_to_trap_sem' = [switch_to_trap_sem EXCEPT ![n] = @ + 1]
    BY <1>n DEF HandleExtendedTrap, Post
  <1>8. entered' = [entered EXCEPT ![running] = Append(@, x)]
    BY <1>n DEF HandleExtendedTrap
  <1>9. ctx' = [ctx EXCEPT ![n].saved = regs, ![n].has_retval = b]
    BY <1>n DEF HandleExtendedTrap
  <1>b. b \in BOOLEAN
    OBVIOUS
  <1> HIDE DEF b
  <1>10. switch_to_trap_sem' \in [Contexts -> {0, 1}]
    BY <1>2, <1>3, <1>4, <1>7, PostFacts
  <1>11. /\ switch_to_trap_sem'[n] = 1
         /\ \A c \in Contexts \ {n} : switch_to_trap_sem'[c] = switch_to_trap_sem[c]
    BY <1>2, <1>3, <1>4, <1>7, PostFacts
  <1>12. ctx' \in [Contexts -> TrapContext]
    <2>1. ctx[n] \in TrapContext
      BY <1>2, <1>4
    <2>2. [ctx[n] EXCEPT !.saved = regs, !.has_retval = b] \in TrapContext
      BY <1>4, <1>b, <2>1, Zenon DEF TrapContext
    <2>3. ctx' = [ctx EXCEPT ![n] = [ctx[n] EXCEPT !.saved = regs, !.has_retval = b]]
      BY <1>2, <1>4, <1>9
    <2> QED  BY <1>2, <1>4, <2>2, <2>3
  <1>13. /\ \A c \in Contexts \ {n} : ctx'[c] = ctx[c]
         /\ ctx'[n].saved = regs
    BY <1>2, <1>4, <1>9 DEF TrapContext
  <1>14. ctx'[n].has_retval = b
    BY <1>2, <1>4, <1>9 DEF TrapContext
  <1>15. x.ctx = n /\ x.regs = regs
    OBVIOUS
  <1> HIDE DEF x
  <1>16. /\ entered' \in [Tasks -> Seq([ctx : Contexts, regs : Registers])]
         /\ \A t \in Tasks \ {running} : entered'[t] = entered[t]
    BY <1>4, <1>8, AppendProperties
  <1>17. /\ m \in Nat /\ Len(entered[running]) = m
         /\ ~InTrap /\ InTrap' /\ Innermost' = n
    <2>1. ~InTrap /\ InTrap' /\ Innermost' = n
      BY <1>1 DEF InTrap, Innermost
    <2> QED  BY <1>4, <2>1, Lengths DEF Inv, Nesting
  <1>18. /\ Len(entered'[running]) = m + 1
         /\ \A i \in 1 .. m : entered'[running][i] = entered[running][i]
         /\ entered'[running][m + 1] = x
    BY <1>4, <1>8, <1>17, AppendProperties
  <1> HIDE DEF m
  <1>19. /\ \A c \in Contexts : /\ switch_to_emu_sem'[c] # 1
                                /\ tpc'[c] \notin Working
         /\ \A c \in Contexts \ {n} : switch_to_trap_sem'[c] # 1 /\ tpc'[c] # "start"
    <2>1. "start" \notin Working
      BY DEF Working
    <2> QED  BY ZenonT(60), <1>1, <1>6, <1>11, <2>1, NoThread, Zenon
  <1>20. TypeOK'
    BY <1>1, <1>2, <1>6, <1>10, <1>12, <1>16 DEF Inv, TypeOK
  <1>21. Baton'
    <2>1. \A c \in Contexts \ {n} : BatonOf(c)'
      BY <1>1, <1>19, Zenon DEF BatonOf
    <2>2. BatonOf(n)'
      BY <1>1, <1>2, <1>6, <1>11, <1>19, Zenon DEF BatonOf
    <2>3. \A c \in Contexts : BatonOf(c)'
      BY <2>1, <2>2, Zenon
    <2> QED  BY <1>1, <1>2, <1>11, <2>3, Zenon DEF Baton
  <1>22. Fresh'
    <2> SUFFICES ASSUME NEW c \in Contexts, c > n
                 PROVE  tpc'[c] = "none" /\ switch_to_emu_sem'[c] = 0 /\ switch_to_trap_sem'[c] = 0
      BY <1>1 DEF Fresh
    <2>1. c # n /\ c > used
      BY <1>2, Numbers DEF Inv
    <2> QED  BY <1>1, <1>6, <1>11, <2>1 DEF Inv, Fresh
  <1>23. Mutex'
    <2>1. trap_mutex = 1
      BY <1>1 DEF Inv, Mutex, Requested
    <2>2. switch_to_emu_sem'[n] # 1
      BY <1>2, <1>19
    <2>3. tpc'[n] \notin {"call post", "wait", "returned", "exit post"}
      BY <1>6
    <2>4. ~Requested'
      BY <1>1, <2>2, <2>3, Zenon DEF Requested
    <2>5. epc' = "wait" /\ trap_mutex' = 1
      BY <1>1, <2>1
    <2> QED  BY <2>4, <2>5, Zenon DEF Mutex, Requested
  <1>24. Handed'
    <2>1. \A c \in Contexts : HandsOver(c)'
      BY <1>19, Zenon DEF HandsOver, Working
    <2>2. \A c \in Contexts : ctx'[c].saved.pc = "code"
      BY <1>1, <1>13, Zenon DEF Inv, Handed
    <2> QED  BY <1>1, <2>1, <2>2, Zenon DEF Inv, Handed
  <1>25. Nesting'
    <2>1. \A t \in Tasks \ {running} :
             /\ Len(entered'[t]) = Len(stack[t])
             /\ \A i \in 1 .. Len(stack[t]) : stack[t][i].ctx = entered'[t][i].ctx
      BY <1>16, <1>17 DEF Inv, Nesting
    <2>2. \A i \in 1 .. m : stack[running][i].ctx = entered'[running][i].ctx
      BY <1>4, <1>17, <1>18 DEF Inv, Nesting, m
    <2>3. entered'[running][Len(entered'[running])].ctx = n
      BY <1>15, <1>18
    <2> QED  BY <1>1, <1>17, <1>18, <2>1, <2>2, <2>3 DEF Nesting, m
  <1>26. OnStack'
    <2> SUFFICES ASSUME NEW t \in Tasks, NEW i \in 1 .. Len(stack[t])
                 PROVE  LET d == stack[t][i].ctx
                        IN  /\ tpc'[d] = "wait" /\ switch_to_emu_sem'[d] = 0
                            /\ switch_to_trap_sem'[d] = 0 /\ stack[t][i].func = ctx'[d].func_addr
      BY <1>1 DEF OnStack
    <2>1. tpc[stack[t][i].ctx] = "wait" /\ stack[t][i].ctx \in Contexts
      BY Elements DEF Inv, OnStack
    <2>2. stack[t][i].ctx # n
      BY <1>3, <2>1
    <2> DEFINE d == stack[t][i].ctx
    <2>3. /\ tpc'[d] = tpc[d] /\ ctx'[d] = ctx[d]
          /\ switch_to_emu_sem'[d] = switch_to_emu_sem[d]
          /\ switch_to_trap_sem'[d] = switch_to_trap_sem[d]
      BY <1>1, <1>6, <1>11, <1>13, <2>1, <2>2
    <2> QED  BY <2>3 DEF Inv, OnStack
  <1>27. \A t \in Tasks : \A i \in 1 .. Len(entered'[t]) :
            \/ i \in 1 .. Len(entered[t]) /\ entered'[t][i] = entered[t][i]
               /\ entered[t][i].ctx \in Contexts /\ entered[t][i].ctx <= used
            \/ t = running /\ i = m + 1 /\ entered'[t][i] = x
    <2> SUFFICES ASSUME NEW t \in Tasks, NEW i \in 1 .. Len(entered'[t])
                 PROVE  \/ i \in 1 .. Len(entered[t]) /\ entered'[t][i] = entered[t][i]
                           /\ entered[t][i].ctx \in Contexts /\ entered[t][i].ctx <= used
                        \/ t = running /\ i = m + 1 /\ entered'[t][i] = x
      OBVIOUS
    <2>1. i \in 1 .. Len(entered[t]) => entered[t][i].ctx \in Contexts /\ entered[t][i].ctx <= used
      BY Elements DEF Inv, Unique
    <2>2. CASE t # running
      BY <1>16, <2>1, <2>2
    <2>3. CASE t = running
      <3>1. i \in 1 .. m \/ i = m + 1
        BY <1>17, <1>18, <2>3
      <3> QED  BY <1>17, <1>18, <2>1, <2>3, <3>1
    <2> QED  BY <2>2, <2>3
  <1>28. Unique'
    <2>1. used + 1 = n
      BY <1>n
    <2>2. ASSUME NEW t \in Tasks, NEW i \in 1 .. Len(entered'[t])
          PROVE  entered'[t][i].ctx <= n
      <3>1. \A c \in Contexts : c <= used => c <= n
        BY <1>2, Numbers DEF Inv
      <3>2. n <= n
        BY <1>2
      <3> QED  BY <1>15, <1>27, <3>1, <3>2
    <2>3. ASSUME NEW t \in Tasks, NEW u \in Tasks, NEW i \in 1 .. Len(entered'[t]),
                 NEW k \in 1 .. Len(entered'[u]), entered'[t][i].ctx = entered'[u][k].ctx
          PROVE  t = u /\ i = k
      <3>1. CASE /\ i \in 1 .. Len(entered[t]) /\ entered'[t][i] = entered[t][i]
                 /\ k \in 1 .. Len(entered[u]) /\ entered'[u][k] = entered[u][k]
        BY <2>3, <3>1 DEF Inv, Unique
      <3>2. CASE /\ t = running /\ i = m + 1 /\ entered'[t][i] = x
                 /\ u = running /\ k = m + 1 /\ entered'[u][k] = x
        BY <3>2
      <3>3. \A c \in Contexts : c <= used => c # n
        BY <1>2, <2>1, Numbers DEF Inv
      <3> QED  BY <1>15, <1>27, <2>3, <3>1, <3>2, <3>3
    <2> QED  BY <1>1, <2>2, <2>3 DEF Unique
  <1>29. Answers'
    <2>1. SavedAnswers'
      BY <1>1, Zenon DEF Inv, Answers, SavedAnswers, HasResult
    <2>2. \A c \in Contexts : KnowsAnswer(c)'
      BY <1>6, <1>19, Zenon DEF KnowsAnswer, Working
    <2> QED  BY <1>1, <2>1, <2>2, Zenon DEF Answers
  <1>30. Contents'
    <2>1. Kept'
      <3> SUFFICES ASSUME NEW t \in Tasks, NEW i \in 1 .. Len(entered'[t])
                   PROVE  LET y == entered'[t][i]
                          IN  /\ ctx'[y.ctx].saved = y.regs
                              /\ ctx'[y.ctx].has_retval <=> y.ctx \notin NoRetval
        BY DEF Kept
      <3>1. CASE /\ i \in 1 .. Len(entered[t]) /\ entered'[t][i] = entered[t][i]
                 /\ entered[t][i].ctx \in Contexts /\ entered[t][i].ctx <= used
        <4>1. entered[t][i].ctx # n
          BY <1>2, <3>1, Numbers DEF Inv
        <4>2. ctx'[entered[t][i].ctx] = ctx[entered[t][i].ctx]
          BY <1>13, <3>1, <4>1
        <4> QED  BY <3>1, <4>2 DEF Inv, Contents, Kept
      <3>2. CASE entered'[t][i] = x
        BY <1>13, <1>14, <1>15, <3>2 DEF b
      <3> QED  BY <1>27, <3>1, <3>2
    <2>2. \A c \in Contexts : KnowsResult(c)'
      <3>1. \A c \in Contexts : KnowsResult(c)
        BY DEF Inv, Contents
      <3> QED  BY <1>6, <1>13, <3>1, Zenon DEF KnowsResult
    <2> QED  BY <2>1, <2>2 DEF Contents
  <1> QED  BY <1>20, <1>21, <1>22, <1>23, <1>24, <1>25, <1>26, <1>28, <1>29, <1>30 DEF Inv

----------------------------------------------------------------------------
(* The theorems *)

LEMMA InitInv ==
    ASSUME TrapsInit
    PROVE  Inv
  <1>1. /\ running \in Tasks /\ regs = Reset /\ epc = "cpu" /\ ectx = 0 /\ trap_mutex = 1
        /\ current_context = 0 /\ used = 0 /\ freed = {} /\ calls = 0
        /\ saved = [t \in Tasks |-> Reset] /\ stack = [t \in Tasks |-> <<>>]
        /\ entered = [t \in Tasks |-> <<>>]
        /\ tpc = [c \in Contexts |-> "none"]
        /\ switch_to_emu_sem = [c \in Contexts |-> 0]
        /\ switch_to_trap_sem = [c \in Contexts |-> 0]
    BY DEF TrapsInit
  <1>2. Reset \in Registers /\ Reset.pc = "code"
    <2>1. 0 \in 0 .. MaxCalls + MaxTraps
      BY TrapsAssumption
    <2> QED  BY <2>1 DEF Reset, Registers
  <1>3. /\ ctx \in [Contexts -> TrapContext]
        /\ \A c \in Contexts : ctx[c].saved = Reset
    <2> DEFINE new == [saved |-> Reset, has_retval |-> FALSE, retval |-> 0,
                       func_addr |-> 0, call68k_retval |-> 0]
    <2>1. 0 \in 0 .. MaxCalls + MaxTraps /\ 0 \in 0 .. MaxCalls /\ 0 \in Nat
      BY TrapsAssumption
    <2>2. new \in TrapContext /\ new.saved = Reset
      BY <1>2, <2>1 DEF TrapContext
    <2>3. ctx = [c \in Contexts |-> new]
      BY DEF TrapsInit
    <2> HIDE DEF new
    <2> QED  BY <2>2, <2>3
  <1>4. \A t \in Tasks : /\ stack[t] = <<>> /\ Len(stack[t]) = 0
                         /\ entered[t] = <<>> /\ Len(entered[t]) = 0
    BY <1>1, EmptySeq
  <1>5. \A c \in Contexts : /\ tpc[c] = "none" /\ switch_to_emu_sem[c] = 0
                            /\ switch_to_trap_sem[c] = 0
    BY <1>1
  <1>6. \A c \in Contexts : switch_to_emu_sem[c] # 1 /\ switch_to_trap_sem[c] # 1
    BY <1>5
  <1>7. TypeOK
    <2>1. /\ stack \in [Tasks -> Seq([ctx : Contexts, func : 0 .. MaxCalls])]
          /\ entered \in [Tasks -> Seq([ctx : Contexts, regs : Registers])]
      BY <1>1, EmptySeq
    <2>2. /\ tpc \in [Contexts -> {"none", "start", "run", "call", "call post", "wait",
                                   "returned", "exit", "exit post", "ending", "ended"}]
          /\ switch_to_emu_sem \in [Contexts -> {0, 1}]
          /\ switch_to_trap_sem \in [Contexts -> {0, 1}]
      BY <1>1
    <2>3. 0 \in 0 .. MaxTraps /\ 0 \in 0 .. MaxCalls
      BY TrapsAssumption
    <2>4. saved \in [Tasks -> Registers] /\ regs \in Registers
      BY <1>1, <1>2
    <2> QED  BY <1>1, <1>3, <2>1, <2>2, <2>3, <2>4 DEF TypeOK
  <1>8. Baton
    BY <1>1, <1>5, <1>6, Zenon DEF Baton, BatonOf, Working
  <1>9. Fresh
    BY <1>5 DEF Fresh
  <1>10. Mutex
    BY <1>1, <1>2 DEF Mutex, Requested
  <1>11. Handed
    <2>1. \A c \in Contexts : HandsOver(c)
      BY <1>5, <1>6, Zenon DEF HandsOver
    <2>2. regs.pc = "code"
      BY <1>1, <1>2
    <2>3. \A t \in Tasks : saved[t].pc = "code"
      BY <1>1, <1>2
    <2>4. \A c \in Contexts : ctx[c].saved.pc = "code"
      BY <1>2, <1>3
    <2> QED  BY <1>1, <2>1, <2>2, <2>3, <2>4, Zenon DEF Handed
  <1>12. ~InTrap
    BY <1>1, <1>2 DEF InTrap
  <1>13. Nesting /\ OnStack /\ Unique
    BY <1>4, <1>12 DEF Nesting, OnStack, Unique
  <1>14. Answers
    <2>1. \A c \in Contexts : KnowsAnswer(c)
      BY <1>5, Zenon DEF KnowsAnswer
    <2>2. SavedAnswers
      BY <1>1, <1>2 DEF SavedAnswers
    <2>3. regs.pc # "return"
      BY <1>1, <1>2
    <2> QED  BY <1>1, <2>1, <2>2, <2>3, Zenon DEF Answers
  <1>15. Contents
    <2>1. \A c \in Contexts : KnowsResult(c)
      BY <1>5 DEF KnowsResult
    <2>2. Kept
      BY <1>4 DEF Kept
    <2> QED  BY <2>1, <2>2 DEF Contents
  <1> QED  BY <1>7, <1>8, <1>9, <1>10, <1>11, <1>13, <1>14, <1>15 DEF Inv

LEMMA StutterInv ==
    ASSUME Inv, UNCHANGED vars
    PROVE  Inv'
  <1>1. UNCHANGED <<running, saved, regs, stack, epc, ectx, tpc, ctx, switch_to_emu_sem,
                    switch_to_trap_sem, trap_mutex, current_context, used, freed, calls,
                    entered>>
    BY DEF vars, guest, thread, locks, counts
  <1>2. TypeOK' /\ Baton' /\ Fresh' /\ Mutex'
    BY <1>1 DEF Inv, TypeOK, Baton, BatonOf, Fresh, Mutex, Requested
  <1>3. OnStack' /\ Unique'
    BY <1>1 DEF Inv, OnStack, Unique
  <1>6. Handed'
    <2>1. \A c \in Contexts : HandsOver(c)'
      BY <1>1, Zenon DEF Inv, Handed, HandsOver
    <2> QED  BY <1>1, <2>1, Zenon DEF Inv, Handed
  <1>5. Nesting'
    BY <1>1 DEF Inv, Nesting, InTrap, Innermost
  <1>4. Answers' /\ Contents'
    BY <1>1 DEF Inv, Answers, HasResult, SavedAnswers, KnowsAnswer, Contents, Kept, KnowsResult
  <1> QED  BY <1>2, <1>3, <1>4, <1>5, <1>6 DEF Inv

(* The parts of the invariant hold in every state that can be reached. *)
THEOREM TrapsInvariant == TrapsSpec => []Inv
  <1>1. TrapsInit => Inv
    BY InitInv
  <1>2. Inv /\ [TrapsNext]_vars => Inv'
    <2> SUFFICES ASSUME Inv, [TrapsNext]_vars
                 PROVE  Inv'
      OBVIOUS
    <2>1. ASSUME NEW t \in Tasks, Switch(t) \/ Rts(t)
          PROVE  Inv'
      BY <2>1, SwitchKeeps, RtsKeeps
    <2>2. CASE Compute \/ HandleExtendedTrap
      BY <2>2, ComputeKeeps, HandleExtendedTrapKeeps
    <2>3. CASE EmuStep
      BY <2>3, ResumeKeeps, CallHandlerKeeps, CallPostKeeps, CallMaskKeeps,
         ReturnHandlerKeeps, ReturnPostKeeps, ExitHandlerKeeps, ExitPostKeeps DEF EmuStep
    <2>4. ASSUME NEW c \in Contexts, ThreadStep(c)
          PROVE  Inv'
      BY <2>4, StartKeeps, WantCallKeeps, PostCallKeeps, WaitReturnKeeps, EndCallKeeps,
         FinishKeeps, ExitTrapKeeps, PostExitKeeps, EndKeeps, Call68kKeeps DEF ThreadStep
    <2>5. CASE UNCHANGED vars
      BY <2>5, StutterInv
    <2> QED  BY <2>1, <2>2, <2>3, <2>4, <2>5 DEF TrapsNext
  <1> QED  BY <1>1, <1>2, PTL DEF TrapsSpec

(* Every variable keeps its type; the semaphores are never posted twice. *)
THEOREM TrapsTyping == TrapsSpec => []TypeOK
  <1>1. Inv => TypeOK
    BY DEF Inv
  <1> QED  BY <1>1, TrapsInvariant, PTL

(* Exactly one thread has control of the emulated CPU. *)
THEOREM OneThreadAtATime == TrapsSpec => []OneAtATime
  <1>1. ASSUME Inv
        PROVE  OneAtATime
    <2>1. \A c \in Contexts : switch_to_emu_sem[c] \in {0, 1} /\ switch_to_trap_sem[c] \in {0, 1}
      BY <1>1, Numbers DEF Inv
    <2>2. \A c \in Contexts : Active(c) <=> (tpc[c] \in Working \/ switch_to_trap_sem[c] = 1)
      <3> SUFFICES ASSUME NEW c \in Contexts
                   PROVE  Active(c) <=> (tpc[c] \in Working \/ switch_to_trap_sem[c] = 1)
        OBVIOUS
      <3>1. switch_to_trap_sem[c] > 0 <=> switch_to_trap_sem[c] = 1
        BY <2>1
      <3>2. switch_to_trap_sem[c] = 1 => tpc[c] \in {"start", "wait"}
        BY <1>1, Zenon DEF Inv, Baton, BatonOf
      <3> QED  BY <3>1, <3>2, Zenon DEF Active, Working
    <2>3. \A c \in Contexts : Active(c) => epc = "wait" /\ ectx = c /\ switch_to_emu_sem[c] = 0
      BY <1>1, <2>2, InControl
    <2>4. EmuActive => \A c \in Contexts : ~Active(c)
      <3>1. \A c \in Contexts : switch_to_emu_sem[c] = 0 => ~(switch_to_emu_sem[c] > 0)
        OBVIOUS
      <3> QED  BY <2>3, <3>1, Zenon DEF EmuActive
    <2>5. \A c, d \in Contexts : Active(c) /\ Active(d) => c = d
      BY <2>3, Zenon
    <2>6. EmuActive \/ \E c \in Contexts : Active(c)
      <3>1. CASE epc # "wait"
        BY <3>1 DEF EmuActive
      <3>2. CASE epc = "wait"
        <4>1. /\ ectx \in Contexts
              /\ \/ switch_to_emu_sem[ectx] = 1
                 \/ switch_to_trap_sem[ectx] = 1 \/ tpc[ectx] \in Working
          BY <1>1, <3>2 DEF Inv, Baton
        <4>2. switch_to_emu_sem[ectx] = 1 => switch_to_emu_sem[ectx] > 0
          OBVIOUS
        <4> QED  BY <2>2, <4>1, <4>2, Zenon DEF EmuActive
      <3> QED  BY <3>1, <3>2
    <2> QED  BY <2>4, <2>5, <2>6 DEF OneAtATime
  <1> QED  BY <1>1, TrapsInvariant, PTL

(* trap_mutex is free whenever a thread takes it, so that no thread waits for it. *)
THEOREM MutexIsFree == TrapsSpec => []NeverContended
  <1>1. ASSUME Inv
        PROVE  NeverContended
    <2>1. ASSUME NEW c \in Contexts, tpc[c] \in {"call", "exit"}
          PROVE  trap_mutex = 1
      <3>1. tpc[c] \in Working
        BY <2>1, Zenon DEF Working
      <3>2. epc = "wait" /\ ectx = c /\ switch_to_emu_sem[c] # 1
        BY <1>1, <3>1, InControl
      <3>3. ~(switch_to_emu_sem[ectx] = 1
              \/ tpc[ectx] \in {"call post", "wait", "returned", "exit post"})
        BY <2>1, <3>2, Zenon
      <3> QED  BY <1>1, <3>2, <3>3, Zenon DEF Inv, Mutex, Requested
    <2>2. At("return") => trap_mutex = 1
      BY <1>1 DEF Inv, Mutex, Requested, At
    <2> QED  BY <2>1, <2>2 DEF NeverContended
  <1> QED  BY <1>1, TrapsInvariant, PTL

(* The internal traps serve the innermost trap of the task that runs. *)
THEOREM TrapsServeTheirTask == TrapsSpec => []RightTask
  <1>1. ASSUME Inv
        PROVE  RightTask
    <2>1. At("call") \/ At("exit") =>
             entered[running] # <<>> /\ Last(entered[running]).ctx = current_context
      BY <1>1, Ending
    <2>2. ASSUME At("return")
          PROVE  /\ stack[running] # <<>> /\ entered[running] # <<>>
                 /\ Last(entered[running]).ctx = Last(stack[running]).ctx
      <3>1. stack[running] # <<>>
        BY <1>1, <2>2, Zenon DEF Inv, Answers, HasResult, At
      <3>2. /\ running \in Tasks
            /\ stack[running] \in Seq([ctx : Contexts, func : 0 .. MaxCalls])
            /\ entered[running] \in Seq([ctx : Contexts, regs : Registers])
        BY <1>1 DEF Inv, TypeOK
      <3>3. ~InTrap
        BY <2>2 DEF InTrap, At
      <3>4. /\ Len(stack[running]) \in Nat \ {0}
            /\ Last(stack[running]) = stack[running][Len(stack[running])]
        BY <3>1, <3>2, FrontFacts
      <3>5. /\ Len(entered[running]) = Len(stack[running])
            /\ stack[running][Len(stack[running])].ctx = entered[running][Len(stack[running])].ctx
        BY <1>1, <3>2, <3>3, <3>4 DEF Inv, Nesting
      <3>6. entered[running] # <<>>
        BY <3>2, <3>4, <3>5, EmptySeq
      <3>7. Last(entered[running]) = entered[running][Len(entered[running])]
        BY <3>2, <3>6, FrontFacts
      <3> QED  BY <3>1, <3>4, <3>5, <3>6, <3>7
    <2> QED  BY <2>1, <2>2 DEF RightTask
  <1> QED  BY <1>1, TrapsInvariant, PTL

(* A trap function gets the result of the guest function it called. *)
THEOREM AnswersArriveRight == TrapsSpec => []RightAnswer
  <1>1. Inv => RightAnswer
    BY Zenon DEF Inv, Answers, KnowsAnswer, RightAnswer
  <1> QED  BY <1>1, TrapsInvariant, PTL

(* A trap is invisible to its task but for the result in D0. *)
THEOREM TrapsAreTransparent == TrapsSpec => Transparent
  <1>1. ASSUME Inv, [TrapsNext]_vars, ExitHandler
        PROVE  LET e == Last(entered[running])
               IN  regs' = IF e.ctx \in NoRetval THEN e.regs
                           ELSE [e.regs EXCEPT !.d0 = MaxCalls + e.ctx]
    <2> DEFINE e == Last(entered[running])
    <2>1. At("exit")
      BY <1>1 DEF ExitHandler
    <2>2. /\ running \in Tasks /\ current_context \in Contexts
          /\ Len(entered[running]) = Len(stack[running]) + 1 /\ Len(stack[running]) \in Nat
          /\ e = entered[running][Len(entered[running])]
          /\ e.ctx = current_context
      BY <1>1, <2>1, Ending
    <2>3. Len(entered[running]) \in 1 .. Len(entered[running])
      BY <2>2
    <2>4. /\ ctx[current_context].saved = e.regs
          /\ ctx[current_context].has_retval <=> current_context \notin NoRetval
      BY <1>1, <2>2, <2>3 DEF Inv, Contents, Kept
    <2>5. ctx[current_context].retval = MaxCalls + current_context
      <3>1. tpc[current_context] \in {"ending", "ended"}
        BY <1>1, <2>1, Zenon DEF Inv, Handed, At
      <3> QED  BY <1>1, <2>2, <3>1 DEF Inv, Contents, KnowsResult
    <2>6. regs' = Result(current_context)
      BY <1>1 DEF ExitHandler
    <2>7. e.regs \in Registers
      BY <1>1, <2>2, <2>3, Elements DEF Inv
    <2> HIDE DEF e
    <2>8. CASE current_context \in NoRetval
      <3>1. regs' = [e.regs EXCEPT !.d0 = @]
        BY <2>4, <2>6, <2>8 DEF Result
      <3>2. regs' = e.regs
        BY <2>7, <3>1 DEF Registers
      <3> QED  BY <2>2, <2>8, <3>2 DEF e
    <2>9. CASE current_context \notin NoRetval
      <3>1. regs' = [e.regs EXCEPT !.d0 = MaxCalls + current_context]
        BY <2>4, <2>5, <2>6, <2>9 DEF Result
      <3> QED  BY <2>2, <2>9, <3>1 DEF e
    <2> QED  BY <2>8, <2>9
  <1>2. Inv /\ [TrapsNext]_vars =>
          [ExitHandler => LET e == Last(entered[running])
                          IN  regs' = IF e.ctx \in NoRetval THEN e.regs
                                      ELSE [e.regs EXCEPT !.d0 = MaxCalls + e.ctx]]_vars
    BY <1>1
  <1> QED  BY <1>2, TrapsInvariant, PTL DEF TrapsSpec, Transparent

=============================================================================
