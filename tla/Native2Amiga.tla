---------------------------- MODULE Native2Amiga ----------------------------
(***************************************************************************)
(* How a host thread calls exec.library of the emulated Amiga              *)
(* (native2amiga.cpp): it writes the call as two or three words to a pipe, *)
(* sets bit 0 of uae_int_requested, and the EXTER interrupt server         *)
(* (exter_server of filesys.asm, exter_int_helper of filesys.cpp) decodes  *)
(* the words and makes the call on the emulation thread.                   *)
(*                                                                         *)
(* The pipe is the FIFO queue that CommPipe implements.  |= and &= on      *)
(* uae_int_requested are a load and a store.  The emulated machine is what *)
(* the source needs of it: the PORTS interrupt is raised while a request   *)
(* bit is set and is taken sooner or later.                                *)
(***************************************************************************)
EXTENDS Integers, Sequences, FiniteSets

CONSTANTS Threads,      \* host threads that send
          Emu,          \* the emulation thread
          EmuSends,     \* TRUE: device code on the emulation thread sends too
          OtherBits,    \* how devices_rethink changes other request bits:
                        \* "plain" (the code), "atomic" or "never"
          Capacity,     \* words the pipe holds (99 in the program)
          MaxMessages,  \* bound: messages sent in a behaviour
          Units         \* filesystem units that exter_int_helper scans

ASSUME N2AAssumption ==
    /\ Emu \notin Threads
    /\ EmuSends \in BOOLEAN /\ OtherBits \in {"plain", "atomic", "never"}
    /\ Capacity \in Nat /\ Capacity >= 3     \* the longest message fits
    /\ MaxMessages \in Nat /\ Units \in Nat

VARIABLES
    pipe, read,             \* native2amiga_pending; the words read from it
    n2asem,                 \* serialises the senders
    requested,              \* uae_int_requested, as the set of its bits
    spc, msg, pos, old,     \* per sender: label, message, next word, loaded bits
    epc, eold, cmd, args,   \* emulation thread: label, loaded bits, decoded words
    unit_no,
    singlethread_int_sem, filesys_in_interrupt,
    intreq,                 \* the PORTS bit of INTREQ
    sent,                   \* kinds of the messages, in the order of n2asem
    calls                   \* exec calls made in the interrupt server

sender == <<spc, msg, pos, old>>
server == <<epc, eold, cmd, args, unit_no, singlethread_int_sem,
            filesys_in_interrupt, intreq, calls>>
vars   == <<pipe, read, n2asem, requested, sender, server, sent>>

Fifo == INSTANCE BoundedFifo WITH queue <- pipe, delivered <- read, Word <- {}

Senders == IF EmuSends THEN Threads \cup {Emu} ELSE Threads
Kinds   == {"Signal", "PutMsg", "ReplyMsg", "Cause", "NotificationHack"}

\* Words of a call after its command word.
Arity(kind) == IF kind \in {"ReplyMsg", "Cause"} THEN 1 ELSE 2

\* The i-th word of the m-th message: its command word, then its arguments.  The
\* decoder sees the code of a command word; of and at say where a word is from.
Word(m, i) == [code |-> IF i = 0 THEN sent[m] ELSE "argument", of |-> m, at |-> i]

N2AInit ==
    /\ pipe = <<>> /\ read = <<>> /\ n2asem = 1 /\ requested = {}
    /\ spc = [s \in Senders |-> "idle"]
    /\ msg = [s \in Senders |-> 0] /\ pos = [s \in Senders |-> 0]
    /\ old = [s \in Senders |-> {}]
    /\ epc = "run" /\ eold = {} /\ cmd = "none" /\ args = <<>> /\ unit_no = 0
    /\ singlethread_int_sem = 1 /\ filesys_in_interrupt = 0
    /\ intreq = FALSE /\ sent = <<>> /\ calls = <<>>

----------------------------------------------------------------------------
(* uae_Cause, uae_ReplyMsg, uae_PutMsg, uae_Signal, uae_NotificationHack *)

Goto(s, label) == spc' = [spc EXCEPT ![s] = label]

\* The emulation thread runs one thing at a time.
EmuFree(s) == s = Emu => epc = "run"

\* A device decides to send and waits for n2asem.
Begin(s) ==
    /\ spc[s] = "idle" /\ EmuFree(s)
    /\ Len(sent) + Cardinality({t \in Senders : spc[t] = "wait"}) < MaxMessages
    /\ Goto(s, "wait")
    /\ UNCHANGED <<pipe, read, n2asem, requested, msg, pos, old, server, sent>>

\* Fault: the senders do not exclude each other.
AcquireAlways(s, kind) ==
    /\ spc[s] = "wait"
    /\ n2asem' = 0
    /\ sent' = Append(sent, kind)
    /\ msg' = [msg EXCEPT ![s] = Len(sent) + 1]
    /\ pos' = [pos EXCEPT ![s] = 0]
    /\ Goto(s, "write")
    /\ UNCHANGED <<pipe, read, requested, old, server>>

Acquire(s, kind) ==
    /\ spc[s] = "wait" /\ n2asem = 1
    /\ n2asem' = 0
    /\ sent' = Append(sent, kind)
    /\ msg' = [msg EXCEPT ![s] = Len(sent) + 1]
    /\ pos' = [pos EXCEPT ![s] = 0]
    /\ Goto(s, "write")
    /\ UNCHANGED <<pipe, read, requested, old, server>>

\* write_comm_pipe_int or write_comm_pipe_u32: blocks while the pipe is full.
WriteWord(s) ==
    /\ spc[s] = "write"
    /\ Fifo!Put(Word(msg[s], pos[s]))
    /\ pos' = [pos EXCEPT ![s] = @ + 1]
    /\ Goto(s, IF pos[s] = Arity(sent[msg[s]]) THEN "load" ELSE "write")
    /\ UNCHANGED <<n2asem, requested, msg, old, server, sent>>

\* do_uae_int_requested: uae_int_requested |= 1.
LoadBits(s) ==
    /\ spc[s] = "load"
    /\ old' = [old EXCEPT ![s] = requested]
    /\ Goto(s, "store")
    /\ UNCHANGED <<pipe, read, n2asem, requested, msg, pos, server, sent>>

StoreBits(s) ==
    /\ spc[s] = "store"
    /\ requested' = old[s] \cup {"exter"}
    /\ Goto(s, "post")
    /\ UNCHANGED <<pipe, read, n2asem, msg, pos, old, server, sent>>

Post(s) ==
    /\ spc[s] = "post"
    /\ n2asem' = n2asem + 1
    /\ Goto(s, "idle")
    /\ UNCHANGED <<pipe, read, requested, msg, pos, old, server, sent>>

SendStep(s) ==
    \/ \E kind \in Kinds : Acquire(s, kind)
    \/ WriteWord(s) \/ LoadBits(s) \/ StoreBits(s) \/ Post(s)

----------------------------------------------------------------------------
(* The emulation thread *)

\* It is executing 68k code and not inside a device's send.
Running == epc = "run" /\ (EmuSends => spc[Emu] = "idle")

\* check_uae_int_request: the request bits raise the interrupt.
Poll ==
    /\ Running /\ requested # {} /\ ~intreq
    /\ intreq' = TRUE
    /\ UNCHANGED <<pipe, read, n2asem, requested, sender, sent, epc, eold, cmd,
                   args, unit_no, singlethread_int_sem, filesys_in_interrupt, calls>>

\* exec takes the interrupt, resets INTREQ and asks every server in turn.
\* Case 0 of exter_int_helper: the interrupt is not for us ...
NotForUs ==
    /\ Running /\ intreq
    /\ "exter" \notin requested \/ singlethread_int_sem = 0
    /\ intreq' = FALSE
    /\ UNCHANGED <<pipe, read, n2asem, requested, sender, sent, epc, eold, cmd,
                   args, unit_no, singlethread_int_sem, filesys_in_interrupt, calls>>

\* ... or it is, and the clearing of bit 0 begins (load, then store).
ForUs ==
    /\ Running /\ intreq
    /\ "exter" \in requested /\ singlethread_int_sem = 1
    /\ intreq' = FALSE
    /\ singlethread_int_sem' = 0
    /\ filesys_in_interrupt' = filesys_in_interrupt + 1
    /\ eold' = requested
    /\ epc' = "clear"
    /\ UNCHANGED <<pipe, read, n2asem, requested, sender, sent, cmd, args, unit_no,
                   calls>>

ClearBit ==
    /\ epc = "clear"
    /\ requested' = eold \ {"exter"}
    /\ unit_no' = 0
    /\ epc' = "loop"
    /\ UNCHANGED <<pipe, read, n2asem, sender, sent, eold, cmd, args,
                   singlethread_int_sem, filesys_in_interrupt, intreq, calls>>

\* Case 2, first half: one message of the pipe.
ReadCommand ==
    /\ epc = "loop" /\ pipe # <<>>
    /\ Fifo!Take
    /\ cmd' = Head(pipe).code
    /\ args' = <<>>
    \* "unknown native action": the next word is tried as a command.
    /\ epc' = IF Head(pipe).code \in Kinds THEN "args" ELSE "loop"
    /\ UNCHANGED <<n2asem, requested, sender, sent, eold, unit_no,
                   singlethread_int_sem, filesys_in_interrupt, intreq, calls>>

\* The words that belong to the command; blocks until they are written.
ReadArgument ==
    /\ epc = "args"
    /\ Fifo!Take
    /\ args' = Append(args, Head(pipe))
    /\ epc' = IF Len(args) + 1 = Arity(cmd) THEN "call" ELSE "args"
    /\ UNCHANGED <<n2asem, requested, sender, sent, eold, cmd, unit_no,
                   singlethread_int_sem, filesys_in_interrupt, intreq, calls>>

\* Fault: exter_server has no branch for the notification message.
MakeKnownCall ==
    /\ epc = "call"
    /\ calls' = IF cmd = "NotificationHack" THEN calls
                ELSE Append(calls, [kind |-> cmd, args |-> args])
    /\ epc' = "loop"
    /\ UNCHANGED <<pipe, read, n2asem, requested, sender, sent, eold, cmd, args,
                   unit_no, singlethread_int_sem, filesys_in_interrupt, intreq>>

\* exter_server makes the call and asks for more work.
MakeCall ==
    /\ epc = "call"
    /\ calls' = Append(calls, [kind |-> cmd, args |-> args])
    /\ epc' = "loop"
    /\ UNCHANGED <<pipe, read, n2asem, requested, sender, sent, eold, cmd, args,
                   unit_no, singlethread_int_sem, filesys_in_interrupt, intreq>>

\* Fault: the scan starts again at the first unit.
ServeUnitRound ==
    /\ epc = "loop" /\ pipe = <<>>
    /\ \E u \in unit_no .. Units - 1 : unit_no' = (u + 1) % Units
    /\ UNCHANGED <<pipe, read, n2asem, requested, sender, sent, epc, eold, cmd,
                   args, singlethread_int_sem, filesys_in_interrupt, intreq, calls>>

\* Case 2, second half: the pipe is empty and a unit from unit_no on wants its
\* dummy message ...
ServeUnit ==
    /\ epc = "loop" /\ pipe = <<>>
    /\ \E u \in unit_no .. Units - 1 : unit_no' = u + 1
    /\ UNCHANGED <<pipe, read, n2asem, requested, sender, sent, epc, eold, cmd,
                   args, singlethread_int_sem, filesys_in_interrupt, intreq, calls>>

\* Fault: filesys_in_interrupt is not decremented.
StayInInterrupt ==
    /\ epc = "loop" /\ pipe = <<>>
    /\ singlethread_int_sem' = singlethread_int_sem + 1
    /\ epc' = "run"
    /\ UNCHANGED <<pipe, read, n2asem, requested, sender, sent, eold, cmd, args,
                   unit_no, filesys_in_interrupt, intreq, calls>>

\* Fault: the server ends while messages are left in the pipe.
EndServerEarly ==
    /\ epc = "loop"
    /\ filesys_in_interrupt' = filesys_in_interrupt - 1
    /\ singlethread_int_sem' = singlethread_int_sem + 1
    /\ epc' = "run"
    /\ UNCHANGED <<pipe, read, n2asem, requested, sender, sent, eold, cmd, args,
                   unit_no, intreq, calls>>

\* ... or none does: case 4, the server ends.
EndServer ==
    /\ epc = "loop" /\ pipe = <<>>
    /\ filesys_in_interrupt' = filesys_in_interrupt - 1
    /\ singlethread_int_sem' = singlethread_int_sem + 1
    /\ epc' = "run"
    /\ UNCHANGED <<pipe, read, n2asem, requested, sender, sent, eold, cmd, args,
                   unit_no, intreq, calls>>

ServerStep ==
    \/ Poll \/ NotForUs \/ ForUs \/ ClearBit
    \/ ReadCommand \/ ReadArgument \/ MakeCall \/ ServeUnit \/ EndServer

\* rethink_a2065, called by devices_rethink: uae_int_requested &= ~4, then
\* perhaps |= 4.  The store writes the bits as they were loaded, or as they are
\* when it were one atomic operation.
OtherLoaded == IF OtherBits = "atomic" THEN requested ELSE eold

LoadOther ==
    /\ OtherBits # "never" /\ Running
    /\ eold' = requested
    /\ epc' = "reset other"
    /\ UNCHANGED <<pipe, read, n2asem, requested, sender, sent, cmd, args, unit_no,
                   singlethread_int_sem, filesys_in_interrupt, intreq, calls>>

ResetOther(irq) ==
    /\ epc = "reset other"
    /\ requested' = OtherLoaded \ {"a2065"}
    /\ epc' = IF irq THEN "load other" ELSE "run"
    /\ UNCHANGED <<pipe, read, n2asem, sender, sent, eold, cmd, args, unit_no,
                   singlethread_int_sem, filesys_in_interrupt, intreq, calls>>

ReloadOther ==
    /\ epc = "load other"
    /\ eold' = requested
    /\ epc' = "set other"
    /\ UNCHANGED <<pipe, read, n2asem, requested, sender, sent, cmd, args, unit_no,
                   singlethread_int_sem, filesys_in_interrupt, intreq, calls>>

SetOther ==
    /\ epc = "set other"
    /\ requested' = OtherLoaded \cup {"a2065"}
    /\ epc' = "run"
    /\ UNCHANGED <<pipe, read, n2asem, sender, sent, eold, cmd, args, unit_no,
                   singlethread_int_sem, filesys_in_interrupt, intreq, calls>>

RethinkGoesOn == ReloadOther \/ SetOther \/ \E irq \in BOOLEAN : ResetOther(irq)
Rethink == LoadOther \/ RethinkGoesOn

----------------------------------------------------------------------------
\* The bound on messages is used up and everything is at rest.
Quiet ==
    /\ Len(sent) = MaxMessages
    /\ \A s \in Senders : spc[s] = "idle"
    /\ Running /\ ~intreq /\ requested = {}
    /\ UNCHANGED vars

N2ANext ==
    \/ \E s \in Senders : Begin(s) \/ SendStep(s)
    \/ ServerStep \/ Rethink \/ Quiet

N2ASpec == N2AInit /\ [][N2ANext]_vars

\* A sender that has n2asem goes on, and so does the emulation thread; between
\* two calls of devices_rethink the guest can take the interrupts that are raised.
N2AFairSpec ==
    /\ N2ASpec
    /\ \A s \in Senders : WF_vars(SendStep(s))
    /\ SF_vars(ServerStep) /\ WF_vars(RethinkGoesOn)

----------------------------------------------------------------------------
(* Properties *)

Bits  == {"exter", "a2065"}
Words == [code : Kinds \cup {"argument"}, of : Nat, at : 0 .. 2]

TypeOK ==
    /\ pipe \in Seq(Words) /\ Len(pipe) <= Capacity /\ read \in Seq(Words)
    /\ n2asem \in {0, 1} /\ requested \subseteq Bits
    /\ spc \in [Senders -> {"idle", "wait", "write", "load", "store", "post"}]
    /\ msg \in [Senders -> Nat] /\ pos \in [Senders -> 0 .. 3]
    /\ old \in [Senders -> SUBSET Bits]
    /\ epc \in {"run", "clear", "loop", "args", "call", "reset other",
                "load other", "set other"}
    /\ eold \subseteq Bits
    /\ cmd \in Kinds \cup {"none", "argument"} /\ args \in Seq(Words)
    /\ unit_no \in 0 .. Units
    /\ singlethread_int_sem \in {0, 1} /\ filesys_in_interrupt \in {0, 1}
    /\ intreq \in BOOLEAN
    /\ sent \in Seq(Kinds)
    /\ calls \in Seq([kind : Kinds, args : Seq(Words)])

\* The calls made on the Amiga side are the messages sent, in order, none lost
\* or repeated, each with its own arguments: the words of two senders never mix
\* and the decoder never loses its place in the stream.
WholeMessages ==
    /\ Len(calls) <= Len(sent)
    /\ \A m \in 1 .. Len(calls) :
        calls[m] = [kind |-> sent[m],
                    args |-> [i \in 1 .. Arity(sent[m]) |-> Word(m, i)]]

\* filesys.cpp:6528: "Clear the interrupt flag _before_ we do any processing.
\* That way, we can get too many interrupts, but never not enough."  While words
\* are in the pipe and no sender is about to request the interrupt, the interrupt
\* is requested or the server has yet to look at the pipe.
Serving == epc \in {"clear", "loop", "args", "call"}

NeverNotEnough ==
    pipe # <<>> /\ (\A s \in Senders : spc[s] \in {"idle", "wait", "post"})
        => "exter" \in requested \/ Serving

\* Every message sent is handed over to the Amiga.
AllDelivered ==
    \A m \in 1 .. MaxMessages : Len(sent) >= m ~> Len(calls) >= m

\* The emulation thread always comes back to executing 68k code.
EmulatorReturns == ~Running ~> Running
=============================================================================
