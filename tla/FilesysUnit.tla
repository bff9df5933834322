---------------------------- MODULE FilesysUnit ----------------------------
(***************************************************************************)
(* One mounted directory of the host (filesys.cpp, filesys.asm).  The      *)
(* handler task of the unit runs on the emulated Amiga (FSML_loop): it     *)
(* gets DOS packets at its port and hands them to a host thread            *)
(* (filesys_thread) over unit_pipe.  The thread marks a packet done and    *)
(* wakes the handler with a dummy message, which the interrupt server      *)
(* (exter_server) puts on the handler's port; it returns lock structures   *)
(* over back_pipe.  A packet that waits for a record lock is parked and    *)
(* times out at a vertical blank.  A reset stops the thread with a death   *)
(* message.                                                                *)
(*                                                                         *)
(* Guest tasks, the interrupt server, the vertical blank and the reset run *)
(* on the emulation thread, one at a time; only the host thread is         *)
(* concurrent.  The pipes are FIFO queues (CommPipe); uae_int_requested    *)
(* and the signals on their way are those of Native2Amiga.  At most one    *)
(* packet is parked: the vertical blank and the host thread change the     *)
(* list without a lock, and what two of them do to the links of a longer   *)
(* list is not in the set waitingrecords.                                  *)
(***************************************************************************)
EXTENDS Integers, Sequences, FiniteSets, SequencesExt

CONSTANTS Msgs,           \* packets that DOS sends, each once
          Dummy, Death,   \* the unit's dummy message; the death message
          Limit,          \* started packets at a time (20 in the program)
          PipeCapacity,   \* packets that unit_pipe holds (99 words, 33 packets)
          BackCapacity,   \* words that back_pipe holds (99 in the program)
          LockChanges,    \* locks a packet may cost the guest: subset of -1 .. 1
          OldLocks,       \* locks the guest has from before
          LockRecord,     \* packets that ask for a record lock, at most one
          FreeRecord,     \* packets that give one up
          Resets          \* TRUE: the machine may be reset

ASSUME UnitAssumption ==
    /\ Dummy \notin Msgs /\ Death \notin Msgs /\ Dummy # Death
    /\ Limit \in Nat \ {0}
    /\ PipeCapacity \in Nat /\ PipeCapacity >= Limit
    /\ BackCapacity \in Nat \ {0}
    /\ LockChanges \subseteq -1 .. 1 /\ LockChanges # {}
    /\ OldLocks \in Nat /\ Resets \in BOOLEAN
    /\ LockRecord \subseteq Msgs /\ FreeRecord \subseteq Msgs /\ LockRecord \cap FreeRecord = {}
    /\ \A m, k \in LockRecord : m = k

\* Locals of the code that are not in use go back to their first values.
VARIABLES
    unsent, replied,            \* packets that DOS has yet to send; has got back
    status,                     \* offset 4 of each message
    port, sigs,                 \* the handler's port and its pending signals
    fpc, fmsg, d2, a0,          \* handler: label, message, wanted status, position
    queue, d5,                  \* its queue of unfinished packets; outstanding ones
    locks, owned,               \* length of its list of locks; allocated less freed
    unit_pipe, back_pipe,
    tpc, cur, locklist, held,   \* host thread: label, packet, locks, released packet
    given,                      \* locks in use by the guest
    waitingrecords,             \* packets parked for a record lock
    cmds_sent, cmds_acked, cmds_complete,
    requested, ipc,             \* bit 0 of uae_int_requested; interrupt server
    signalling,                 \* a uae_Signal is on its way to the handler
    vpc, vrec,                  \* vertical blank: label, packet that timed out
    rpc                         \* "up", "down" (waiting for the thread) or "reset"

client  == <<unsent>>
handler == <<replied, fpc, fmsg, d2, a0, queue, d5, owned>>
thread  == <<tpc, cur, locklist, held, given, cmds_sent>>
server  == <<ipc, cmds_acked>>
vsync   == <<vpc, vrec>>
vars == <<client, handler, thread, server, vsync, status, port, sigs, locks,
          unit_pipe, back_pipe, waitingrecords, cmds_complete, requested,
          signalling, rpc>>

UnitInit ==
    /\ unsent = Msgs /\ replied = {} /\ status = [m \in Msgs |-> "none"]
    /\ port = <<>> /\ sigs = {}
    /\ fpc = "get" /\ fmsg = Dummy /\ d2 = "done" /\ a0 = 1
    /\ queue = <<>> /\ d5 = 0 /\ locks = 0 /\ owned = OldLocks
    /\ unit_pipe = <<>> /\ back_pipe = <<>>
    /\ tpc = "read" /\ cur = Death /\ locklist = 0 /\ held = Death /\ given = OldLocks
    /\ waitingrecords = {}
    /\ cmds_sent = 0 /\ cmds_acked = 0 /\ cmds_complete = 0
    /\ requested = FALSE /\ ipc = "out" /\ signalling = FALSE
    /\ vpc = "out" /\ vrec = Death /\ rpc = "up"

\* The emulation thread is inside a trap only at these labels.
InTrap == fpc = "drain" \/ ipc = "ack" \/ vpc # "out"

\* Guest tasks run: no trap, no interrupt, no reset.
TasksRun == rpc = "up" /\ ~InTrap /\ ipc = "out"

PutMsg(m) == port' = Append(port, m) /\ sigs' = sigs \cup {"port"}

\* DOS sends a packet.
Send(m) ==
    /\ TasksRun /\ m \in unsent
    /\ PutMsg(m)
    /\ unsent' = unsent \ {m}
    /\ UNCHANGED <<handler, thread, server, vsync, status, locks, unit_pipe,
                   back_pipe, waitingrecords, cmds_complete, requested,
                   signalling, rpc>>

----------------------------------------------------------------------------
(* The handler task: FSML_loop of filesys.asm *)

GetMsg ==
    /\ TasksRun /\ fpc = "get"
    /\ IF port = <<>>
       THEN fpc' = "wait" /\ UNCHANGED <<port, fmsg>>
       ELSE /\ port' = Tail(port)
            /\ fmsg' = Head(port)
            /\ fpc' = IF Head(port) = Dummy THEN "dummy" ELSE "packet"
    /\ UNCHANGED <<client, thread, server, vsync, replied, d2, a0, queue, d5,
                   owned, status, sigs, locks, unit_pipe, back_pipe,
                   waitingrecords, cmds_complete, requested, signalling, rpc>>

\* Fault: woken without a message, it looks for packets that are done.
WakeForDone ==
    /\ TasksRun /\ fpc = "wait" /\ sigs # {}
    /\ sigs' = {}
    /\ d2' = "done" /\ a0' = 1 /\ fpc' = "scan"
    /\ UNCHANGED <<client, thread, server, vsync, replied, fmsg, queue, d5,
                   owned, status, port, locks, unit_pipe, back_pipe,
                   waitingrecords, cmds_complete, requested, signalling, rpc>>

\* Wait: woken without a message, the handler looks for packets that timed out.
Wake ==
    /\ TasksRun /\ fpc = "wait" /\ sigs # {}
    /\ sigs' = {}
    /\ d2' = "timeout" /\ a0' = 1 /\ fpc' = "scan"
    /\ UNCHANGED <<client, thread, server, vsync, replied, fmsg, queue, d5,
                   owned, status, port, locks, unit_pipe, back_pipe,
                   waitingrecords, cmds_complete, requested, signalling, rpc>>

\* The dummy message: case 1 of exter_int_helper takes the locks that come back
\* (a trap) ...
Complete ==
    /\ TasksRun /\ fpc = "dummy"
    /\ cmds_complete' = cmds_acked
    /\ fpc' = "drain"
    /\ UNCHANGED <<client, thread, server, vsync, replied, fmsg, d2, a0, queue,
                   d5, owned, status, port, sigs, locks, unit_pipe, back_pipe,
                   waitingrecords, requested, signalling, rpc>>

Drain ==
    /\ fpc = "drain" /\ back_pipe # <<>>
    /\ back_pipe' = Tail(back_pipe)
    /\ locks' = locks + Head(back_pipe)
    /\ UNCHANGED <<client, handler, thread, server, vsync, status, port, sigs,
                   unit_pipe, waitingrecords, cmds_complete, requested,
                   signalling, rpc>>

\* ... and then the handler looks for packets that are done.
Drained ==
    /\ fpc = "drain" /\ back_pipe = <<>>
    /\ d2' = "done" /\ a0' = 1 /\ fpc' = "scan"
    /\ UNCHANGED <<client, thread, server, vsync, replied, fmsg, queue, d5,
                   owned, status, port, sigs, locks, unit_pipe, back_pipe,
                   waitingrecords, cmds_complete, requested, signalling, rpc>>

\* FSML_check_old: reply the packets whose status is d2.
ScanReply ==
    /\ TasksRun /\ fpc = "scan" /\ a0 <= Len(queue)
    /\ status[queue[a0]] = d2
    /\ replied' = replied \cup {queue[a0]}
    /\ queue' = RemoveAt(queue, a0)
    /\ d5' = d5 - 1
    /\ UNCHANGED <<client, thread, server, vsync, fpc, fmsg, d2, a0, owned,
                   status, port, sigs, locks, unit_pipe, back_pipe,
                   waitingrecords, cmds_complete, requested, signalling, rpc>>

ScanNext ==
    /\ TasksRun /\ fpc = "scan"
    /\ IF a0 > Len(queue)
       THEN fpc' = "get" /\ a0' = 1 /\ d2' = "done"
       ELSE /\ status[queue[a0]] # d2
            /\ a0' = a0 + 1
            /\ UNCHANGED <<fpc, d2>>
    /\ UNCHANGED <<client, thread, server, vsync, replied, fmsg, queue, d5,
                   owned, status, port, sigs, locks, unit_pipe, back_pipe,
                   waitingrecords, cmds_complete, requested, signalling, rpc>>

\* LockCheck keeps three locks or a few more.
LockCheck(k) == IF k < 3 \/ k > 6 THEN 3 ELSE k

\* Fault: one packet more than the limit is started.
StartBeyond ==
    /\ TasksRun /\ fpc = "packet" /\ d5 <= Limit
    /\ Len(unit_pipe) < PipeCapacity
    /\ locks' = LockCheck(locks) - 2
    /\ owned' = owned + LockCheck(locks) - locks
    /\ status' = [status EXCEPT ![fmsg] = "pending"]
    /\ unit_pipe' = Append(unit_pipe, fmsg)
    /\ d5' = d5 + 1
    /\ fpc' = "enqueue"
    /\ UNCHANGED <<client, thread, server, vsync, replied, fmsg, d2, a0, queue,
                   port, sigs, back_pipe, waitingrecords, cmds_complete,
                   requested, signalling, rpc>>

\* Fault: the started packet is not counted.
StartUncounted ==
    /\ TasksRun /\ fpc = "packet" /\ d5 < Limit
    /\ Len(unit_pipe) < PipeCapacity
    /\ locks' = LockCheck(locks) - 2
    /\ owned' = owned + LockCheck(locks) - locks
    /\ status' = [status EXCEPT ![fmsg] = "pending"]
    /\ unit_pipe' = Append(unit_pipe, fmsg)
    /\ fpc' = "enqueue"
    /\ UNCHANGED <<client, thread, server, vsync, replied, fmsg, d2, a0, queue, d5,
                   port, sigs, back_pipe, waitingrecords, cmds_complete,
                   requested, signalling, rpc>>

\* FSML_DoCommand: filesys_handler hands the packet over with two locks.
Start ==
    /\ TasksRun /\ fpc = "packet" /\ d5 < Limit
    /\ Len(unit_pipe) < PipeCapacity
    /\ locks' = LockCheck(locks) - 2
    /\ owned' = owned + LockCheck(locks) - locks
    /\ status' = [status EXCEPT ![fmsg] = "pending"]
    /\ unit_pipe' = Append(unit_pipe, fmsg)
    /\ d5' = d5 + 1
    /\ fpc' = "enqueue"
    /\ UNCHANGED <<client, thread, server, vsync, replied, fmsg, d2, a0, queue,
                   port, sigs, back_pipe, waitingrecords, cmds_complete,
                   requested, signalling, rpc>>

\* Fault: the postponed packet counts as outstanding.
PostponeCounted ==
    /\ TasksRun /\ fpc = "packet" /\ d5 >= Limit
    /\ status' = [status EXCEPT ![fmsg] = "unstarted"]
    /\ d5' = d5 + 1
    /\ fpc' = "enqueue"
    /\ UNCHANGED <<client, thread, server, vsync, replied, fmsg, d2, a0, queue,
                   owned, port, sigs, locks, unit_pipe, back_pipe,
                   waitingrecords, cmds_complete, requested, signalling, rpc>>

\* FSML_FromDOS: too many packets are outstanding.
Postpone ==
    /\ TasksRun /\ fpc = "packet" /\ d5 >= Limit
    /\ status' = [status EXCEPT ![fmsg] = "unstarted"]
    /\ fpc' = "enqueue"
    /\ UNCHANGED <<client, thread, server, vsync, replied, fmsg, d2, a0, queue,
                   d5, owned, port, sigs, locks, unit_pipe, back_pipe,
                   waitingrecords, cmds_complete, requested, signalling, rpc>>

Enqueue ==
    /\ TasksRun /\ fpc = "enqueue"
    /\ queue' = <<fmsg>> \o queue
    /\ fpc' = "get" /\ fmsg' = Dummy
    /\ UNCHANGED <<client, thread, server, vsync, replied, d2, a0, d5,
                   owned, status, port, sigs, locks, unit_pipe, back_pipe,
                   waitingrecords, cmds_complete, requested, signalling, rpc>>

HandlerStep == GetMsg \/ Wake \/ Complete \/ Drain \/ Drained \/ ScanReply
               \/ ScanNext \/ Start \/ Postpone \/ Enqueue

----------------------------------------------------------------------------
(* The host thread: filesys_iteration *)

\* It takes a packet and the two locks that come with it ...
Take ==
    /\ tpc = "read" /\ unit_pipe # <<>> /\ rpc = "up"
    /\ unit_pipe' = Tail(unit_pipe)
    /\ cur' = Head(unit_pipe)
    /\ locklist' = locklist + 2
    /\ tpc' = "handle"
    /\ UNCHANGED <<client, handler, server, vsync, held, given, cmds_sent,
                   status, port, sigs, locks, back_pipe, waitingrecords,
                   cmds_complete, requested, signalling, rpc>>

\* Fault: the thread ends at the first packet and posts nothing.
TakeDownAtOnce ==
    /\ tpc = "read" /\ unit_pipe # <<>> /\ rpc = "down"
    /\ unit_pipe' = Tail(unit_pipe)
    /\ IF Head(unit_pipe) = Death
       THEN tpc' = "dead" /\ rpc' = "reset"
       ELSE tpc' = "dead" /\ UNCHANGED rpc
    /\ UNCHANGED <<client, handler, server, vsync, cur, locklist, held, given,
                   cmds_sent, status, port, sigs, locks, back_pipe,
                   waitingrecords, cmds_complete, requested, signalling>>

\* ... unless the unit goes down: only the death message counts.
TakeDown ==
    /\ tpc = "read" /\ unit_pipe # <<>> /\ rpc = "down"
    /\ unit_pipe' = Tail(unit_pipe)
    /\ IF Head(unit_pipe) = Death
       THEN tpc' = "dead" /\ rpc' = "reset"
       ELSE UNCHANGED <<tpc, rpc>>
    /\ UNCHANGED <<client, handler, server, vsync, cur, locklist, held, given,
                   cmds_sent, status, port, sigs, locks, back_pipe,
                   waitingrecords, cmds_complete, requested, signalling>>

\* handle_packet does the work, may give a lock to the guest or take one back,
\* and the packet is marked as done.
Handle(n) ==
    /\ tpc = "handle" /\ n \in LockChanges /\ given + n >= 0
    /\ cur \in LockRecord \cup FreeRecord => n = 0
    /\ given' = given + n
    /\ locklist' = locklist - n
    /\ status' = [status EXCEPT ![cur] = "done"]
    /\ tpc' = "count" /\ cur' = Death
    /\ UNCHANGED <<client, handler, server, vsync, held, cmds_sent, port,
                   sigs, locks, unit_pipe, back_pipe, waitingrecords,
                   cmds_complete, requested, signalling, rpc>>

\* action_lock_record: a collision with a timeout; the packet is not marked.
Park ==
    /\ tpc = "handle" /\ cur \in LockRecord
    /\ waitingrecords' = waitingrecords \cup {cur}
    /\ tpc' = "count" /\ cur' = Death
    /\ UNCHANGED <<client, handler, server, vsync, locklist, held, given,
                   cmds_sent, status, port, sigs, locks, unit_pipe, back_pipe,
                   cmds_complete, requested, signalling, rpc>>

\* action_free_record, record_check_waiting: a parked packet is found on the list ...
Find(m) ==
    /\ tpc = "handle" /\ cur \in FreeRecord /\ m \in waitingrecords
    /\ held' = m
    /\ tpc' = "unlink"
    /\ UNCHANGED <<client, handler, server, vsync, cur, locklist, given,
                   cmds_sent, status, port, sigs, locks, unit_pipe, back_pipe,
                   waitingrecords, cmds_complete, requested, signalling, rpc>>

\* ... unlinked, without a look at what the vertical blank does to the list ...
Unlink ==
    /\ tpc = "unlink"
    /\ waitingrecords' = waitingrecords \ {held}
    /\ tpc' = "release"
    /\ UNCHANGED <<client, handler, server, vsync, cur, locklist, held, given,
                   cmds_sent, status, port, sigs, locks, unit_pipe, back_pipe,
                   cmds_complete, requested, signalling, rpc>>

\* ... and marked.
Release ==
    /\ tpc = "release"
    /\ status' = [status EXCEPT ![held] = "done"]
    /\ tpc' = "handle" /\ held' = Death
    /\ UNCHANGED <<client, handler, server, vsync, cur, locklist, given,
                   cmds_sent, port, sigs, locks, unit_pipe, back_pipe,
                   waitingrecords, cmds_complete, requested, signalling, rpc>>

CountSent ==
    /\ tpc = "count"
    /\ cmds_sent' = cmds_sent + 1
    /\ tpc' = "request"
    /\ UNCHANGED <<client, handler, server, vsync, cur, locklist, held, given,
                   status, port, sigs, locks, unit_pipe, back_pipe,
                   waitingrecords, cmds_complete, requested, signalling, rpc>>

RequestInterrupt ==
    /\ tpc = "request"
    /\ requested' = TRUE
    /\ tpc' = "back"
    /\ UNCHANGED <<client, handler, server, vsync, cur, locklist, held, given,
                   cmds_sent, status, port, sigs, locks, unit_pipe, back_pipe,
                   waitingrecords, cmds_complete, signalling, rpc>>

\* Fault: the list of locks is not reset.
SendBackKeep ==
    /\ tpc = "back" /\ (locklist > 0 => Len(back_pipe) < BackCapacity)
    /\ back_pipe' = IF locklist > 0 THEN Append(back_pipe, locklist) ELSE back_pipe
    /\ locklist' = locklist
    /\ tpc' = "read"
    /\ UNCHANGED <<client, handler, server, vsync, cur, held, given, cmds_sent,
                   status, port, sigs, locks, unit_pipe, waitingrecords,
                   cmds_complete, requested, signalling, rpc>>

\* The locks that are left go back; waits while back_pipe is full.
SendBack ==
    /\ tpc = "back" /\ (locklist > 0 => Len(back_pipe) < BackCapacity)
    /\ back_pipe' = IF locklist > 0 THEN Append(back_pipe, locklist) ELSE back_pipe
    /\ locklist' = 0
    /\ tpc' = "read"
    /\ UNCHANGED <<client, handler, server, vsync, cur, held, given, cmds_sent,
                   status, port, sigs, locks, unit_pipe, waitingrecords,
                   cmds_complete, requested, signalling, rpc>>

ThreadStep ==
    \/ Take \/ TakeDown \/ Park \/ Unlink \/ Release \/ CountSent \/ RequestInterrupt
    \/ SendBack \/ (\E n \in LockChanges : Handle(n)) \/ \E m \in Msgs : Find(m)

----------------------------------------------------------------------------
(* The interrupt server: exter_server and exter_int_helper *)

\* Case 0: bit 0 is cleared before anything is looked at.
Interrupt ==
    /\ TasksRun /\ requested
    /\ requested' = FALSE
    /\ ipc' = "serve"
    /\ UNCHANGED <<client, handler, thread, vsync, cmds_acked, status, port,
                   sigs, locks, unit_pipe, back_pipe, waitingrecords,
                   cmds_complete, signalling, rpc>>

\* Case 2: a signal from the native2amiga pipe comes before the units ...
ServeSignal ==
    /\ rpc = "up" /\ ipc \in {"serve", "served"} /\ vpc = "out" /\ signalling
    /\ signalling' = FALSE
    /\ sigs' = sigs \cup {"D"}
    /\ UNCHANGED <<client, handler, thread, server, vsync, status, port, locks,
                   unit_pipe, back_pipe, waitingrecords, cmds_complete,
                   requested, rpc>>

\* Fault: whether the last dummy message was received is not asked.
WantsDummyAgain == cmds_acked # cmds_sent

WantsDummy == cmds_acked = cmds_complete /\ cmds_acked # cmds_sent

\* ... then the unit is asked whether it wants its dummy message ...
FindUnit ==
    /\ rpc = "up" /\ ipc = "serve" /\ vpc = "out" /\ ~signalling /\ WantsDummy
    /\ ipc' = "ack"
    /\ UNCHANGED <<client, handler, thread, vsync, cmds_acked, status, port,
                   sigs, locks, unit_pipe, back_pipe, waitingrecords,
                   cmds_complete, requested, signalling, rpc>>

\* ... and gets it.
SendDummy ==
    /\ ipc = "ack"
    /\ cmds_acked' = cmds_sent
    /\ PutMsg(Dummy)
    /\ ipc' = "served"
    /\ UNCHANGED <<client, handler, thread, vsync, status, locks, unit_pipe,
                   back_pipe, waitingrecords, cmds_complete, requested,
                   signalling, rpc>>

\* Case 4: nothing is left to do.
EndInterrupt ==
    /\ rpc = "up" /\ vpc = "out" /\ ~signalling
    /\ ipc = "served" \/ (ipc = "serve" /\ ~WantsDummy)
    /\ ipc' = "out"
    /\ UNCHANGED <<client, handler, thread, vsync, cmds_acked, status, port,
                   sigs, locks, unit_pipe, back_pipe, waitingrecords,
                   cmds_complete, requested, signalling, rpc>>

ServerStep == Interrupt \/ ServeSignal \/ FindUnit \/ SendDummy \/ EndInterrupt

----------------------------------------------------------------------------
(* The vertical blank: record_timeout of filesys_vsync *)

\* The time of a parked packet is up ...
TimeUp(m) ==
    /\ rpc = "up" /\ ~InTrap /\ m \in waitingrecords
    /\ vpc' = "mark" /\ vrec' = m
    /\ UNCHANGED <<client, handler, thread, server, status, port, sigs, locks,
                   unit_pipe, back_pipe, waitingrecords, cmds_complete,
                   requested, signalling, rpc>>

\* ... it is marked, the handler signalled (uae_Signal) ...
MarkTimeout ==
    /\ vpc = "mark"
    /\ status' = [status EXCEPT ![vrec] = "timeout"]
    /\ signalling' = TRUE /\ requested' = TRUE
    /\ vpc' = "unlink"
    /\ UNCHANGED <<client, handler, thread, server, vrec, port, sigs, locks,
                   unit_pipe, back_pipe, waitingrecords, cmds_complete, rpc>>

\* Fault: the record stays in the list.
DropTimeoutKeep ==
    /\ vpc = "unlink"
    /\ vpc' = "out" /\ vrec' = Death
    /\ UNCHANGED <<client, handler, thread, server, status, port, sigs, locks,
                   unit_pipe, back_pipe, waitingrecords, cmds_complete, requested,
                   signalling, rpc>>

\* ... and the record unlinked, which the host thread may have done meanwhile.
DropTimeout ==
    /\ vpc = "unlink"
    /\ waitingrecords' = waitingrecords \ {vrec}
    /\ vpc' = "out" /\ vrec' = Death
    /\ UNCHANGED <<client, handler, thread, server, status, port, sigs, locks,
                   unit_pipe, back_pipe, cmds_complete, requested, signalling, rpc>>

VSyncStep == MarkTimeout \/ DropTimeout \/ \E m \in Msgs : TimeUp(m)

\* filesys_prepare_reset2: send the death message and wait for the thread.
Reset ==
    /\ Resets /\ rpc = "up" /\ ~InTrap
    /\ Len(unit_pipe) < PipeCapacity
    /\ unit_pipe' = Append(unit_pipe, Death)
    /\ rpc' = "down"
    /\ UNCHANGED <<client, handler, thread, server, vsync, status, port, sigs,
                   locks, back_pipe, waitingrecords, cmds_complete, requested,
                   signalling>>

----------------------------------------------------------------------------
\* Nothing is left to do but to send packets.
Quiet ==
    /\ unsent = {} /\ fpc = "wait" /\ sigs = {} /\ tpc = "read" /\ rpc = "up"
    /\ unit_pipe = <<>> /\ ipc = "out" /\ ~requested /\ vpc = "out"
    /\ UNCHANGED vars

UnitNext ==
    \/ \E m \in Msgs : Send(m)
    \/ HandlerStep \/ ThreadStep \/ ServerStep \/ VSyncStep \/ Reset \/ Quiet

UnitSpec == UnitInit /\ [][UnitNext]_vars

\* The host schedules the thread, the guest its handler and its interrupts; the
\* time of a parked packet runs out.
UnitFairSpec ==
    /\ UnitSpec
    /\ WF_vars(HandlerStep) /\ WF_vars(ThreadStep) /\ WF_vars(ServerStep)
    /\ WF_vars(VSyncStep)

----------------------------------------------------------------------------
(* Properties *)

Marks == {"none", "pending", "unstarted", "done", "timeout"}

TypeOK ==
    /\ unsent \subseteq Msgs /\ replied \subseteq Msgs
    /\ status \in [Msgs -> Marks]
    /\ port \in Seq(Msgs \cup {Dummy}) /\ sigs \subseteq {"port", "D"}
    /\ fpc \in {"get", "wait", "dummy", "drain", "scan", "packet", "enqueue"}
    /\ fmsg \in Msgs \cup {Dummy} /\ d2 \in {"done", "timeout"}
    /\ queue \in Seq(Msgs) /\ a0 \in 1 .. Len(queue) + 1
    /\ d5 \in 0 .. Limit
    /\ locks \in Nat /\ owned \in Nat /\ given \in Nat
    /\ locklist \in 0 .. 3
    /\ unit_pipe \in Seq(Msgs \cup {Death}) /\ back_pipe \in Seq(1 .. 3)
    /\ tpc \in {"read", "handle", "unlink", "release", "count", "request", "back", "dead"}
    /\ cur \in Msgs \cup {Death} /\ held \in Msgs \cup {Death}
    /\ waitingrecords \subseteq Msgs
    /\ cmds_sent \in Nat /\ cmds_acked \in Nat /\ cmds_complete \in Nat
    /\ requested \in BOOLEAN /\ signalling \in BOOLEAN
    /\ ipc \in {"out", "serve", "ack", "served"}
    /\ vpc \in {"out", "mark", "unlink"} /\ vrec \in Msgs \cup {Death}
    /\ rpc \in {"up", "down", "reset"}

\* The unit has one dummy message, which must not be put on a port again while
\* it is on it: it is on its way to the handler exactly while cmds_acked and
\* cmds_complete differ (filesys.cpp:6626).
DummyOnce ==
    LET Out == {i \in 1 .. Len(port) : port[i] = Dummy}
    IN  Cardinality(Out) + (IF fpc = "dummy" THEN 1 ELSE 0)
            = IF cmds_acked = cmds_complete THEN 0 ELSE 1

\* "We were afraid that might blow some pipe limit" (filesys.asm:1422): with the
\* limit on started packets the emulation thread never waits for room in
\* unit_pipe, which a host thread that itself waits might not make.  During a
\* reset, when the handler does not run, the death message may take the last room.
UnitPipeHasRoom ==
    rpc = "up" /\ fpc = "packet" /\ d5 < Limit => Len(unit_pipe) < PipeCapacity

\* d5 is the number of packets that were started and not replied, so the limit is
\* one on packets; a packet that is done is still in the queue.
Outstanding ==
    d5 = Cardinality({m \in Msgs \ replied : status[m] \in {"pending", "done", "timeout"}})

\* The lock structures in a pipe of words, each of which is a list of one to three of them.
LocksIn(p) == {x \in (1 .. Len(p)) \X (1 .. 3) : x[2] <= p[x[1]]}

\* No lock structure is lost or in two places while it goes from the handler to
\* the host thread, to the guest and back (filesys.asm:1592, filesys.cpp:6788).
\* A reset gives all of them up: the thread drops the packets it still reads.
LocksConserved ==
    rpc = "up" =>
        owned = locks + 2 * Len(unit_pipe) + locklist + Cardinality(LocksIn(back_pipe)) + given

\* "This field may be accessed concurrently by several UAE threads.  This
\* _should_ be harmless" (filesys.asm:1520).  A packet that was replied, whose memory
\* is no longer the handler's, is on no list and in nobody's hands: the one thread
\* that may still mark it is the host thread, and only if it had found the packet on the
\* list of those that wait before the vertical blank took it off, and the handler
\* replied the packet as timed out.
RepliedIsLeftAlone ==
    \A m \in replied :
        /\ m \notin waitingrecords
        /\ ~(vpc # "out" /\ vrec = m)
        /\ ~(tpc = "handle" /\ cur = m)
        /\ tpc \in {"unlink", "release"} /\ held = m => status[m] = "timeout"

\* No wake-up is missed between the host thread, the interrupt server and the handler:
\* a packet that DOS sends and the handler starts is replied, unless the machine is reset.
\* (Replied and unstarted packets stay so: "again and again for all that were sent" is
\* "eventually for each of them".)
StartedReplied ==
    []<>(rpc # "up" \/ \A m \in Msgs \ (unsent \cup replied) : status[m] = "unstarted")

\* "We can handle an unlimited number of unstarted commands" (filesys.asm:1539): every
\* packet that DOS sends is replied, unless the machine is reset.
AllReplied == \A m \in Msgs : m \notin unsent ~> m \in replied \/ rpc # "up"

\* A reset waits for the host thread without end only if the thread itself waits
\* for room in back_pipe, which nobody reads any more (filesys.cpp:6946).
StuckAtBackPipe == tpc = "back" /\ locklist > 0 /\ Len(back_pipe) = BackCapacity

ResetReturns == rpc = "down" ~> rpc = "reset" \/ StuckAtBackPipe
=============================================================================
