------------------------------ MODULE Hardfile ------------------------------
(***************************************************************************)
(* One unit of uaehf.device (hardfile.cpp).  The emulation thread runs the *)
(* guest's calls of the device: open, close, BeginIO, AbortIO; and disk    *)
(* changes and the reset.  A thread of the unit takes requests from a pipe *)
(* and carries them out.  The two share a table of requests without a      *)
(* lock: a store of d_request and the stores of type and data that go with *)
(* it are steps of their own.                                              *)
(*                                                                         *)
(* What a command does to the disk is left out.  "io" is any command that  *)
(* is finished when the thread has carried it out.                         *)
(***************************************************************************)
EXTENDS Naturals, Sequences, FiniteSets, Functions

CONSTANTS Requests, None,   \* the guest's IORequests; address 0
          Threads,          \* bound: threads the unit has at one time
          Slots,            \* MAX_ASYNC_REQUESTS
          PipeSize,         \* words the pipe of the unit takes
          ReplyRoom,        \* replies the pipe to the guest takes
          MaxOpens,         \* bound: openers of the device
          MaxStrays         \* bound: strays between two resets of an idle unit

ASSUME HardfileAssumption ==
    /\ None \notin Requests /\ IsFiniteSet(Requests) /\ IsFiniteSet(Threads)
    /\ Slots \in Nat \ {0} /\ PipeSize \in Nat \ {0}
    /\ ReplyRoom \in Nat \ {0} /\ MaxOpens \in Nat \ {0}
    /\ MaxStrays \in Nat

VARIABLES
    d_request, d_type, d_data,      \* the table of requests
    requests,                       \* the pipe, 0 (None) tells the thread to end
    thread_running, sync_sem, change_sem,
    opens,                          \* word at base + 32
    emu,                            \* emulation thread: label, operation, request, slot
    at, hold,                       \* the unit's threads: label; request in hand, its slot
    owner, replies,                 \* guest: whose a request is, replies on their way
    command,                        \* io_Command of each request
    caused,                         \* interrupts caused by the last disk change
    strayed                         \* history: what the unit is not made for and met (Strays)

table == <<d_request, d_type, d_data>>
sems  == <<sync_sem, change_sem>>
port  == <<owner, replies>>
vars  == <<table, requests, thread_running, sems, opens, emu, at, hold, port, command, caused, strayed>>

\* What the code lets happen and is not made for: the device is opened again before its
\* thread has ended; a change interrupt is removed that is not added yet, or aborted; the
\* machine is reset while a thread is busy.
Strays == {"reopen", "remove queued", "abort change", "reset busy"}

Slot == 1 .. Slots
Cleared(s) == [i \in Slot |-> s]
Empty == [req |-> None, slot |-> 0]
Guest == [at |-> "guest", op |-> "none", req |-> None, slot |-> 0]

HardfileInit ==
    /\ d_request = Cleared(None) /\ d_type = Cleared("none") /\ d_data = Cleared(None)
    /\ requests = <<>> /\ thread_running = FALSE
    /\ sync_sem = 0 /\ change_sem = 1
    /\ opens = 0 /\ emu = Guest
    /\ at = [t \in Threads |-> "off"] /\ hold = [t \in Threads |-> Empty]
    /\ owner = [r \in Requests |-> "guest"] /\ replies = [r \in Requests |-> 0]
    /\ command = [r \in Requests |-> "io"] /\ caused = {}
    /\ strayed = <<>>

-----------------------------------------------------------------------------
(* The table.  A search is one step. *)

Holding(r) == {i \in Slot : d_request[i] = r}
Lowest(S) == CHOOSE i \in S : \A j \in S : i <= j

\* add_async_request: the request's own slot, else the first free one, else none (0).
SlotFor(r) == IF Holding(r) # {} THEN Lowest(Holding(r))
              ELSE IF Holding(None) # {} THEN Lowest(Holding(None)) ELSE 0

\* The store of d_request, and the two that follow it.
Put(i, r) == d_request' = IF i = 0 THEN d_request ELSE [d_request EXCEPT ![i] = r]
Mark(i, type, data) ==
    /\ d_type' = IF i = 0 THEN d_type ELSE [d_type EXCEPT ![i] = type]
    /\ d_data' = IF i = 0 THEN d_data ELSE [d_data EXCEPT ![i] = data]
    /\ UNCHANGED d_request

\* A request that abort_async waits for: "ASYNC_REQUEST_TEMP = request is processing".
Processing(r) == \E i \in Holding(r) : d_type[i] = "temp"

HasRoom == FoldFunction(+, 0, replies) < ReplyRoom
ReplyMsg(r) == HasRoom /\ replies' = [replies EXCEPT ![r] = @ + 1] /\ UNCHANGED owner

-----------------------------------------------------------------------------
(* The emulation thread. *)

Stray(event) == Len(strayed) < MaxStrays /\ strayed' = Append(strayed, event)
Go(label) == emu' = [emu EXCEPT !.at = label]
Return == emu' = Guest
others == <<hold, port, command, caused, strayed>>

\* The threads are alike: the first that is not in use stands for the new one.
Unused(t) == at[t] = "off" /\ t = CHOOSE u \in Threads : at[u] = "off"

\* start_thread, up to its wait for the new thread.
Call(op, r) ==
    /\ emu.at = "guest"
    /\ \/ /\ thread_running
          /\ emu' = [at |-> op, op |-> op, req |-> r, slot |-> 0]
          /\ UNCHANGED <<table, requests, thread_running, sync_sem, at>>
       \/ \E t \in Threads :
             /\ ~thread_running /\ Unused(t)
             /\ d_request' = Cleared(None) /\ d_type' = Cleared("none") /\ d_data' = Cleared(None)
             /\ requests' = <<>> /\ sync_sem' = 0 /\ thread_running' = FALSE
             /\ at' = [at EXCEPT ![t] = "born"]
             /\ emu' = [at |-> "start", op |-> op, req |-> r, slot |-> 0]

\* start_thread after the wait.
Started ==
    /\ emu.at = "start" /\ sync_sem > 0 /\ thread_running
    /\ sync_sem' = sync_sem - 1 /\ Go(emu.op)
    /\ UNCHANGED <<table, requests, thread_running, change_sem, opens, at, others>>

\* The thread does not run yet, another one has posted the semaphore: the call fails.  A
\* request that was begun with IOF_QUICK is finished, any other is never answered.
StartFailed ==
    /\ emu.at = "start" /\ sync_sem > 0 /\ ~thread_running
    /\ sync_sem' = sync_sem - 1 /\ Return
    /\ \/ UNCHANGED owner
       \/ emu.op \in {"begin", "remove"} /\ owner' = [owner EXCEPT ![emu.req] = "guest"]
    /\ UNCHANGED <<table, requests, thread_running, change_sem, opens, at, hold, replies,
                   command, caused, strayed>>

hardfile_open ==
    /\ emu.at = "open"
    /\ opens' = opens + 1 /\ Return
    /\ UNCHANGED <<table, requests, thread_running, sems, at, others>>

hardfile_close ==
    /\ emu.at = "guest" /\ opens > 0
    /\ opens = 1 => \A r \in Requests : owner[r] = "guest"
    /\ opens' = opens - 1
    /\ IF opens = 1 THEN Len(requests) < PipeSize /\ requests' = Append(requests, None)
                    ELSE UNCHANGED requests
    /\ UNCHANGED <<table, thread_running, sems, emu, at, others>>

\* hardfile_beginio of a request for the thread.
BeginIO ==
    /\ emu.at = "begin"
    /\ Put(SlotFor(emu.req), emu.req)
    /\ emu' = [emu EXCEPT !.at = "send", !.slot = SlotFor(emu.req)]
    /\ UNCHANGED <<d_type, d_data, requests, thread_running, sems, opens, at, others>>

SendRequest ==
    /\ emu.at = "send" /\ Len(requests) < PipeSize
    /\ Mark(emu.slot, "temp", None)
    /\ requests' = Append(requests, emu.req) /\ Return
    /\ UNCHANGED <<thread_running, sems, opens, at, others>>

\* release_async_request, first half: of CMD_REMCHANGEINT and of abort_async, which
\* waits while the request is in the hands of the thread.
ReleaseSlot(r) ==
    /\ LET i == IF Holding(r) = {} THEN 0 ELSE Lowest(Holding(r))
       IN  Put(i, None) /\ emu' = [emu EXCEPT !.at = "wipe", !.slot = i]
    /\ UNCHANGED <<d_type, d_data, requests, thread_running, sems, opens, at, others>>

RemoveChangeInt == emu.at = "remove" /\ ReleaseSlot(emu.req)

abort_async == emu.at = "abort" /\ ~Processing(emu.req) /\ ReleaseSlot(emu.req)

\* Mutant: AbortIO sends the reply itself.
WipeAndReply ==
    /\ emu.at = "wipe" /\ Mark(emu.slot, "none", None)
    /\ CASE emu.op = "abort"  -> Return
         [] emu.op = "remove" -> Go("answer")
         [] emu.op = "reset"  -> emu' = [emu EXCEPT !.at = "reset", !.slot = @ + 1]
    /\ IF emu.op = "abort" THEN ReplyMsg(emu.req) ELSE UNCHANGED port
    /\ UNCHANGED <<requests, thread_running, sems, opens, at, hold, command, caused, strayed>>

WipeSlot ==
    /\ emu.at = "wipe" /\ Mark(emu.slot, "none", None)
    /\ CASE emu.op = "abort"  -> Return
         [] emu.op = "remove" -> Go("answer")
         [] emu.op = "reset"  -> emu' = [emu EXCEPT !.at = "reset", !.slot = @ + 1]
    /\ UNCHANGED <<requests, thread_running, sems, opens, at, others>>

\* hardfile_beginio of CMD_REMCHANGEINT ends: with IOF_QUICK there is no message.
Answer ==
    /\ emu.at = "answer" /\ Return
    /\ \/ ReplyMsg(emu.req)
       \/ owner' = [owner EXCEPT ![emu.req] = "guest"] /\ UNCHANGED replies
    /\ UNCHANGED <<table, requests, thread_running, sems, opens, at, hold, command, caused, strayed>>

\* Mutants: the disk change does not wait for the thread, or keeps it waiting.
ChangeUnlocked ==
    /\ emu.at = "change" /\ Go("caused")
    /\ caused' = {d_data[i] : i \in {j \in Slot : d_type[j] = "changeint"}}
    /\ UNCHANGED <<table, requests, thread_running, sems, opens, at, hold, port, command, strayed>>

ChangeUnposted ==
    /\ emu.at = "change" /\ change_sem > 0 /\ change_sem' = change_sem - 1 /\ Go("caused")
    /\ caused' = {d_data[i] : i \in {j \in Slot : d_type[j] = "changeint"}}
    /\ UNCHANGED <<table, requests, thread_running, sync_sem, opens, at, hold, port, command, strayed>>

hardfile_send_disk_change ==
    /\ emu.at = "change" /\ change_sem > 0 /\ Go("caused")
    /\ caused' = {d_data[i] : i \in {j \in Slot : d_type[j] = "changeint"}}
    /\ UNCHANGED <<table, requests, thread_running, sems, opens, at, hold, port, command, strayed>>

\* It returns; what was caused is not looked at any more.
ChangeDone ==
    /\ emu.at = "caused" /\ Return /\ caused' = {}
    /\ UNCHANGED <<table, requests, thread_running, sems, opens, at, hold, port, command, strayed>>

\* hardfile_reset: abort what is listed, slot by slot, then forget everything whatever the
\* thread does.  A thread that sleeps in the pipe is never woken again, any other goes on
\* with what it has in hand and then reads the pipe, that of the next thread too.
AbortListed ==
    /\ emu.at = "reset" /\ opens > 0 /\ emu.slot <= Slots
    /\ LET r == d_request[emu.slot]
       IN  \/ r # None /\ ~Processing(r) /\ ReleaseSlot(r)
           \/ /\ r = None /\ emu' = [emu EXCEPT !.slot = @ + 1]
              /\ UNCHANGED <<table, requests, thread_running, sems, opens, at, others>>

Asleep(t) == at[t] = "off" \/ (at[t] = "read" /\ requests = <<>>)

hardfile_reset ==
    /\ emu.at = "reset" /\ (opens = 0 \/ emu.slot > Slots)
    /\ IF \A t \in Threads : Asleep(t) THEN strayed' = <<>> ELSE Stray("reset busy")
    /\ d_request' = Cleared(None) /\ d_type' = Cleared("none") /\ d_data' = Cleared(None)
    /\ requests' = <<>> /\ sync_sem' = 0 /\ thread_running' = FALSE
    /\ at' = [t \in Threads |-> IF Asleep(t) THEN "off" ELSE at[t]]
    /\ opens' = 0 /\ Return
    /\ owner' = [r \in Requests |-> "guest"] /\ replies' = [r \in Requests |-> 0]
    /\ UNCHANGED <<change_sem, hold, command, caused>>

EmuStep ==
    \/ Started \/ StartFailed \/ hardfile_open \/ BeginIO \/ SendRequest \/ RemoveChangeInt \/ abort_async
    \/ WipeSlot \/ Answer \/ hardfile_send_disk_change \/ ChangeDone
    \/ AbortListed \/ hardfile_reset

-----------------------------------------------------------------------------
(* The thread of the unit, hardfile_thread. *)

Jump(t, label) == at' = [at EXCEPT ![t] = label]
emulation == <<opens, emu, port, command, caused, strayed>>

Born(t) ==
    /\ at[t] = "born" /\ Jump(t, "read")
    /\ thread_running' = TRUE /\ sync_sem' = sync_sem + 1
    /\ UNCHANGED <<table, requests, change_sem, hold, emulation>>

ReadRequest(t) ==
    /\ at[t] = "read" /\ requests # <<>> /\ Jump(t, "got")
    /\ hold' = [hold EXCEPT ![t].req = Head(requests)] /\ requests' = Tail(requests)
    /\ UNCHANGED <<table, thread_running, sems, emulation>>

Stop(t) ==
    /\ at[t] = "got" /\ hold[t].req = None /\ change_sem > 0 /\ Jump(t, "bye")
    /\ change_sem' = change_sem - 1 /\ thread_running' = FALSE
    /\ UNCHANGED <<table, requests, sync_sem, hold, emulation>>

Bye(t) ==
    /\ at[t] = "bye" /\ Jump(t, "off")
    /\ sync_sem' = sync_sem + 1 /\ change_sem' = change_sem + 1
    /\ UNCHANGED <<table, requests, thread_running, hold, emulation>>

\* The command is carried out and the first store to the table made: adding a change
\* interrupt takes a slot, and fails without one; every other request is released.
hardfile_do_io(t) ==
    /\ at[t] = "got" /\ hold[t].req # None /\ change_sem > 0
    /\ change_sem' = change_sem - 1
    /\ LET r   == hold[t].req
           add == command[r] = "add" /\ SlotFor(r) # 0
           i   == IF add THEN SlotFor(r)
                  ELSE IF Holding(r) = {} THEN 0 ELSE Lowest(Holding(r))
       IN  /\ Put(i, IF add THEN r ELSE None) /\ hold' = [hold EXCEPT ![t].slot = i]
           /\ Jump(t, IF add THEN "add" ELSE "wipe")
    /\ UNCHANGED <<d_type, d_data, requests, thread_running, sync_sem, emulation>>

\* Mutants: of a request that has a slot the type is not stored, or only the type.
AddKeepsType(t) ==
    /\ at[t] = "add" /\ Jump(t, "data")
    /\ d_type' = IF d_type[hold[t].slot] = "temp" THEN d_type
                 ELSE [d_type EXCEPT ![hold[t].slot] = "changeint"]
    /\ UNCHANGED <<d_request, d_data, requests, thread_running, sems, hold, emulation>>

AddTypeOnly(t) ==
    /\ at[t] = "data" /\ Jump(t, "post")
    /\ hold' = [hold EXCEPT ![t] = Empty]
    /\ UNCHANGED <<table, requests, thread_running, sems, emulation>>

\* add_async_request stores the type, then the data.  A change interrupt stays listed
\* and is not replied to.
AddType(t) ==
    /\ at[t] = "add" /\ Jump(t, "data")
    /\ d_type' = [d_type EXCEPT ![hold[t].slot] = "changeint"]
    /\ UNCHANGED <<d_request, d_data, requests, thread_running, sems, hold, emulation>>

AddData(t) ==
    /\ at[t] = "data" /\ Jump(t, "post")
    /\ d_data' = [d_data EXCEPT ![hold[t].slot] = hold[t].req]
    /\ hold' = [hold EXCEPT ![t] = Empty]
    /\ UNCHANGED <<d_request, d_type, requests, thread_running, sems, emulation>>

\* Mutant: a request that is not listed any more counts as aborted, no reply is sent.
ReleaseListed(t) ==
    /\ at[t] = "wipe" /\ Jump(t, IF hold[t].slot = 0 THEN "post" ELSE "reply")
    /\ Mark(hold[t].slot, "none", None)
    /\ hold' = IF hold[t].slot = 0 THEN [hold EXCEPT ![t] = Empty] ELSE hold
    /\ UNCHANGED <<requests, thread_running, sems, emulation>>

ReleaseDone(t) ==
    /\ at[t] = "wipe" /\ Jump(t, "reply")
    /\ Mark(hold[t].slot, "none", None)
    /\ UNCHANGED <<requests, thread_running, sems, hold, emulation>>

ReplyDone(t) ==
    /\ at[t] = "reply" /\ Jump(t, "post")
    /\ ReplyMsg(hold[t].req) /\ hold' = [hold EXCEPT ![t] = Empty]
    /\ UNCHANGED <<table, requests, thread_running, sems, opens, emu, command, caused, strayed>>

PostChange(t) ==
    /\ at[t] = "post" /\ Jump(t, "read") /\ change_sem' = change_sem + 1
    /\ UNCHANGED <<table, requests, thread_running, sync_sem, hold, emulation>>

ThreadStep(t) ==
    \/ Born(t) \/ ReadRequest(t) \/ Stop(t) \/ Bye(t) \/ hardfile_do_io(t)
    \/ AddType(t) \/ AddData(t) \/ ReleaseDone(t) \/ ReplyDone(t) \/ PostChange(t)

-----------------------------------------------------------------------------
(* The guest, and what is in its way. *)

InHand(r) == \E t \in Threads : hold[t].req = r
Queued(r) == r \in Range(requests) \/ InHand(r)

\* Change interrupts that are added and that no disk change may forget.
Registered == {r \in Requests : /\ owner[r] = "device" /\ command[r] = "add"
                                /\ replies[r] = 0 /\ emu.req # r /\ ~Queued(r)}

\* The last opener has closed the device and its thread has not ended yet.
Leaving == None \in Range(requests)
           \/ \E t \in Threads : at[t] = "bye" \/ (at[t] = "got" /\ hold[t].req = None)

still == <<opens, change_sem, hold, replies, caused>>

OpenDevice ==
    /\ opens < MaxOpens /\ Call("open", None)
    /\ IF Leaving THEN Stray("reopen") ELSE UNCHANGED strayed
    /\ UNCHANGED <<still, owner, command>>

Begin(r, c) ==
    /\ opens > 0 /\ owner[r] = "guest" /\ Call("begin", r)
    /\ owner' = [owner EXCEPT ![r] = "device"] /\ command' = [command EXCEPT ![r] = c]
    /\ UNCHANGED <<still, strayed>>

\* CMD_REMCHANGEINT is sent with the request that adds the interrupt.
Remove(r) ==
    /\ \/ r \in Registered /\ UNCHANGED strayed
       \/ /\ Queued(r) /\ owner[r] = "device" /\ command[r] = "add"
          /\ Stray("remove queued")
    /\ Call("remove", r) /\ command' = [command EXCEPT ![r] = "remove"]
    /\ UNCHANGED <<still, owner>>

AbortIO(r) ==
    /\ owner[r] = "device" /\ replies[r] = 0
    /\ IF command[r] = "io" THEN UNCHANGED strayed ELSE Stray("abort change")
    /\ Call("abort", r) /\ UNCHANGED <<still, owner, command>>

Receive(r) ==
    /\ emu.at = "guest" /\ replies[r] > 0
    /\ replies' = [replies EXCEPT ![r] = @ - 1] /\ owner' = [owner EXCEPT ![r] = "guest"]
    /\ UNCHANGED <<table, requests, thread_running, sems, opens, emu, at, hold, command, caused, strayed>>

\* A disk is inserted or ejected; the machine is reset.
HostEvent(op) ==
    /\ emu.at = "guest"
    /\ emu' = [at |-> op, op |-> op, req |-> None, slot |-> IF op = "reset" THEN 1 ELSE 0]
    /\ UNCHANGED <<table, requests, thread_running, sync_sem, at, still, owner, command, strayed>>

HardfileNext ==
    \/ OpenDevice \/ hardfile_close \/ EmuStep
    \/ \E r \in Requests : Remove(r) \/ AbortIO(r) \/ Receive(r)
    \/ \E r \in Requests, c \in {"io", "add"} : Begin(r, c)
    \/ \E op \in {"change", "reset"} : HostEvent(op)
    \/ \E t \in Threads : ThreadStep(t)

HardfileSpec == HardfileInit /\ [][HardfileNext]_vars

\* The host runs both threads.  The interrupt that announces a reply stays pending, so
\* a guest that makes call after call is interrupted between two of them.
HardfileFairSpec ==
    /\ HardfileSpec
    /\ WF_vars(EmuStep)
    /\ \A t \in Threads : WF_vars(ThreadStep(t))
    /\ \A r \in Requests : SF_vars(Receive(r))

-----------------------------------------------------------------------------
(* Properties. *)

\* Every variable keeps its type; change_sem stays binary.
TypeOK ==
    /\ d_request \in [Slot -> Requests \cup {None}]
    /\ d_type \in [Slot -> {"none", "temp", "changeint"}]
    /\ d_data \in [Slot -> Requests \cup {None}]
    /\ requests \in Seq(Requests \cup {None}) /\ Len(requests) <= PipeSize
    /\ thread_running \in BOOLEAN /\ sync_sem \in Nat /\ change_sem \in {0, 1}
    /\ opens \in 0 .. MaxOpens
    /\ emu \in [at : {"guest", "start", "open", "begin", "send", "remove", "abort", "wipe",
                      "answer", "change", "caused", "reset"},
                op : {"none", "open", "begin", "remove", "abort", "change", "reset"},
                req : Requests \cup {None}, slot : 0 .. Slots + 1]
    /\ at \in [Threads -> {"off", "born", "read", "got", "bye", "add", "data", "wipe", "reply", "post"}]
    /\ hold \in [Threads -> [req : Requests \cup {None}, slot : 0 .. Slots]]
    /\ owner \in [Requests -> {"guest", "device"}] /\ replies \in [Requests -> Nat]
    /\ command \in [Requests -> {"io", "add", "remove"}]
    /\ caused \subseteq Requests \cup {None} /\ strayed \in Seq(Strays)

Happened(event) == event \in Range(strayed)

\* Exec's rules are kept: a guest that opens the device again or aborts what it likes keeps them.
Polite == ~Happened("remove queued") /\ ~Happened("reset busy")

\* A thread that will read the pipe again.
Alive == {"read", "got", "add", "data", "wipe", "reply", "post"}
Running == \E t \in Threads : at[t] \in Alive

\* A request is marked as being processed ("ASYNC_REQUEST_TEMP = request is processing")
\* only while it is in the pipe or a thread has it, and a thread runs.  Only the device that
\* is opened again may be left without one; thread_running is off then and the next call
\* clears the table.
TempIsProcessed ==
    \A i \in Slot :
        d_type[i] = "temp" /\ d_request[i] # None /\ ~(emu.at = "send" /\ emu.slot = i) =>
        /\ Polite => Queued(d_request[i])
        /\ Running \/ (~thread_running /\ Happened("reopen"))

\* While a change interrupt is registered the table lists it whole, whatever requests come
\* and go in the slots around it, are removed early or are in the thread's hands at a reset.
ChangeIntListed ==
    emu.op # "reset" /\ ~Happened("reopen") /\ ~Happened("abort change") =>
    \A r \in Registered : \E i \in Slot :
        d_request[i] = r /\ d_type[i] = "changeint" /\ d_data[i] = r

\* A disk change causes the interrupts that are registered, no removed one, and none
\* that is half added (change_sem keeps the thread out).
CausedRegistered ==
    [][hardfile_send_disk_change => strayed # <<>> \/ caused' = Registered]_vars

\* The device keeps exec's contract: it sends no more replies than BeginIO was called, and
\* while exec's rules are kept it sends one to each request, also when it is aborted, or
\* the device is closed, opened again or reset.
Owed(r) == Cardinality({i \in DOMAIN requests : requests[i] = r})
           + Cardinality({t \in Threads : hold[t].req = r})
           + (IF emu.op \in {"begin", "remove"} /\ emu.req = r THEN 1 ELSE 0)
Device == INSTANCE IORequest WITH Request <- Requests, polite <- Polite,
                                  owed <- [r \in Requests |-> Owed(r)]
KeepsContract == Device!IOSpec

\* Every call of the device, every disk change and every reset comes to its end, although
\* they wait for the thread in four places; with one exception: an AbortIO or a reset that
\* waits for the mark of a request behind the 0 that has ended the last thread.
Abandoned ==
    /\ ~Running /\ \/ emu.at = "abort" /\ Processing(emu.req)
                   \/ emu.at = "reset" /\ emu.slot \in Slot /\ d_type[emu.slot] = "temp"
EmuReturns == []<>(emu.at = "guest" \/ Abandoned)

\* A request that was begun is answered, also when it is aborted or removed too early; a
\* change interrupt is at last registered.  What is lost is lost to a thread that ends
\* behind the guest's back, or to a second thread that takes change_sem again and again.
AllAnswered ==
    \A r \in Requests :
        owner[r] = "device" ~> \/ owner[r] = "guest" \/ r \in Registered
                               \/ Happened("reopen") \/ Happened("reset busy")
=============================================================================
