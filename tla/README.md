# Janus-UAE in TLA+

Janus-UAE runs an emulated Amiga (the *guest*) inside a host program.  One host
thread, the *emulation thread*, executes 68k code and everything that guest code
calls directly (traps, interrupt servers, the vertical blank).  Other host
threads work for single devices: one per mounted directory, per hard file, per
serial port, per network card.  These specifications are about how those threads
talk to each other and to guest tasks, which is where the program has state that
no single thread owns.

## 1. Inventory

| component | state | operations | modules |
|---|---|---|---|
| comm pipe (`include/commpipe.h`) | ring, two indices, two "wake me" flags, lock, two semaphores | `init_comm_pipe`, `write_comm_pipe_pt`, `maybe_wake_reader`, `read_comm_pipe_pt_blocking` | `CommPipe`, `BoundedFifo` |
| native2amiga (`native2amiga.cpp`, case 0/2/4 of `exter_int_helper`, `exter_server`) | a pipe of call words, `n2asem`, `uae_int_requested`, the decoder's registers | `uae_Signal`, `uae_PutMsg`, `uae_ReplyMsg`, `uae_Cause`, `uae_NotificationHack`, the EXTER server, `rethink_a2065` | `Native2Amiga` |
| filesys unit (`filesys.cpp`, `filesys.asm`) | packets at the handler's port, its queue, counters `cmds_sent`/`cmds_acked`/`cmds_complete`, lock structures, `unit_pipe`, `back_pipe`, `waitingrecords` | `FSML_loop`, `filesys_handler`, `filesys_iteration`, unit part of `exter_int_helper`, `record_timeout`, `record_check_waiting`, `filesys_prepare_reset2` | `FilesysUnit` |
| filesys tree (`filesys.cpp`) | `a_inode`s with their children, counters and uniq numbers, the chain of recyclable ones, keys, the guest's locks and FileInfoBlocks, the host's directory | lock, free, dup, parent, change mode, open, close, hand-over, create, delete, rename, examine, ExNext; `recycle_aino`, `flush_cache` under all of them | `FilesysTree` |
| traps (`traps.cpp`) | `trap_mutex`, `current_context`, the registers, two semaphores and saved registers per context | `trap_HandleExtendedTrap`, `trap_thread`, `trap_Call68k`, `m68k_call_handler`, `m68k_return_handler`, `exit_trap_handler` | `Traps` |
| uaehf.device (`hardfile.cpp`) | table of requests (`d_request`, type, data), a pipe, `thread_running`, two semaphores, the open count | open, close, `hardfile_beginio`, `hardfile_abortio`, `CMD_REMCHANGEINT`, `hardfile_thread`, `hardfile_send_disk_change`, `hardfile_reset` | `Hardfile`, `IORequest` |
| keyboard (`keybuf.cpp`, `cia.cpp`, reset keys of `inputdevice.cpp`) | ring of codes, serial port of CIA-A, retransmission counter, phase and timer of a reset warning | `record_key`, `get_next_key`, `check_keyboard`, `CIA_vsync_prehandler`, `resetwarning_do`, `resetwarning_check`, `CIA_reset`, the guest's accesses | `Keyboard` |
| event scheduler (`events.cpp`) | four timers, a table of one-shot events, `nextevent`, `currcycle` | `do_cycles_slow`, `events_schedule`, `MISC_handler`, `event2_newevent_xx`, `event2_newevent`, `event2_remevent`, `set_hpos` | `Events`, `Calendar` |
| uaeserial.device (`uaeserial.cpp`) | list of waiting requests, a pipe, a thread | `dev_beginio`, `dev_abortio`, `dev_thread`, `uaeser_signal`, `dev_reset` | not modelled |

The remaining parts (CPU, custom chips, input mapping, disk and CD images, SCSI,
expansions, configuration, save states, archives, the AROS port, vendored
emulators) are listed in `PROJECT.json` with the reason why each is left out.

How they interact:

    guest task -- DOS packet --> handler task --unit_pipe--> host thread of the unit
        ^                            |  ^                        |        |
        |  reply            takes locks  |                 back_pipe   uae_int_requested |= 1
        +----------------------------+   |                       |        |
                                         +---- dummy message ----+-- EXTER interrupt server
    any host thread -- n2asem, native2amiga pipe, uae_int_requested --^

    guest task -- BeginIO/AbortIO trap --> request table, pipe --> thread of the hard file
        ^                                                              |
        +---------- ReplyMsg by way of native2amiga --------------------+

    host's input --> ring of keys --> serial port of CIA-A <--> guest's keyboard interrupt
    CPU -- cycles --> do_cycles_slow --> timers (CIA, audio, line) and one-shot events

What is hard here: a writer of a pipe stores without the lock when it believes
the reader asleep; `uae_int_requested` is a plain variable that several threads
read, change and write; a message is several words; the emulation thread is the
only reader of some pipes and a writer of others, so it must never wait for
itself; a wake-up is one shared dummy message; packets time out on the emulation
thread while the host thread releases them; a reset waits for threads that may
be waiting for the emulation thread; the emulated CPU's registers are handed from
thread to thread; a table of requests is written by two threads; a code is sent
again while its answer is on the way; handlers enter events in the tables that are
being walked; an `a_inode` is kept alive by counters that a dozen packets change.
`PROJECT.json` lists these places ("hazards") with their lines and the properties
that watch them.  Some smaller ones it does not list: an unflushed word of which the
reader is not told (`commpipe.h:61`), the order in which the interrupt server looks at units
(`filesys.cpp:6617`), a reset in the middle of a message (`native2amiga.cpp:37`), a record
timeout of less than one frame (`filesys.cpp:4127`), a directory the host refuses to
make (`filesys.cpp:5701`), keys dropped by a full ring (`keybuf.cpp:64`), a reset key that
is recorded too (`inputdevice.cpp:2883`) and a thread that is not waited for
(`traps.cpp:446`).

What makes each component correct:

* comm pipe: it is a FIFO queue; nobody sleeps for ever; a flushed word arrives.
* native2amiga: the calls made on the Amiga side are the messages sent, and each
  one is made; the emulation thread always comes back.
* filesys unit: every packet is replied once and then left alone; the dummy
  message is in one place; the limit on started packets keeps the pipe from
  filling; no lock structure is lost; a reset finds a thread that stops.
* filesys tree: the counters of an `a_inode` are the locks and keys on it; the chain
  holds exactly the ones that may go; the tree names objects of the host; a scan
  gives every entry that stays, once; nothing freed is used.
* traps: one thread at a time has the registers of the emulated CPU; a trap serves
  the task that entered it, leaves its registers alone but for the result, and
  returns, whatever tasks and traps do in between.
* uaehf.device: each request gets one answer, aborted or not; a change interrupt is
  caused from when it is added until it is removed; no call waits for ever.
* keyboard: each key reaches the guest once and in order; a guest at rest is warned twice
  before the reset, which always comes.
* event scheduler: an event runs after exactly the cycles asked for, once.

## 2. Modules

`CommPipe`: one step per access to shared memory or semaphore operation, in the
order of the source, for any number of writers and one reader.  `wpc` and `rpc`
are the places in `write_comm_pipe_pt` and `read_comm_pipe_pt_blocking`; the
words are tickets numbered in the order of the calls.  `OneAtATime` is what
callers do to exclude each other (`n2asem`, or a single writer).
`BoundedFifo` is what a pipe promises; `PipeFifo` says that `CommPipe` implements
it, a word entering when `wrp` moves and leaving when `rdp` moves.

`Native2Amiga` uses the pipe as that queue (`INSTANCE BoundedFifo`), so that
senders and the decoder are seen word by word without the ring.  Each `|=` and
`&=` on `uae_int_requested` is a load and a store.  `OtherBits` says how other
devices change their bits: `"plain"` is the code, `"atomic"` what it would be
with atomic operations, `"never"` a configuration without such a card.
`EmuSends` adds device code that sends on the emulation thread.

`FilesysUnit` is one mounted directory: the handler task (`HandlerStep`), the
host thread (`ThreadStep`), the interrupt server (`ServerStep`), the vertical
blank (`VSyncStep`), a reset.  Guest tasks and the interrupt server run on the
emulation thread and interleave as interrupts do: no step of a task happens
while a trap or the server is active (`TasksRun`, `InTrap`); only the host
thread is really concurrent.  Packets are identities; what a packet does to the
host's files is not modelled, except that it may change the number of locks the
guest holds by one (`LockChanges`), may wait for a record lock (`Park`) and may
release others that wait (`Find`, `Unlink`, `Release`).  The packets that wait for a record
lock are on a list that the vertical blank and the host thread use at the same time,
without a lock: finding a packet, taking it off and marking it are steps of
their own in both.  `LockRecord` names the packet that may wait (one at most), `FreeRecord` those
that give a record up, `OldLocks` the lock structures there are at the start.

`FilesysTree` is what packets do to the objects of such a directory.  The host
thread runs one packet after the other, so a packet is one step, and what makes it
hard is sequences of packets.  An address of an `a_inode` and its uniq are kept apart:
a lock holds the uniq, a key the address, and rename gives a new `a_inode` the uniq of
the old one; a freed address leaves the domain of `unit.ino`, and a handler that
uses one after that goes `Wild`.  `flush_cache`, `recycle_aino` and the lookups,
which reorder children and create `a_inode`s, are operators that every packet goes
through, also one that is refused.  `host` is the directory the names stand for;
host calls named in `HostMayFail` may fail.  `Habits` are things guests can do that
the code does not survive (section 6); the passing run has none of them.

`Traps` is the hand-over of the emulated CPU between the emulation thread (`EmuStep`)
and the threads of trap functions (`ThreadStep`), one step per semaphore operation.
The guest has tasks with registers and stacks that are switched when interrupts
are allowed (`Switch`); an interrupt server counts as a task, since all that
matters is that it may enter traps of its own.  `regs.pc` tells ordinary code from
the three trap addresses of `init_extended_traps`; `d0` carries results; `a` stands
for all other registers.  Calls are numbered and a call's result is its number, so
that an answer that reaches the wrong thread is visible.  `entered` is what the
specification remembers: the traps a task is in, with its registers at entry.
`Joins` says whether `uae_wait_thread` waits; `FALSE` is this port.

`Hardfile` is one unit of uaehf.device: the emulation thread (`EmuStep`, and the guest's
calls that start it) and the unit's threads (`ThreadStep`).  A search of the table is one
step; the store of `d_request` and the stores of type and data are separate, because
the other thread searches and stores without a lock.  A command is `"io"` (done when
the thread has carried it out), `"add"` (a change interrupt, not answered until it is
removed) or `"remove"`.  `IORequest` is exec's contract, one answer to each request
begun, and `KeepsContract` the refinement.  Replies take the way of native2amiga,
whose pipe has room for `ReplyRoom` of them.  The actions have the code's guards and no
others.  `Strays` are the four things the code lets happen and is not made for: the device is
opened while its last thread ends (`"reopen"`), a change interrupt is removed while it
waits to be added (`"remove queued"`) or is aborted (`"abort change"`), the machine is reset
while a thread works (`"reset busy"`).  `strayed` remembers them; each property says
what holds after which of them.

`Keyboard` is the ring, the keyboard's side of the serial port and the guest's
interrupt that answers with a pulse.  Keys are numbered, codes that are no keys are
below 1.  `OwnThread` says that keys are recorded by a thread of their own, as on hosts
whose console has one (`consolehook.cpp:73`): the two stores to `kpb_last` are then seen one
by one.  `PromptAck` is a guest that answers what it has read before the code is sent
again.  Warnings come at any moment, also in the middle of an answer (`midway`);
`overrun` remembers that a key was recorded in a full ring between the two stores.

`Events` is the scheduler, one step per slot that a loop looks at, with handlers that
may enter, replace and remove events while the loops stand in the middle of the
tables.  Times are modulo `Wrap`.  `Calendar` is its promise: time never passes an
entry that is due, an entry nobody moves stays until exactly its cycles have passed;
`KeepsCalendar` maps both tables to it.

Operators named after a fault (`AssumeRoom`, `AcquireAlways`, `StartBeyond`,
`ReleaseUnchained`, ...) stand before the action they would replace; each is a
plausible slip in that code that the named property of `PROJECT.json` ("mutants")
detects.  They are in no next-state relation.

## 3. Runs

| run | instance | shows |
|---|---|---|
| `commpipe` | 2 writers, ring of 4 with 3 usable words, 6 calls | the unlocked write is safe, the pipe is the FIFO queue, words arrive, calls return |
| `native2amiga` | 2 host threads, pipe of 3 words, 2 messages, 2 units, other bits atomic | calls are the messages, none is stranded, the emulation thread returns |
| `native2amiga_lost` | other bits as in the code | an interrupt request is lost (finding) |
| `filesysunit` | 3 packets, limit 2, back pipe of 1 word, one packet that waits for a record and one that frees it, locks that move, a reset at any time | dummy message, limit, lock structures, replied packets; every started packet is replied; a reset returns |
| `filesysunit_unstarted` | limit 1, 2 packets | a packet over the limit is never replied (finding) |
| `filesystree` | a file and a drawer, 3 new `a_inode`s, 1 lock, 1 open file, 1 scan, a cache that holds none, open and rename may fail | counters, cache, tree, scans, nothing freed is used |
| `filesystree_freed` | renaming a file nobody holds | the rename frees the file's `a_inode` (finding) |
| `keyboard` | ring of 1 key, filled by a thread of its own, 4 keys, a lost interrupt, 2 frames to a retransmission, warnings at any time | keys arrive once and in order; what was announced before a reset; warnings end in a reset |
| `keyboard_threads` | ring of 2 keys, 6 keys, own thread | a full ring is overrun and emptied (finding) |
| `traps` | 2 tasks, 2 traps, 2 calls of guest code, the second trap without result | one owner of the CPU, right task, right answer, registers restored, traps return |
| `events` | clock of 4, 2 timers, 1 owned and 2 shared slots, delays of 1 and 2 | exact times, every event runs |
| `hardfile` | 2 requests, 2 slots, 1 opener, pipe of 4 words, 2 threads, one stray of the four kinds between two resets of an idle unit | one answer each, change interrupts, no call hangs but for one named wait |

Bounds and why they are enough.  The ring of 4 words wraps, fills and empties
within 6 calls, and `Chunks = 2` makes a word wait for a second one; larger rings
are covered by the proofs.  Three-word messages in a pipe of three words make
senders wait in the middle of a message; two messages by two threads are the
smallest case in which words could mix, and the proof covers the rest.  Three
packets with a limit of two reach the limit, let one packet be postponed while
two are in flight and let packets finish out of order.  `BackCapacity = 1` makes
the host thread wait for the handler.  Two traps and two calls are enough for one
trap inside the call of another, for two traps on two tasks whose calls return in
either order, and for one trap that calls twice.  A packet is sent once; DOS reuses packet
memory only after a reply, which `RepliedIsLeftAlone` is about.  `CacheMax = 0` makes
every new `a_inode` flush the cache, so that each lookup may free what an earlier one
found; `a_inode`s that scans hold raise the limit, as in the code.  With three new
`a_inode`s an object can be named, renamed and named again while it is open.  The keyboard's ring
of one key is full half of the time, so that a second thread meets it full, empty and between the two
stores; the ring of two is the smallest that a key recorded in between empties.  A clock of 4 with delays up to 2 wraps all the time, and
a time one cycle past would show as 3.  Two requests fill two slots; an abort, a
removal and a disk change then meet the other request at each of its steps.  One stray at a time
(`MaxStrays`) shows what each does, not what two of them do together; a reset of an idle unit
forgets it, so that the run goes on to the next.  A device is opened again after a
last close with one opener (`MaxOpens`) as well as with more.  The pipe of the unit, 100 words in the
code, has four.

Deadlock is checked in every run but two.  In `filesysunit` nothing is left to do after a reset,
or with a host thread stuck at a full `back_pipe` during one, which `ResetReturns` names.  In
`hardfile` the emulation thread may wait for ever, which `EmuReturns` names (`Abandoned`).

Fairness.  Host threads are weakly fair: the host schedules every thread that can
run.  `ServerStep` of `Native2Amiga` is strongly fair, because `devices_rethink`
may run again and again on the same thread but 68k code runs in between and takes
a raised interrupt.  In `FilesysUnit` guest tasks, interrupts and the vertical
blank are weakly fair: exec schedules a task that is ready, and a parked packet's
time runs out.  In `Traps` host threads are weakly fair.  `Switch(t)` and
`Progress(t)` are strongly fair: exec gives every task the CPU again and again, and
a task that has it again and again comes to the end of the guest function it is in
and of its traps.  In `Hardfile` both threads are weakly fair, and a reply's arrival is
strongly fair, because the interrupt that announces it stays pending while the guest
makes call after call.  In `Keyboard` lines, frames, the reset that was asked for and the
interrupt of a guest that lives are weakly fair; `GuestDies` may happen at any time.  In
`Events` the loops are weakly fair; handlers set their timer and return, the CPU
executes instructions and the host's time comes, each strongly fair because
other calls of the hardware come in between.  Nobody is obliged to send, to begin a
request, to press a key or to enter a trap.

## 4. Proofs

All theorems are for every value of the constants that the modules' assumptions
allow; TLC evaluates the assumptions.

`Rings_proofs`, the pipe.  `Invariance` establishes `IInv` for `OneAtATime = TRUE`.  It
says, beyond types: who holds the lock at each label; the single active writer's
`nxwrp` is the successor of `wrp` until it moves; `reader_waiting`, `reader_wait`
and the reader's label agree on whether the reader was told to wake; the same for
the writer; from `Relock` to `Advance` the slot has room because only the
reader moved; the ring holds the tickets that follow the ones taken.  None of the
properties is inductive alone: that a store does not hit an unread slot rests on
the semaphore protocol, and that rests on the lock.  From it follow `Typing`,
`FastPath`, `Order`, `Preservation` and `Refinement` (every step is a step of
`BoundedFifo` or leaves it unchanged).

`Native2Amiga_proofs`.  `Typing` adds that senders exclude each other by `n2asem`
and that the two semaphores of the server mirror its label.  `Enough`, for the code's plain
stores as for the other values of `OtherBits`, says which step ends `NeverNotEnough`: a store of
`rethink_a2065` that takes back a bit set since its load, and no other step of any
thread; that this step happens is what `native2amiga_lost` shows.  `Whole` proves `WholeMessages` by a chain: the pipe holds
consecutive words of the stream of messages, from the one the decoder expects to
the one before the writer's next; a word put or taken keeps the chain.

`Events_proofs`.  `SchedulerKeepsCalendar` proves the refinement.  The two tables alone do
not promise it: `Inv` says that `ev_misc` is armed no later than any one-shot event, or
that `MISC_handler` is on its way to it (`Covered`), that `nextevent` is no later than
any timer (`NextFirst`), that timers and slots the loops have passed are not due
(`Passed`, with the slots a handler filled behind the loop covered by `dorecheck`), and
which labels and indices go together (`Places`).  `SlotDelays` bounds the cycles left, so that
unsigned subtraction tells due from later.

`Rings_proofs`, the keyboard.  `RingInv` (the ring holds the keys in order from the first not
taken) is stated for the oldest key's place after the wrap, so that it holds between the two
stores to `kpb_last` too.  With a second thread it is inductive until a key is recorded in a full ring
between them (`overrun`): `RingIsExact` has no hypothesis, and `OneThreadIsSafe` shows that `~OwnThread`
excludes the overrun.  `PortInv` relates what is at the port to what the guest read: while no answer is awaited
everything sent was read, while one is awaited the code at the port is the next one
or the one just read.  `WarnCode` and `WarnInv` relate the warnings the guest read to the phase, in
two cases: a guest that was at rest when the first warning came (`AtRest`), and one that was
answering a code, whose pulse ends phase 1 in the warning's place (`Midway`).  `KeysAreInOrder` and
`ResetIsAnnounced` assume `PromptAck` and nothing else.

`Traps_proofs`.  The hardest of the properties, because traps nest on the stacks of tasks.
`Inv` has nine parts.  `Baton` says at which labels a context's thread owns the CPU and
that one context at most does; `Mutex` ties `trap_mutex` to the labels between
request and hand-over; `Handed` says what a hand-over leaves in the registers and in
`current_context`; `Nesting`, `OnStack` and `Unique` that the traps a task is in, innermost
last, are the contexts whose return traps lie on its stack, each once; `Answers` what a
call's saved result is; `Contents` that the registers a context saved are those the task
had; `Fresh` that contexts not yet used are nowhere.  `RightAnswer` needs all of them: the handler
takes the context from the stack, so that the stack must name it, which rests on the
nesting, which rests on the hand-over being atomic, which rests on the mutex.

`FilesysUnit_proofs`.  `Inv` is inductive without any assumption beyond the constants'
own, resets included.  `DummyInv` says that `cmds_acked` and `cmds_complete` differ exactly
while the dummy message is on the port or in the handler's hands, and that the server is
about to send it only when they agree.  `Places` says that a packet is with DOS, on the
port, in the handler's hands or in its queue, and how it is marked there; `Started` that
whatever the host's threads know was started, and that `unit_pipe` holds each of its
packets once and none of those the thread has; `Counted` that `d5` is the number of
packets started and not replied; `Locks` how many lock structures the thread has at each
label.  `StartFindsRoom` follows because the packets in `unit_pipe` are distinct members of the
set that `d5` counts, so that there are fewer of them than the limit.  `RepliedIsFree` adds
`Parked`, which follows a packet through the list while both threads have hold of it: what is on the
list is `pending`, or timed out and about to be unlinked; what the host thread has found is `pending`,
or was timed out behind its back and may be replied.  Nothing is assumed about the two threads.  A reset drops
the lock structures of the packets it drops, and its death message may take the last
room in the pipe: `LocksConserved` and `UnitPipeHasRoom` speak of the time before.

`Hardfile_proofs`.  `Inv` has three layers, each as strong as what has happened allows.  `Base` holds
whatever the guest does and whenever the machine is reset: types, who has `change_sem` at
each label, what an operation in progress carries, that a request has one slot at most, that `thread_running` never
promises too much.  `Stable` holds while no queued interrupt was removed and no busy unit reset (`Polite`),
with the device opened again behind the 0 as often as one likes: a request is in one of the guest, the emulation
thread's hands, the pipe, a thread's hands and the replies on their way; whoever is about to write to a slot of
the table knows whose slot it is.  `Orderly` holds until the device is opened while its thread ends: a device in use has
a thread, and nothing is behind a 0.  From `Base` come `HardfileTyping` and the part of `ContractKept` that counts
replies against calls of BeginIO (`Owed`), from `Stable` the rest of it and `MarkedIsProcessed`.  The hard part
is that threads search and clear the table without a lock: a slot found free by one must not be taken by
the other, and a slot found by its request must still be that request's when it is cleared.  `ChangeInv` follows a
change interrupt from `BeginIO` to its entry and to its removal, slot by slot, before anything strays; it
needs a free slot to exist, so `RegisteredAreListed` and `RegisteredAreCaused` assume
`Cardinality(Requests) <= Slots` (`Roomy`).  That `ChangeIntListed` also survives a removal that comes too early
and the reset of a busy unit is only model-checked.

`FilesysTree_proofs`.  `TreeInv` has three parts.  `Tree`: the `a_inode`s are a tree, each list of
children is without repetition and agrees with the parents, a uniq belongs to one `a_inode`, no
address is beyond `a_uniq`.  `Cached`: the chain holds the idle files, once.  `Counted`: `shlock` and
`elock` are the locks and keys, which refer to `a_inode`s that exist.  The counts alone are not
inductive: a lock names its `a_inode` by a uniq, so that a count is only that of one `a_inode` if the
uniq is, and it survives `flush_cache` only if the chain has no file that is held.  Every packet
first looks names up, which may create, flush and reorder, so most of the proof is about these
operators: `Keeps` says that what is held, open or a directory survives a lookup with its name, parent and
counts; each operator (`flush_cache` pass by pass, `recycle_aino`, `init_child_aino`, `lookup_sub`,
`get_aino` name by name, `notify_check` watch by watch, `populate_directory` entry by entry) is shown to keep
`Tree` and `Cached` and to be a `Keeps`; then one lemma per packet moves one hold.  The
three theorems of this module assume `Exact`: no shared lock is made shared, the host refuses to rename
an open file, files closed for a rename open again, notification requests are for objects of the root; for
the first three the table below has the counterexample.  The fourth hypothesis is about renaming a directory:
`move_aino_children` takes the list of children of the old `a_inode` for the new one, which would lose a child
that `notify_check` made there, and the model looks up in the host as it was before
the rename, which is the same only for names of the root.  A proof attempt showed what the model had missed:
`rename_host` went on when `notify_check` had flushed the new `a_inode` and not the old one
(`filesys.cpp:6042`); it now goes wild in both cases.

`FilesysHost_proofs` goes on from there to the host's directory.  `Standing` says that each `a_inode`
is at an object of its kind on the host and no two at the same one (`Sited`), that the host's
paths are sequences of names (`Lettered`), and that a handler can only have used a freed `a_inode` if the
guest has notification requests or renames files that nobody holds (`MayFreeIts`).  It is not inductive
alone: a lookup makes an `a_inode` only for a name that its parent does not list, which is a new
*path* because `Tree` says that a full name is the parent's and its own; a delete takes away only
an empty object, so nobody else stands on what goes; and a rename moves every path below the old
one, which no `a_inode` but the renamed one has, because guests that rename a directory with known
children are excluded (`"rename parent"`, and a failing `mkdir`: both are in the table).
From it come `TreeStandsOnHost` and, where `MayFreeIts` is false, `NothingFreedIsUsed`: the two
places where `recycle_aino` can free what a handler still uses are the only ones.

`LoopsInv` is about ExNext, until a freed `a_inode` is used.  `Marks`: an `a_inode` with
loops has at least as many locked children as it has children, and `total_locked_ainos` is at least the sum
(in TLA+ a sum over a set is a choice of an enumeration, so the lemmas about `Sums`
show first that it does not depend on it).  `Complete`: a directory with loops has an `a_inode` for each
of its objects.  `Counting`: it counts each loop that has begun.  `Looping`: a loop stands on a
child of its directory, every name it still owes comes later in the list of children, and no name it has
told does.  The last needs all the others: the order of the list is kept because children of
such a directory are neither flushed nor moved to the front (`lookup_sub`, `flush_cache`), which
depends on the counters; an entry that is looked up, created or renamed comes to the front, which the
loop has passed; and an entry that is removed leaves the order of the rest.  `Carries`
says this of one lookup (`Grown`: old children stay and keep their order), is shown of every
operator, and carries over the whole packet (`Passes`).  `Steady` has what the guest may not do: go on
after the end of a loop, remove or rename the entry the loop stands on, or scan a directory
the host does not open; each has its row below.  `ScansKeepLocks` and `ScansAreExact` follow,
and `TypesKept`, since the types of the scans' counters are part of `Marks`; the limit on the
guest's locks is an invariant of its own (`LocksInv`).

What theorems and runs assume of the code's surroundings is in this table; TLC finds the
violation without it, each in the passing run's instance with one constant changed:

| constant | what is then violated | why the code allows it |
|---|---|---|
| `CommPipe`: `OneAtATime = FALSE` | `NothingLost` | `uaeserial.cpp:463` and `:581` write to one pipe from two threads |
| `Native2Amiga`: `OtherBits = "plain"` | `NeverNotEnough` | `a2065.cpp:561` |
| `Native2Amiga`: `EmuSends = TRUE` | `EmulatorReturns` | `native2amiga.h:4` says other threads only; `hardfile.cpp:1808` calls `uae_Cause` on the emulation thread |
| `Traps`: `Joins = FALSE` | `ThreadGone` | `uae_wait_thread` of `od-aros/thread.h:112` does nothing |
| `Keyboard`: `PromptAck = FALSE` | `KeysInOrder` | an answer that comes after the retransmission counts for the next code |
| `Hardfile`: one slot | `ChangeIntListed` | a table that is full drops the entry |
| `Hardfile`: `ReplyRoom` of 1 or 2 | `EmuReturns` | two requests can need room for three replies (one is removed too early and answered twice); the emulation thread then waits for room that it makes itself |
| `FilesysTree`: `Habits` with `"rename parent"` | `TreeOnHost` | `filesys.cpp:2426` appends to memory nobody wrote |
| `FilesysTree`: `"exnext again"` | `ScanLocked` | ExNext after the last entry unlocks once more |
| `FilesysTree`: `"change current"` | `ScanExact` | the scan goes on at the wrong entry (`filesys.cpp:4879`) |
| `FilesysTree`: `"share twice"` | `HoldersCounted` | a shared lock made shared is counted again (`filesys.cpp:5596`) |
| `FilesysTree`: `HostRefusesOpen = FALSE` | `HoldersCounted` | `filesys.cpp:6021`: a host that renames open files leaves their keys on the old `a_inode`, which is freed |
| `FilesysTree`: `HostMayFail` with `"reopen"` | `HoldersCounted` | `relock_re` drops a key that does not open again, the `a_inode` keeps its hold (`filesys.cpp:5838`) |
| `FilesysTree`: `HostMayFail` with `"mkdir"` | `TreeOnHost` | the `a_inode` of a directory that was not made stays |
| `FilesysTree`: `HostMayFail` with `"opendir"` | `ScanExact` | `filesys.cpp:4793`: entries that have no `a_inode` yet are not told |

Only model-checked: all liveness (`FlushDelivers`, `WriterReturns`, `AllDelivered`,
`EmulatorReturns`, `StartedReplied`, `ResetReturns`, `TrapsReturn`, `KeysArrive`,
`ResetHappens`, `EventsRun`, `EmuReturns`, `AllAnswered`), which is out of the prover's
reach.  Of `NoFreedUse` the run `filesystree` checks more than is proved: that a guest with
a notification request, which renames only files that are held or while the cache has room, does
not make a handler use a freed `a_inode` either; this depends on the size of the cache and
on what is watched.  The theorems about the scans, the host's names and the types of `FilesysTree`
end where one does (`NoFreedUse =>`), those about its tree, counts and chain do not.
`TypeOK` of the other modules with proofs, `InOrder` and `NothingLost` of
`CommPipe` and `Outstanding` of `FilesysUnit` are proved and no run checks them.

## 5. Findings

1. `a2065.cpp:561`: `&= ~4` on the emulation thread can undo a host thread's
   `|= 1`; the message waits for the next one (`native2amiga_lost`).
2. `filesys.asm:1539` promises unlimited unstarted commands; nothing ever starts
   one (`filesysunit_unstarted`).
3. `filesys.cpp:6010`: `action_rename_object` keeps the `a_inode` of a file nobody
   holds while it creates another, which may free it (`filesystree_freed`).
4. `keybuf.cpp:9` calls the ring "perfectly thread safe"; a key recorded in a full ring
   between the two stores to `kpb_last` (line 44) empties it (`keyboard_threads`).  `RingSafe`
   says that nothing else does.

The table of section 4 lists other places where the code, or a comment on it, promises more than
it does.  Five more are written into the properties, which say what holds in spite of them:

* `filesys.cpp:4164`, `:4187`: a packet may be marked by the host thread after it timed out and was
  replied (`RepliedIsLeftAlone`).
* `cia.cpp:695` speaks of the "first AK_RESETWARNING handshake"; the end of an answer to a key is taken
  for it, and a guest that was in the middle of one is reset after a single warning that it
  read (`ResetAnnounced`).
* `hardfile.cpp:1974`: a device that is opened while its thread ends may be left without a thread, with
  a request marked as being processed for ever; a reset, or an `AbortIO` called before, then waits
  for ever (`TempIsProcessed`, `EmuReturns`).
* `hardfile.cpp:2177`: a change interrupt removed while it waits to be added is answered
  twice (`KeepsContract`).
* `hardfile.cpp:2354`: after the reset of a busy unit its old thread may still reply, and takes requests
  beside the new one (`KeepsContract`, `AllAnswered`).

## 6. What the models leave out

Memory is sequentially consistent: the plain variables of `commpipe.h` have no
barriers, so on a weakly ordered host the unlocked path needs more than is shown
here.  `native2amiga_reset` in the middle of a message and `destroy_comm_pipe` are
not modelled.  `FilesysUnit` has one unit and one handler task; the scan over
several units is in `Native2Amiga` (`ServeUnit`).  Contents of packets, files,
record lists and timeouts are abstracted as said above.  `Traps` leaves out the traps
that run without a thread (except the three internal ones), the table filled by
`define_trap`, a failed allocation of a context and what lies on the stacks besides
return traps; `CallLib` changes A6 for the duration of a call, which is part of
`a`.  The wait of a host
thread for room in the native2amiga pipe during a reset is in neither module.

`FilesysTree` leaves out record locks (their waiting is in `FilesysUnit`), ExAll, soft
links, protection bits and dates, host names that differ from Amiga names, media
change and unmounting, reading and writing, and the case in which the notification of
a deletion flushes the very `a_inode` that is deleted because a watched file elsewhere
has the same name (the instance watches a drawer).

In `FilesysUnit` at most one packet waits for a record at a time, and finding it, taking it off
the list and marking it are one step each.  The links of a longer list, which two threads that take off
neighbours can leave pointing at a record that is gone, and what is in the memory of a record
that both have freed, are not modelled.

`Hardfile` leaves out quick commands other than `CMD_REMCHANGEINT`, what commands do to the
image, several units that share an open count, and the interrupts caused by a disk
change in the count of `ReplyRoom`.  A thread that goes back to a pipe which a reset has cleared
reads undefined memory in the code; in the model it waits, until a new thread is started and
both read the pipe.  A thread that sleeps in the pipe when that is cleared is never woken.  A last close that
finds the pipe full is modelled as one that has not happened yet.

`Keyboard` leaves out the CIAs' timers and clocks, save states and the pause of the
emulation; press and release of a key are two keys.  With a thread of its own only keys are
recorded there; the reset keys of `inputdevice.cpp`, which throw away what is in the ring, stay on the
emulation thread and are not split into their stores.

In `Events` handlers take no time: not modelled are handlers that spend cycles
themselves (a copper write that waits for the blitter, `blitter.cpp:1437`), delays of zero
or less, which run at once, `set_cycles` and `custom_prepare_savestate`.  Cycles paid in advance
(`pissoff`) change nothing the model shows; a line that waits for the host's clock may
do so at any time (`SyncWait`).  An event may be entered twice, as in the code: the search
takes a free slot before it sees an equal event.

Not modelled at all: `uaeserial.device` and `uaenet.device`.  They have the protocol
of requests, aborts and a thread with a pipe that `Hardfile` and `IORequest` describe, and
hazards of their own in the way they complete requests, which `PROJECT.json` lists.  The
CPU, the custom chips and the drives are large and sequential; tests against the
hardware say more about them than a model would.

## 7. Plan

1. `UaeSerial`: requests from `dev_beginio` to the reply, aborts, completion by the
   serial thread, close and reset, as an implementation of `IORequest`.
2. Record locks and the media change of `filesys.cpp`.
3. `NoFreedUse` with notification requests, for a cache that holds all files of the host: what is
   proved now excludes the requests altogether.
