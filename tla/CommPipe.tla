------------------------------ MODULE CommPipe ------------------------------
(***************************************************************************)
(* The pipe of include/commpipe.h, which carries words between the threads *)
(* of the emulator: a ring of Size words, a lock, one semaphore a reader   *)
(* sleeps on and one a writer sleeps on.  A writer that sees the reader    *)
(* asleep stores its word without taking the lock, and it leaves the       *)
(* reader asleep until Chunks words are queued or a word is written with   *)
(* no_buffer set.                                                          *)
(*                                                                         *)
(* A step is one access to memory that another thread can see, or one      *)
(* semaphore operation.  Words are tickets, numbered in the order of the   *)
(* calls.  OneAtATime is the caller's discipline: native2amiga.cpp holds   *)
(* n2asem around its writes, and most pipes have one writing thread.       *)
(***************************************************************************)
EXTENDS Integers, Sequences

CONSTANTS Writers,      \* threads that call write_comm_pipe_pt
          Size, Chunks, \* arguments of init_comm_pipe
          MaxWrites,    \* bound: calls of write_comm_pipe_pt in a behaviour
          OneAtATime    \* TRUE: no two calls of write_comm_pipe_pt overlap

\* Every init_comm_pipe of the program satisfies this: sizes are 10, 20, 100
\* or DC_PIPE_SIZE, chunks 1, 2 (native2amiga.cpp) or 3 (filesys.cpp).
ASSUME PipeAssumption ==
    /\ Size \in Nat /\ Chunks \in Nat
    /\ 1 <= Chunks /\ Chunks < Size
    /\ MaxWrites \in Nat
    /\ OneAtATime \in BOOLEAN

VARIABLES
    data, rdp, wrp,                  \* the ring and its two indices
    reader_waiting, writer_waiting,  \* "wake me" flags
    lock, reader_wait, writer_wait,  \* semaphore counts
    wpc,                             \* where each writer stands
    word, no_buffer, nxwrp, locked,  \* its arguments and locals
    rpc, got,                        \* where the reader stands, its local data
    issued,                          \* tickets handed out so far
    done,                            \* tickets whose write call has returned
    rcvd                             \* words the read calls returned, in order

shared == <<data, rdp, wrp, reader_waiting, writer_waiting,
            lock, reader_wait, writer_wait>>
writer == <<wpc, word, no_buffer, nxwrp, locked>>
reader == <<rpc, got>>
ghost  == <<issued, done, rcvd>>
vars   == <<shared, writer, reader, ghost>>

Index  == 0 .. Size - 1
Ticket == 1 .. MaxWrites

Succ(i) == (i + 1) % Size
Count   == (wrp - rdp + Size) % Size     \* words in the ring

PipeInit ==
    /\ data = [i \in Index |-> 0]
    /\ rdp = 0 /\ wrp = 0
    /\ reader_waiting = FALSE /\ writer_waiting = FALSE
    /\ lock = 1 /\ reader_wait = 0 /\ writer_wait = 0
    /\ wpc = [w \in Writers |-> "idle"]
    /\ word = [w \in Writers |-> 0]
    /\ no_buffer = [w \in Writers |-> FALSE]
    /\ nxwrp = [w \in Writers |-> 0]
    /\ locked = [w \in Writers |-> FALSE]
    /\ rpc = "lock" /\ got = 0
    /\ issued = 0 /\ done = {} /\ rcvd = <<>>

----------------------------------------------------------------------------
(* write_comm_pipe_pt *)

Goto(w, label) == wpc' = [wpc EXCEPT ![w] = label]

\* A call.  nxwrp is computed from wrp before anything is locked.
Call(w, nb) ==
    /\ wpc[w] = "idle"
    /\ OneAtATime => \A v \in Writers : wpc[v] = "idle"
    /\ issued < MaxWrites
    /\ issued' = issued + 1
    /\ word' = [word EXCEPT ![w] = issued + 1]
    /\ no_buffer' = [no_buffer EXCEPT ![w] = nb]
    /\ nxwrp' = [nxwrp EXCEPT ![w] = Succ(wrp)]
    /\ locked' = [locked EXCEPT ![w] = FALSE]
    /\ Goto(w, "test")
    /\ UNCHANGED <<shared, reader, done, rcvd>>

\* The unlocked look at reader_waiting chooses between the two paths.
TestReader(w) ==
    /\ wpc[w] = "test"
    /\ Goto(w, IF reader_waiting THEN "store" ELSE "lock")
    /\ UNCHANGED <<shared, word, no_buffer, nxwrp, locked, reader, ghost>>

Lock(w) ==
    /\ wpc[w] = "lock" /\ lock = 1
    /\ lock' = 0
    /\ Goto(w, "check")
    /\ UNCHANGED <<data, rdp, wrp, reader_waiting, writer_waiting, reader_wait,
                   writer_wait, word, no_buffer, nxwrp, locked, reader, ghost>>

\* Fault: a full ring is not noticed.
AssumeRoom(w) ==
    /\ wpc[w] = "check"
    /\ locked' = [locked EXCEPT ![w] = TRUE]
    /\ Goto(w, "store")
    /\ UNCHANGED <<shared, word, no_buffer, nxwrp, reader, ghost>>

FindRoom(w) ==
    /\ wpc[w] = "check" /\ nxwrp[w] # rdp
    /\ locked' = [locked EXCEPT ![w] = TRUE]
    /\ Goto(w, "store")
    /\ UNCHANGED <<shared, word, no_buffer, nxwrp, reader, ghost>>

FindFull(w) ==
    /\ wpc[w] = "check" /\ nxwrp[w] = rdp
    /\ writer_waiting' = TRUE
    /\ Goto(w, "unlockfull")
    /\ UNCHANGED <<data, rdp, wrp, reader_waiting, lock, reader_wait, writer_wait,
                   word, no_buffer, nxwrp, locked, reader, ghost>>

UnlockFull(w) ==
    /\ wpc[w] = "unlockfull"
    /\ lock' = lock + 1
    /\ Goto(w, "sleep")
    /\ UNCHANGED <<data, rdp, wrp, reader_waiting, writer_waiting, reader_wait,
                   writer_wait, word, no_buffer, nxwrp, locked, reader, ghost>>

WaitForRoom(w) ==
    /\ wpc[w] = "sleep" /\ writer_wait > 0
    /\ writer_wait' = writer_wait - 1
    /\ Goto(w, "relock")
    /\ UNCHANGED <<data, rdp, wrp, reader_waiting, writer_waiting, lock,
                   reader_wait, word, no_buffer, nxwrp, locked, reader, ghost>>

\* The lock is retaken; the pipe is not examined a second time.
Relock(w) ==
    /\ wpc[w] = "relock" /\ lock = 1
    /\ lock' = 0
    /\ locked' = [locked EXCEPT ![w] = TRUE]
    /\ Goto(w, "store")
    /\ UNCHANGED <<data, rdp, wrp, reader_waiting, writer_waiting, reader_wait,
                   writer_wait, word, no_buffer, nxwrp, reader, ghost>>

\* Fault: the word is stored at nxwrp.
StoreNext(w) ==
    /\ wpc[w] = "store"
    /\ data' = [data EXCEPT ![nxwrp[w]] = word[w]]
    /\ Goto(w, "advance")
    /\ UNCHANGED <<rdp, wrp, reader_waiting, writer_waiting, lock, reader_wait,
                   writer_wait, word, no_buffer, nxwrp, locked, reader, ghost>>

\* The next steps are those of both paths.
Store(w) ==
    /\ wpc[w] = "store"
    /\ data' = [data EXCEPT ![wrp] = word[w]]
    /\ Goto(w, "advance")
    /\ UNCHANGED <<rdp, wrp, reader_waiting, writer_waiting, lock, reader_wait,
                   writer_wait, word, no_buffer, nxwrp, locked, reader, ghost>>

Advance(w) ==
    /\ wpc[w] = "advance"
    /\ wrp' = nxwrp[w]
    /\ Goto(w, "wake")
    /\ UNCHANGED <<data, rdp, reader_waiting, writer_waiting, lock, reader_wait,
                   writer_wait, word, no_buffer, nxwrp, locked, reader, ghost>>

\* Fault: the test of reader_waiting is missing.
MustWakeUnasked(w) == no_buffer[w] \/ Count >= Chunks

\* Fault: the test of no_buffer is missing.
MustWakeWhenFilled(w) == reader_waiting /\ Count >= Chunks

\* maybe_wake_reader, its test.
MustWake(w) == reader_waiting /\ (no_buffer[w] \/ Count >= Chunks)

TestWake(w) ==
    /\ wpc[w] = "wake"
    /\ Goto(w, IF MustWake(w) THEN "clear" ELSE "return")
    /\ UNCHANGED <<shared, word, no_buffer, nxwrp, locked, reader, ghost>>

\* Fault: the flag is not reset.
ForgetToClear(w) ==
    /\ wpc[w] = "clear"
    /\ Goto(w, "post")
    /\ UNCHANGED <<shared, word, no_buffer, nxwrp, locked, reader, ghost>>

ClearReaderWaiting(w) ==
    /\ wpc[w] = "clear"
    /\ reader_waiting' = FALSE
    /\ Goto(w, "post")
    /\ UNCHANGED <<data, rdp, wrp, writer_waiting, lock, reader_wait, writer_wait,
                   word, no_buffer, nxwrp, locked, reader, ghost>>

PostReader(w) ==
    /\ wpc[w] = "post"
    /\ reader_wait' = reader_wait + 1
    /\ Goto(w, "return")
    /\ UNCHANGED <<data, rdp, wrp, reader_waiting, writer_waiting, lock,
                   writer_wait, word, no_buffer, nxwrp, locked, reader, ghost>>

\* The slow path releases the lock, the fast path has none to release.
Return(w) ==
    /\ wpc[w] = "return"
    /\ lock' = IF locked[w] THEN lock + 1 ELSE lock
    /\ locked' = [locked EXCEPT ![w] = FALSE]
    /\ done' = done \cup {word[w]}
    /\ Goto(w, "idle")
    /\ UNCHANGED <<data, rdp, wrp, reader_waiting, writer_waiting, reader_wait,
                   writer_wait, word, no_buffer, nxwrp, reader, issued, rcvd>>

WriterStep(w) ==
    \/ TestReader(w) \/ Lock(w) \/ FindRoom(w) \/ FindFull(w) \/ UnlockFull(w)
    \/ WaitForRoom(w) \/ Relock(w) \/ Store(w) \/ Advance(w) \/ TestWake(w)
    \/ ClearReaderWaiting(w) \/ PostReader(w) \/ Return(w)

----------------------------------------------------------------------------
(* read_comm_pipe_pt_blocking, called again and again by the reading thread *)

ReaderLock ==
    /\ rpc = "lock" /\ lock = 1
    /\ lock' = 0 /\ rpc' = "check"
    /\ UNCHANGED <<data, rdp, wrp, reader_waiting, writer_waiting, reader_wait,
                   writer_wait, writer, got, ghost>>

FindWord ==
    /\ rpc = "check" /\ rdp # wrp
    /\ rpc' = "take"
    /\ UNCHANGED <<shared, writer, got, ghost>>

FindEmpty ==
    /\ rpc = "check" /\ rdp = wrp
    /\ reader_waiting' = TRUE /\ rpc' = "unlockempty"
    /\ UNCHANGED <<data, rdp, wrp, writer_waiting, lock, reader_wait, writer_wait,
                   writer, got, ghost>>

UnlockEmpty ==
    /\ rpc = "unlockempty"
    /\ lock' = lock + 1 /\ rpc' = "sleep"
    /\ UNCHANGED <<data, rdp, wrp, reader_waiting, writer_waiting, reader_wait,
                   writer_wait, writer, got, ghost>>

WaitForWord ==
    /\ rpc = "sleep" /\ reader_wait > 0
    /\ reader_wait' = reader_wait - 1 /\ rpc' = "relock"
    /\ UNCHANGED <<data, rdp, wrp, reader_waiting, writer_waiting, lock,
                   writer_wait, writer, got, ghost>>

ReaderRelock ==
    /\ rpc = "relock" /\ lock = 1
    /\ lock' = 0 /\ rpc' = "take"
    /\ UNCHANGED <<data, rdp, wrp, reader_waiting, writer_waiting, reader_wait,
                   writer_wait, writer, got, ghost>>

TakeWord ==
    /\ rpc = "take"
    /\ got' = data[rdp] /\ rpc' = "advance"
    /\ UNCHANGED <<shared, writer, ghost>>

ReaderAdvance ==
    /\ rpc = "advance"
    /\ rdp' = Succ(rdp) /\ rpc' = "wake"
    /\ UNCHANGED <<data, wrp, reader_waiting, writer_waiting, lock, reader_wait,
                   writer_wait, writer, got, ghost>>

\* Fault: the reader posts although no writer waits.
AlwaysPostWriter ==
    /\ rpc = "wake"
    /\ writer_waiting' = FALSE
    /\ writer_wait' = writer_wait + 1
    /\ rpc' = "unlock"
    /\ UNCHANGED <<data, rdp, wrp, reader_waiting, lock, reader_wait, writer, got,
                   ghost>>

\* Fault: the reader never posts writer_wait.
ForgetWriter ==
    /\ rpc = "wake"
    /\ writer_waiting' = FALSE /\ rpc' = "unlock"
    /\ UNCHANGED <<data, rdp, wrp, reader_waiting, lock, reader_wait, writer_wait,
                   writer, got, ghost>>

\* writer_waiting is only touched under the lock, so its test, its reset and
\* the post are one step.
WakeWriter ==
    /\ rpc = "wake"
    /\ writer_waiting' = FALSE
    /\ writer_wait' = IF writer_waiting THEN writer_wait + 1 ELSE writer_wait
    /\ rpc' = "unlock"
    /\ UNCHANGED <<data, rdp, wrp, reader_waiting, lock, reader_wait, writer, got,
                   ghost>>

ReaderReturn ==
    /\ rpc = "unlock"
    /\ lock' = lock + 1 /\ rpc' = "lock"
    /\ rcvd' = Append(rcvd, got)
    /\ UNCHANGED <<data, rdp, wrp, reader_waiting, writer_waiting, reader_wait,
                   writer_wait, writer, got, issued, done>>

ReaderStep ==
    \/ ReaderLock \/ FindWord \/ FindEmpty \/ UnlockEmpty \/ WaitForWord
    \/ ReaderRelock \/ TakeWord \/ ReaderAdvance \/ WakeWriter \/ ReaderReturn

----------------------------------------------------------------------------
\* Every call has returned and the reader sleeps: nothing is left to do.
Quiet ==
    /\ issued = MaxWrites
    /\ \A w \in Writers : wpc[w] = "idle"
    /\ rpc = "sleep" /\ reader_wait = 0
    /\ UNCHANGED vars

PipeNext ==
    \/ \E w \in Writers : WriterStep(w) \/ \E nb \in BOOLEAN : Call(w, nb)
    \/ ReaderStep
    \/ Quiet

PipeSpec == PipeInit /\ [][PipeNext]_vars

\* A thread that can take a step takes one; nobody is obliged to write.
PipeFairSpec ==
    /\ PipeSpec
    /\ \A w \in Writers : WF_vars(WriterStep(w))
    /\ WF_vars(ReaderStep)

----------------------------------------------------------------------------
(* Properties *)

WriterLabel == {"idle", "test", "lock", "check", "unlockfull", "sleep", "relock",
                "store", "advance", "wake", "clear", "post", "return"}
ReaderLabel == {"lock", "check", "unlockempty", "sleep", "relock", "take",
                "advance", "wake", "unlock"}

\* Types.  In particular the lock is a binary semaphore and neither wake-up
\* semaphore ever counts more than one post (uae_sem_post of commpipe.h).
TypeOK ==
    /\ data \in [Index -> 0 .. MaxWrites]
    /\ rdp \in Index /\ wrp \in Index
    /\ reader_waiting \in BOOLEAN /\ writer_waiting \in BOOLEAN
    /\ lock \in {0, 1} /\ reader_wait \in {0, 1} /\ writer_wait \in {0, 1}
    /\ wpc \in [Writers -> WriterLabel]
    /\ word \in [Writers -> 0 .. MaxWrites]
    /\ no_buffer \in [Writers -> BOOLEAN]
    /\ nxwrp \in [Writers -> Index]
    /\ locked \in [Writers -> BOOLEAN]
    /\ rpc \in ReaderLabel /\ got \in 0 .. MaxWrites
    /\ issued \in 0 .. MaxWrites
    /\ done \in SUBSET Ticket
    /\ rcvd \in Seq(0 .. MaxWrites)

\* Words in the ring, oldest first.
Contents == [i \in 1 .. Count |-> data[(rdp + i - 1) % Size]]

\* Words the reader has taken out of the ring.
Taken == IF rpc \in {"wake", "unlock"} THEN Append(rcvd, got) ELSE rcvd

\* "No need to do all the locking": while a writer stores without the lock,
\* the reader is asleep or about to be, and nothing but this writer wakes it.
FastPathSafe ==
    \A w \in Writers :
        wpc[w] \in {"store", "advance", "wake", "clear", "post"} /\ ~locked[w]
            => rpc \in {"unlockempty", "sleep"} /\ reader_wait = 0

\* The reader obtains the words in the order of the write calls, each of them
\* once and none skipped.
InOrder == \A i \in 1 .. Len(rcvd) : rcvd[i] = i

\* A word whose write call has returned is in the ring or was taken by the
\* reader: no later call overwrites it.
NothingLost ==
    \A t \in done :
        \/ \E i \in 1 .. Count : Contents[i] = t
        \/ \E i \in 1 .. Len(Taken) : Taken[i] = t

\* The pipe is a FIFO queue of Size - 1 words: a word enters when wrp moves
\* and leaves when rdp moves.
Fifo == INSTANCE BoundedFifo WITH
            Capacity <- Size - 1, Word <- Ticket,
            queue <- Contents, delivered <- Taken

PipeFifo == Fifo!FifoSpec

\* "We queue up to chunks pieces of data before signalling": a word written
\* with no_buffer set is not left in the pipe, nor is any word before it.
FlushDelivers ==
    \A t \in Ticket :
        (\E w \in Writers : word[w] = t /\ no_buffer[w] /\ wpc[w] = "return")
            ~> Len(rcvd) >= t

\* A writer that found the pipe full is woken: no write call hangs.
WriterReturns == \A w \in Writers : wpc[w] = "test" ~> wpc[w] = "idle"
=============================================================================
