---------------------------- MODULE Rings_proofs ----------------------------
(***************************************************************************)
(* The two rings of the emulator that a thread fills and another empties.  *)
(* The comm pipe (commpipe.h): its wake-up semaphores and its fast path    *)
(* lose nothing, it delivers in order and implements a bounded queue, for  *)
(* every ring size, chunk size, number of writers and calls.  The keyboard *)
(* buffer (keybuf.cpp) and the handshake of the CIA that empties it: the   *)
(* ring is exact, keys reach the guest once and in order, and a reset is   *)
(* announced twice, for every size, timeout and number of keys.            *)
(***************************************************************************)
EXTENDS CommPipe, Keyboard, SequenceTheorems, TLAPS

----------------------------------------------------------------------------
(* Arithmetic of the ring indices. *)

\* Adding an offset to an index wraps around at most once.
LEMMA WrapSum ==
    ASSUME NEW i \in Index, NEW k \in 1 .. Size - 1
    PROVE  (i + k - 1) % Size =
                IF i + k - 1 < Size THEN i + k - 1 ELSE i + k - 1 - Size
  BY PipeAssumption DEF Index

\* The successor of an index is an index.
LEMMA SuccIndex ==
    ASSUME NEW i \in Index
    PROVE  /\ Succ(i) = IF i + 1 < Size THEN i + 1 ELSE 0
           /\ Succ(i) \in Index
  BY PipeAssumption DEF Index, Succ

\* Going w - r slots forward from r leads to w.
LEMMA Distance ==
    ASSUME NEW r \in Index, NEW w \in Index
    PROVE  (w - r + Size) % Size = IF w >= r THEN w - r ELSE w - r + Size
  BY PipeAssumption DEF Index

\* Count is the number of slots from rdp to wrp.
LEMMA CountIs ==
    ASSUME rdp \in Index, wrp \in Index
    PROVE  /\ Count = IF wrp >= rdp THEN wrp - rdp ELSE wrp - rdp + Size
           /\ Count \in 0 .. Size - 1
           /\ Count = 0 <=> rdp = wrp
           /\ Count < Size - 1 <=> Succ(wrp) # rdp
<1>1. Count = IF wrp >= rdp THEN wrp - rdp ELSE wrp - rdp + Size
  BY Distance DEF Count
<1>2. Succ(wrp) = IF wrp + 1 < Size THEN wrp + 1 ELSE 0
  BY SuccIndex
<1> QED
  BY PipeAssumption, <1>1, <1>2 DEF Index

\* The slots of the queued words are indices, and with room left none of them
\* is the slot at wrp.
LEMMA QueuedSlot ==
    ASSUME rdp \in Index, wrp \in Index, NEW i \in 1 .. Count
    PROVE  /\ (rdp + i - 1) % Size \in Index
           /\ (rdp + i - 1) % Size # wrp
<1>1. /\ Count = IF wrp >= rdp THEN wrp - rdp ELSE wrp - rdp + Size
      /\ Count \in 0 .. Size - 1
  BY CountIs
<1>2. i \in 1 .. Size - 1
  BY <1>1, PipeAssumption
<1>3. (rdp + i - 1) % Size = IF rdp + i - 1 < Size THEN rdp + i - 1
                                                   ELSE rdp + i - 1 - Size
  BY <1>2, WrapSum
<1> QED
  BY <1>1, <1>2, <1>3, PipeAssumption DEF Index

\* The slot after the last queued word is the one at wrp.
LEMMA NextSlot ==
    ASSUME rdp \in Index, wrp \in Index, Count < Size - 1
    PROVE  (rdp + (Count + 1) - 1) % Size = wrp
<1>1. /\ Count = IF wrp >= rdp THEN wrp - rdp ELSE wrp - rdp + Size
      /\ Count \in 0 .. Size - 1
  BY CountIs
<1>2. Count + 1 \in 1 .. Size - 1
  BY <1>1, PipeAssumption
<1>3. (rdp + (Count + 1) - 1) % Size =
            IF rdp + (Count + 1) - 1 < Size THEN rdp + (Count + 1) - 1
                                            ELSE rdp + (Count + 1) - 1 - Size
  BY <1>2, WrapSum
<1> QED
  BY <1>1, <1>2, <1>3, PipeAssumption DEF Index

\* One more word: wrp moves to its successor while there is room.
LEMMA CountGrows ==
    ASSUME rdp \in Index, wrp \in Index, Count < Size - 1,
           wrp' = Succ(wrp), rdp' = rdp
    PROVE  Count' = Count + 1
<1>1. wrp' = (IF wrp + 1 < Size THEN wrp + 1 ELSE 0) /\ wrp' \in Index
  BY SuccIndex
<1>2. Count' = IF wrp' >= rdp THEN wrp' - rdp ELSE wrp' - rdp + Size
  BY <1>1, Distance DEF Count
<1>3. /\ Count = IF wrp >= rdp THEN wrp - rdp ELSE wrp - rdp + Size
      /\ Count \in 0 .. Size - 1
  BY CountIs
<1> QED
  BY <1>1, <1>2, <1>3, PipeAssumption DEF Index

\* One word less: rdp moves to its successor while a word is queued.
LEMMA CountShrinks ==
    ASSUME rdp \in Index, wrp \in Index, Count >= 1,
           rdp' = Succ(rdp), wrp' = wrp
    PROVE  Count' = Count - 1
<1>1. rdp' = (IF rdp + 1 < Size THEN rdp + 1 ELSE 0) /\ rdp' \in Index
  BY SuccIndex
<1>2. Count' = IF wrp >= rdp' THEN wrp - rdp' ELSE wrp - rdp' + Size
  BY <1>1, Distance DEF Count
<1>3. /\ Count = IF wrp >= rdp THEN wrp - rdp ELSE wrp - rdp + Size
      /\ Count \in 0 .. Size - 1
  BY CountIs
<1> QED
  BY <1>1, <1>2, <1>3, PipeAssumption DEF Index

\* The oldest queued word is in the slot at rdp.
LEMMA FirstSlot ==
    ASSUME rdp \in Index
    PROVE  (rdp + 1 - 1) % Size = rdp
  BY WrapSum, PipeAssumption DEF Index

\* Taking a word shifts the positions of the others by one.
LEMMA ShiftedSlot ==
    ASSUME rdp \in Index, NEW i \in 1 .. Size - 2
    PROVE  (Succ(rdp) + i - 1) % Size = (rdp + (i + 1) - 1) % Size
<1>1. Succ(rdp) = (IF rdp + 1 < Size THEN rdp + 1 ELSE 0) /\ Succ(rdp) \in Index
  BY SuccIndex
<1>2. (Succ(rdp) + i - 1) % Size =
            IF Succ(rdp) + i - 1 < Size THEN Succ(rdp) + i - 1
                                        ELSE Succ(rdp) + i - 1 - Size
  BY <1>1, WrapSum, PipeAssumption
<1>3. i + 1 \in 1 .. Size - 1
  BY PipeAssumption
<1>4. (rdp + (i + 1) - 1) % Size =
            IF rdp + (i + 1) - 1 < Size THEN rdp + (i + 1) - 1
                                        ELSE rdp + (i + 1) - 1 - Size
  BY <1>3, WrapSum
<1> QED
  BY <1>1, <1>2, <1>4, PipeAssumption DEF Index

----------------------------------------------------------------------------
(* The inductive invariant. *)

ReaderCrit == rpc \in {"check", "unlockempty", "take", "advance", "wake", "unlock"}
InCrit(w)  == wpc[w] \in {"check", "unlockfull"} \/ locked[w]
Parked     == rpc \in {"unlockempty", "sleep"}
Before     == {"test", "lock", "check", "unlockfull", "sleep", "relock", "store",
               "advance"}

\* The calls do not overlap.
Alone == \A v, w \in Writers : wpc[v] # "idle" /\ wpc[w] # "idle" => v = w

\* The lock is a mutual exclusion lock.
LockInv ==
    /\ \A w \in Writers : locked[w] =>
            wpc[w] \in {"store", "advance", "wake", "clear", "post", "return"}
    /\ \A w \in Writers : InCrit(w) => lock = 0 /\ ~ReaderCrit
    /\ ReaderCrit => lock = 0

\* The reader sleeps exactly while its wake-up is still to come: the flag, the
\* post of a writer, or the semaphore count.
WakeInv ==
    /\ reader_waiting => Parked /\ reader_wait = 0
    /\ reader_wait = 1 => Parked
    /\ \A w \in Writers :
        /\ wpc[w] = "post" => Parked /\ reader_wait = 0 /\ ~reader_waiting
        /\ wpc[w] = "clear" => reader_waiting
        /\ wpc[w] \in {"store", "advance", "wake"} /\ ~locked[w] => reader_waiting

\* The same of a writer that found the pipe full.
SleepInv ==
    /\ ~(writer_waiting /\ writer_wait = 1)
    /\ writer_waiting \/ writer_wait = 1 =>
            \E w \in Writers : wpc[w] \in {"unlockfull", "sleep"}

\* A writer that stores has room, a reader that takes has a word.
RoomInv ==
    /\ \A w \in Writers :
        /\ wpc[w] \in Before => nxwrp[w] = Succ(wrp)
        /\ wpc[w] \in {"relock", "store", "advance"} => Count < Size - 1
    /\ writer_wait = 1 \/ rpc = "wake" => Count < Size - 1
    /\ reader_waiting =>
            Count < Chunks \/ \E w \in Writers : wpc[w] \in {"wake", "clear"}

SupplyInv ==
    /\ rpc \in {"relock", "take", "advance"} \/ reader_wait = 1 => Count >= 1
    /\ \A w \in Writers :
        /\ wpc[w] \in {"clear", "post"} => Count >= 1
        /\ wpc[w] = "wake" /\ reader_waiting => Count >= 1

\* The ring continues where the reader stands, up to the last ticket.
Base == IF rpc \in {"wake", "unlock"} THEN Len(rcvd) + 1 ELSE Len(rcvd)

DataInv ==
    /\ \A i \in 1 .. Count : Contents[i] = Base + i
    /\ rpc \in {"advance", "wake", "unlock"} => got = Len(rcvd) + 1
    /\ InOrder

TicketInv ==
    /\ \A w \in Writers :
        /\ wpc[w] \in Before => issued = Base + Count + 1
        /\ wpc[w] # "idle" => word[w] = issued /\ issued >= 1
        /\ wpc[w] = "advance" => data[wrp] = word[w]
    /\ (\A w \in Writers : wpc[w] \notin Before) => issued = Base + Count
    /\ done \subseteq 1 .. (Base + Count)

IInv == /\ TypeOK /\ Alone /\ LockInv /\ WakeInv /\ SleepInv /\ RoomInv
        /\ SupplyInv /\ DataInv /\ TicketInv

LEMMA TestReaderStep ==
    ASSUME OneAtATime, IInv, NEW w \in Writers, TestReader(w)
    PROVE  IInv'
<1> USE DEF IInv
<1>t. Count \in 0 .. Size - 1
  BY CountIs DEF TypeOK
<1>c. Count' = Count
  BY DEF Count, TestReader, shared
<1>1. TypeOK'
  BY DEF TypeOK, LockInv, WakeInv, SleepInv, InCrit, ReaderCrit, Index,
     WriterLabel, ReaderLabel, Ticket, TestReader, shared, reader, ghost, Goto
<1>2. Alone' /\ LockInv' /\ WakeInv' /\ SleepInv'
  BY DEF TypeOK, Alone, LockInv, InCrit, ReaderCrit, WriterLabel, WakeInv,
     Parked, SleepInv, TestReader, shared, reader, ghost, Goto
<1>3. SupplyInv'
  BY <1>c, <1>t DEF TypeOK, Alone, LockInv, WakeInv, RoomInv, SupplyInv,
     InCrit, ReaderCrit, Parked, Before, TestReader, shared, reader, ghost,
     Goto
<1>4. RoomInv'
  <2>1. ASSUME reader_waiting PROVE Count < Size - 1
    BY <1>t, <2>1, PipeAssumption DEF RoomInv, Alone, TestReader
  <2> QED
    BY <1>c, <2>1 DEF RoomInv, TestReader, Goto, TypeOK, Before, Alone,
                      shared, reader
<1>5. DataInv' /\ TicketInv'
  BY <1>c DEF TypeOK, DataInv, InOrder, Base, Contents, Alone, TicketInv,
     Before, TestReader, shared, reader, ghost, Goto
<1> QED
  BY <1>1, <1>2, <1>3, <1>4, <1>5

LEMMA LockStep ==
    ASSUME OneAtATime, IInv, NEW w \in Writers, Lock(w)
    PROVE  IInv'
<1> USE DEF IInv
<1>t. Count \in 0 .. Size - 1
  BY CountIs DEF TypeOK
<1>c. Count' = Count
  BY DEF Count, Lock, shared
<1>1. TypeOK'
  BY DEF TypeOK, LockInv, WakeInv, SleepInv, InCrit, ReaderCrit, Index,
     WriterLabel, ReaderLabel, Ticket, Lock, reader, ghost, Goto
<1>2. Alone' /\ LockInv' /\ WakeInv' /\ SleepInv'
  BY DEF TypeOK, Alone, LockInv, InCrit, ReaderCrit, WriterLabel, WakeInv,
     Parked, SleepInv, Lock, reader, ghost, Goto
<1>3. RoomInv' /\ SupplyInv'
  BY <1>c, <1>t DEF TypeOK, Alone, WakeInv, LockInv, InCrit, ReaderCrit,
     SleepInv, RoomInv, Before, Parked, SupplyInv, Lock, reader, ghost, Goto
<1>4. DataInv' /\ TicketInv'
  BY <1>c DEF TypeOK, DataInv, InOrder, Base, Contents, Alone, TicketInv,
     Before, Lock, reader, ghost, Goto
<1> QED
  BY <1>1, <1>2, <1>3, <1>4

LEMMA FindRoomStep ==
    ASSUME OneAtATime, IInv, NEW w \in Writers, FindRoom(w)
    PROVE  IInv'
<1> USE DEF IInv
<1>t. Count \in 0 .. Size - 1
  BY CountIs DEF TypeOK
<1>c. Count' = Count
  BY DEF Count, FindRoom, shared
<1>1. TypeOK'
  BY DEF TypeOK, LockInv, WakeInv, SleepInv, InCrit, ReaderCrit, Index,
     WriterLabel, ReaderLabel, Ticket, FindRoom, shared, reader, ghost, Goto
<1>2. Alone' /\ LockInv' /\ WakeInv' /\ SleepInv'
  BY DEF TypeOK, Alone, LockInv, InCrit, ReaderCrit, WriterLabel, WakeInv,
     Parked, SleepInv, FindRoom, shared, reader, ghost, Goto
<1>3. RoomInv' /\ SupplyInv'
  BY <1>c, <1>t, CountIs DEF TypeOK, Alone, WakeInv, LockInv, InCrit,
     ReaderCrit, SleepInv, RoomInv, Before, Parked, SupplyInv, FindRoom,
     shared, reader, ghost, Goto
<1>4. DataInv' /\ TicketInv'
  BY <1>c DEF TypeOK, DataInv, InOrder, Base, Contents, Alone, TicketInv,
     Before, FindRoom, shared, reader, ghost, Goto
<1> QED
  BY <1>1, <1>2, <1>3, <1>4

LEMMA FindFullStep ==
    ASSUME OneAtATime, IInv, NEW w \in Writers, FindFull(w)
    PROVE  IInv'
<1> USE DEF IInv
<1>t. Count \in 0 .. Size - 1
  BY CountIs DEF TypeOK
<1>c. Count' = Count
  BY DEF Count, FindFull, shared
<1>1. TypeOK'
  BY DEF TypeOK, LockInv, WakeInv, SleepInv, InCrit, ReaderCrit, Index,
     WriterLabel, ReaderLabel, Ticket, FindFull, reader, ghost, Goto
<1>2. Alone' /\ LockInv' /\ WakeInv' /\ SleepInv'
  BY DEF TypeOK, Alone, LockInv, InCrit, ReaderCrit, WriterLabel, WakeInv,
     Parked, SleepInv, FindFull, reader, ghost, Goto
<1>3. RoomInv' /\ SupplyInv'
  BY <1>c, <1>t DEF TypeOK, Alone, WakeInv, LockInv, InCrit, ReaderCrit,
     SleepInv, RoomInv, Before, Parked, SupplyInv, FindFull, reader, ghost,
     Goto
<1>4. DataInv' /\ TicketInv'
  BY <1>c DEF TypeOK, DataInv, InOrder, Base, Contents, Alone, TicketInv,
     Before, FindFull, reader, ghost, Goto
<1> QED
  BY <1>1, <1>2, <1>3, <1>4

LEMMA UnlockFullStep ==
    ASSUME OneAtATime, IInv, NEW w \in Writers, UnlockFull(w)
    PROVE  IInv'
<1> USE DEF IInv
<1>t. Count \in 0 .. Size - 1
  BY CountIs DEF TypeOK
<1>c. Count' = Count
  BY DEF Count, UnlockFull, shared
<1>1. TypeOK'
  <2>1. lock = 0 /\ lock' = 1
    BY DEF UnlockFull, LockInv, InCrit
  <2> QED
    BY <2>1 DEF TypeOK, UnlockFull, Goto, Index, WriterLabel, ReaderLabel,
       Ticket, shared, writer, reader, ghost
<1>2. Alone' /\ LockInv' /\ WakeInv' /\ SleepInv'
  BY ZenonT(60) DEF TypeOK, Alone, LockInv, InCrit, ReaderCrit, WriterLabel, WakeInv,
     Parked, SleepInv, UnlockFull, reader, ghost, Goto
<1>3. RoomInv' /\ SupplyInv'
  BY <1>c, <1>t DEF TypeOK, Alone, WakeInv, LockInv, InCrit, ReaderCrit,
     SleepInv, RoomInv, Before, Parked, SupplyInv, UnlockFull, reader, ghost,
     Goto
<1>4. DataInv' /\ TicketInv'
  BY <1>c DEF TypeOK, DataInv, InOrder, Base, Contents, Alone, TicketInv,
     Before, UnlockFull, reader, ghost, Goto
<1> QED
  BY <1>1, <1>2, <1>3, <1>4

LEMMA WaitForRoomStep ==
    ASSUME OneAtATime, IInv, NEW w \in Writers, WaitForRoom(w)
    PROVE  IInv'
<1> USE DEF IInv
<1>t. Count \in 0 .. Size - 1
  BY CountIs DEF TypeOK
<1>c. Count' = Count
  BY DEF Count, WaitForRoom, shared
<1>1. TypeOK'
  <2>1. writer_wait = 1 /\ writer_wait' = 0
    BY DEF TypeOK, WaitForRoom
  <2> QED
    BY <2>1 DEF TypeOK, WaitForRoom, Goto, Index, WriterLabel, ReaderLabel,
       Ticket, shared, writer, reader, ghost
<1>2. Alone' /\ LockInv' /\ WakeInv' /\ SleepInv'
  BY DEF TypeOK, Alone, LockInv, InCrit, ReaderCrit, WriterLabel, WakeInv,
     Parked, SleepInv, WaitForRoom, reader, ghost, Goto
<1>3. RoomInv' /\ SupplyInv'
  BY <1>c, <1>t DEF TypeOK, Alone, WakeInv, LockInv, InCrit, ReaderCrit,
     SleepInv, RoomInv, Before, Parked, SupplyInv, WaitForRoom, reader, ghost,
     Goto
<1>4. DataInv' /\ TicketInv'
  BY <1>c DEF TypeOK, DataInv, InOrder, Base, Contents, Alone, TicketInv,
     Before, WaitForRoom, reader, ghost, Goto
<1> QED
  BY <1>1, <1>2, <1>3, <1>4

LEMMA RelockStep ==
    ASSUME OneAtATime, IInv, NEW w \in Writers, Relock(w)
    PROVE  IInv'
<1> USE DEF IInv
<1>t. Count \in 0 .. Size - 1
  BY CountIs DEF TypeOK
<1>c. Count' = Count
  BY DEF Count, Relock, shared
<1>1. TypeOK'
  BY DEF TypeOK, LockInv, WakeInv, SleepInv, InCrit, ReaderCrit, Index,
     WriterLabel, ReaderLabel, Ticket, Relock, reader, ghost, Goto
<1>2. Alone' /\ LockInv' /\ WakeInv' /\ SleepInv'
  BY DEF TypeOK, Alone, LockInv, InCrit, ReaderCrit, WriterLabel, WakeInv,
     Parked, SleepInv, Relock, reader, ghost, Goto
<1>3. RoomInv' /\ SupplyInv'
  BY <1>c, <1>t DEF TypeOK, Alone, WakeInv, LockInv, InCrit, ReaderCrit,
     SleepInv, RoomInv, Before, Parked, SupplyInv, Relock, reader, ghost, Goto
<1>4. DataInv' /\ TicketInv'
  BY <1>c DEF TypeOK, DataInv, InOrder, Base, Contents, Alone, TicketInv,
     Before, Relock, reader, ghost, Goto
<1> QED
  BY <1>1, <1>2, <1>3, <1>4

LEMMA StoreStep ==
    ASSUME OneAtATime, IInv, NEW w \in Writers, Store(w)
    PROVE  IInv'
<1> USE DEF IInv
<1>t. Count \in 0 .. Size - 1
  BY CountIs DEF TypeOK
<1>c. Count' = Count
  BY DEF Count, Store, shared
<1>1. TypeOK'
  BY DEF TypeOK, LockInv, WakeInv, SleepInv, InCrit, ReaderCrit, Index,
     WriterLabel, ReaderLabel, Ticket, Store, reader, ghost, Goto
<1>2. Alone' /\ LockInv' /\ WakeInv' /\ SleepInv'
  BY DEF TypeOK, Alone, LockInv, InCrit, ReaderCrit, WriterLabel, WakeInv,
     Parked, SleepInv, Store, reader, ghost, Goto
<1>3. RoomInv' /\ SupplyInv'
  BY <1>c, <1>t DEF TypeOK, Alone, WakeInv, LockInv, InCrit, ReaderCrit,
     SleepInv, RoomInv, Before, Parked, SupplyInv, Store, reader, ghost, Goto
<1>4. TicketInv'
  BY <1>c DEF TypeOK, Alone, TicketInv, Before, Base, Store, reader, ghost,
     Goto
<1>5. DataInv'
  <2>1. ASSUME NEW i \in 1 .. Count PROVE Contents'[i] = Contents[i]
    BY <1>c, <1>t, QueuedSlot DEF Contents, Store, TypeOK
  <2> QED
    BY <1>c, <2>1 DEF DataInv, InOrder, Base, Store, reader, ghost
<1> QED
  BY <1>1, <1>2, <1>3, <1>4, <1>5

LEMMA AdvanceStep ==
    ASSUME OneAtATime, IInv, NEW w \in Writers, Advance(w)
    PROVE  IInv'
<1> USE DEF IInv
<1>b. Base \in Nat
  BY DEF TypeOK, Base
<1>t. Count \in 0 .. Size - 1
  BY CountIs DEF TypeOK
<1>r. Count < Size - 1
  BY DEF RoomInv, Advance
<1>c. Count' = Count + 1
  BY <1>r, CountGrows DEF RoomInv, Before, Advance, TypeOK
<1>1. TypeOK'
  BY DEF TypeOK, LockInv, WakeInv, SleepInv, InCrit, ReaderCrit, Index,
     WriterLabel, ReaderLabel, Ticket, Advance, reader, ghost, Goto
<1>2. Alone' /\ LockInv' /\ WakeInv' /\ SleepInv'
  BY DEF TypeOK, Alone, LockInv, InCrit, ReaderCrit, WriterLabel, WakeInv,
     Parked, SleepInv, Advance, reader, ghost, Goto
<1>3. RoomInv'
  BY <1>c, <1>t, <1>b DEF TypeOK, Alone, WakeInv, LockInv, InCrit, ReaderCrit,
     SleepInv, RoomInv, Before, Parked, Advance, reader, ghost, Goto
<1>4. SupplyInv'
  BY <1>c, <1>t DEF TypeOK, Alone, LockInv, WakeInv, RoomInv, SupplyInv,
     InCrit, ReaderCrit, Parked, Before, Advance, reader, ghost, Goto
<1>5. DataInv'
  <2>1. ASSUME NEW i \in 1 .. Count PROVE Contents'[i] = Base + i
    <3>1. Contents'[i] = Contents[i]
      BY <1>c, <1>t DEF Contents, Advance
    <3> QED
      BY <3>1 DEF DataInv
  <2>2. Contents'[Count + 1] = data[wrp]
    BY <1>c, <1>t, <1>r, NextSlot DEF Contents, Advance, TypeOK
  <2>3. data[wrp] = Base + (Count + 1)
    BY <1>t, <1>b DEF Advance, TicketInv, Before
  <2>4. Base' = Base
    BY DEF Base, Advance, reader, ghost
  <2>5. ASSUME NEW i \in 1 .. Count + 1 PROVE Contents'[i] = Base + i
    BY <1>t, <2>1, <2>2, <2>3
  <2> QED
    BY <1>c, <2>4, <2>5 DEF DataInv, InOrder, Advance, reader, ghost
<1>6. TicketInv'
  <2>1. Base' = Base
    BY DEF Base, Advance, reader, ghost
  <2>2. issued = Base + Count + 1 /\ word[w] = issued
    BY DEF TicketInv, Advance, Before
  <2>3. issued' = Base' + Count'
    BY <1>b, <1>c, <1>t, <2>1, <2>2 DEF Advance, ghost
  <2>4. \A v \in Writers : wpc'[v] \notin Before
    BY DEF Alone, Advance, Goto, Before, TypeOK
  <2>5. \A v \in Writers :
            wpc'[v] # "idle" => word'[v] = issued' /\ issued' >= 1
    BY DEF Alone, Advance, Goto, TypeOK, TicketInv, ghost
  <2>6. done' \subseteq 1 .. (Base' + Count')
    BY <1>b, <1>c, <1>t, <2>1 DEF TicketInv, Advance, ghost
  <2> QED
    BY <2>3, <2>4, <2>5, <2>6 DEF TicketInv, Before
<1> QED
  BY <1>1, <1>2, <1>3, <1>4, <1>5, <1>6

LEMMA TestWakeStep ==
    ASSUME OneAtATime, IInv, NEW w \in Writers, TestWake(w)
    PROVE  IInv'
<1> USE DEF IInv
<1>t. Count \in 0 .. Size - 1
  BY CountIs DEF TypeOK
<1>c. Count' = Count
  BY DEF Count, TestWake, shared
<1>1. TypeOK'
  BY DEF TypeOK, LockInv, WakeInv, SleepInv, InCrit, ReaderCrit, Index,
     WriterLabel, ReaderLabel, Ticket, TestWake, shared, reader, ghost, Goto,
     MustWake
<1>2. Alone' /\ LockInv' /\ WakeInv' /\ SleepInv'
  BY DEF TypeOK, Alone, LockInv, InCrit, ReaderCrit, WriterLabel, WakeInv,
     Parked, SleepInv, TestWake, shared, reader, ghost, Goto, MustWake
<1>3. RoomInv' /\ SupplyInv'
  BY <1>c, <1>t, PipeAssumption, CountIs DEF TypeOK, Alone, WakeInv, LockInv,
     InCrit, ReaderCrit, SleepInv, RoomInv, Before, Parked, SupplyInv,
     TestWake, shared, reader, ghost, Goto, MustWake
<1>4. DataInv' /\ TicketInv'
  BY <1>c DEF TypeOK, DataInv, InOrder, Base, Contents, Alone, TicketInv,
     Before, TestWake, shared, reader, ghost, Goto, MustWake
<1> QED
  BY <1>1, <1>2, <1>3, <1>4

LEMMA ClearReaderWaitingStep ==
    ASSUME OneAtATime, IInv, NEW w \in Writers, ClearReaderWaiting(w)
    PROVE  IInv'
<1> USE DEF IInv
<1>t. Count \in 0 .. Size - 1
  BY CountIs DEF TypeOK
<1>c. Count' = Count
  BY DEF Count, ClearReaderWaiting, shared
<1>1. TypeOK'
  BY DEF TypeOK, LockInv, WakeInv, SleepInv, InCrit, ReaderCrit, Index,
     WriterLabel, ReaderLabel, Ticket, ClearReaderWaiting, reader, ghost, Goto
<1>2. Alone' /\ LockInv' /\ WakeInv' /\ SleepInv'
  BY DEF TypeOK, Alone, LockInv, InCrit, ReaderCrit, WriterLabel, WakeInv,
     Parked, SleepInv, ClearReaderWaiting, reader, ghost, Goto
<1>3. RoomInv' /\ SupplyInv'
  BY <1>c, <1>t DEF TypeOK, Alone, WakeInv, LockInv, InCrit, ReaderCrit,
     SleepInv, RoomInv, Before, Parked, SupplyInv, ClearReaderWaiting, reader,
     ghost, Goto
<1>4. DataInv' /\ TicketInv'
  BY <1>c DEF TypeOK, DataInv, InOrder, Base, Contents, Alone, TicketInv,
     Before, ClearReaderWaiting, reader, ghost, Goto
<1> QED
  BY <1>1, <1>2, <1>3, <1>4

LEMMA PostReaderStep ==
    ASSUME OneAtATime, IInv, NEW w \in Writers, PostReader(w)
    PROVE  IInv'
<1> USE DEF IInv
<1>t. Count \in 0 .. Size - 1
  BY CountIs DEF TypeOK
<1>c. Count' = Count
  BY DEF Count, PostReader, shared
<1>1. TypeOK'
  <2>1. reader_wait = 0 /\ reader_wait' = 1
    BY DEF WakeInv, PostReader
  <2> QED
    BY <2>1 DEF TypeOK, PostReader, Goto, Index, WriterLabel, ReaderLabel,
       Ticket, shared, writer, reader, ghost
<1>2. Alone' /\ LockInv' /\ WakeInv' /\ SleepInv'
  BY ZenonT(60) DEF TypeOK, Alone, LockInv, InCrit, ReaderCrit, WriterLabel, WakeInv,
     Parked, SleepInv, PostReader, reader, ghost, Goto
<1>3. RoomInv' /\ SupplyInv'
  BY <1>c, <1>t DEF TypeOK, Alone, WakeInv, LockInv, InCrit, ReaderCrit,
     SleepInv, RoomInv, Before, Parked, SupplyInv, PostReader, reader, ghost,
     Goto
<1>4. DataInv' /\ TicketInv'
  BY <1>c DEF TypeOK, DataInv, InOrder, Base, Contents, Alone, TicketInv,
     Before, PostReader, reader, ghost, Goto
<1> QED
  BY <1>1, <1>2, <1>3, <1>4

LEMMA ReturnStep ==
    ASSUME OneAtATime, IInv, NEW w \in Writers, Return(w)
    PROVE  IInv'
<1> USE DEF IInv
<1>b. Base \in Nat
  BY DEF TypeOK, Base
<1>t. Count \in 0 .. Size - 1
  BY CountIs DEF TypeOK
<1>c. Count' = Count
  BY DEF Count, Return, shared
<1>1. TypeOK'
  <2>1. lock' \in {0, 1} /\ word[w] \in Ticket
    BY DEF TypeOK, LockInv, InCrit, TicketInv, Return, Ticket
  <2> QED
    BY <2>1 DEF TypeOK, Return, Goto, Index, WriterLabel, ReaderLabel, Ticket,
       shared, writer, reader, ghost
<1>2. Alone' /\ WakeInv' /\ SleepInv'
  BY DEF TypeOK, Alone, LockInv, WakeInv, InCrit, ReaderCrit, Parked,
     WriterLabel, SleepInv, Return, reader, Goto
<1>3. LockInv'
  <2>1. ASSUME NEW v \in Writers PROVE wpc'[v] = "idle" /\ ~locked'[v]
    BY DEF Alone, Return, Goto, TypeOK, LockInv
  <2>2. ReaderCrit => ~locked[w]
    BY DEF LockInv, InCrit
  <2> QED
    BY <2>1, <2>2 DEF LockInv, InCrit, ReaderCrit, Return, reader
<1>4. RoomInv' /\ SupplyInv'
  BY <1>c, <1>t DEF TypeOK, Alone, WakeInv, LockInv, InCrit, ReaderCrit,
     SleepInv, RoomInv, Before, Parked, SupplyInv, Return, reader, Goto
<1>5. DataInv'
  BY <1>c DEF TypeOK, DataInv, InOrder, Base, Contents, Return, reader, Goto
<1>6. TicketInv'
  <2>1. ASSUME NEW v \in Writers PROVE wpc'[v] = "idle" /\ wpc[v] \notin Before
    BY DEF Alone, Return, Goto, TypeOK, Before
  <2>2. issued = Base + Count /\ word[w] = issued /\ issued >= 1
    BY <2>1 DEF TicketInv, Return
  <2>3. Base' = Base
    BY DEF Base, Return, reader, ghost
  <2>4. word[w] \in 1 .. (Base + Count)
    BY <1>b, <1>t, <2>2
  <2>5. done' \subseteq 1 .. (Base' + Count')
    BY <1>c, <2>3, <2>4 DEF TicketInv, Return
  <2> QED
    BY <1>c, <2>1, <2>2, <2>3, <2>5 DEF TicketInv, Return, Before
<1> QED
  BY <1>1, <1>2, <1>3, <1>4, <1>5, <1>6

LEMMA CallStep ==
    ASSUME OneAtATime, IInv, NEW w \in Writers, NEW nb \in BOOLEAN, Call(w, nb)
    PROVE  IInv'
<1> USE DEF IInv
<1>b. Base \in Nat
  BY DEF TypeOK, Base
<1>t. Count \in 0 .. Size - 1
  BY CountIs DEF TypeOK
<1>c. Count' = Count
  BY DEF Count, Call, shared
<1>1. TypeOK'
  <2>1. issued + 1 \in Ticket /\ issued + 1 \in 0 .. MaxWrites
        /\ Succ(wrp) \in Index
    BY SuccIndex, PipeAssumption DEF TypeOK, Call, Ticket
  <2> QED
    BY <2>1 DEF TypeOK, Call, Goto, Index, WriterLabel, ReaderLabel, Ticket,
       shared, writer, reader, ghost
<1>2. Alone' /\ LockInv' /\ WakeInv' /\ SleepInv'
  BY DEF TypeOK, Alone, LockInv, InCrit, ReaderCrit, WriterLabel, WakeInv,
     Parked, SleepInv, Call, shared, reader, Goto
<1>3. RoomInv' /\ SupplyInv'
  BY <1>c, <1>t DEF TypeOK, Alone, WakeInv, LockInv, InCrit, ReaderCrit,
     SleepInv, RoomInv, Before, Parked, SupplyInv, Call, shared, reader, Goto
<1>4. DataInv'
  BY <1>c DEF TypeOK, DataInv, InOrder, Base, Contents, Call, shared, reader,
     Goto
<1>5. TicketInv'
  <2>1. Base' = Base /\ issued' = issued + 1
    BY DEF Base, Call, reader
  <2>2. \A v \in Writers : wpc[v] = "idle"
    BY DEF Call
  <2>3. issued = Base + Count
    BY <2>2 DEF TicketInv, Before
  <2>4. \A v \in Writers : v # w => wpc'[v] = "idle"
    BY <2>2 DEF Call, Goto, TypeOK
  <2>5. wpc'[w] = "test" /\ word'[w] = issued'
    BY <2>1 DEF Call, Goto, TypeOK
  <2>6. done' \subseteq 1 .. (Base' + Count')
    BY <1>c, <2>1 DEF TicketInv, Call
  <2> QED
    BY <1>b, <1>c, <1>t, <2>1, <2>3, <2>4, <2>5, <2>6 DEF TicketInv, Before
<1> QED
  BY <1>1, <1>2, <1>3, <1>4, <1>5

LEMMA ReaderLockStep ==
    ASSUME OneAtATime, IInv, ReaderLock
    PROVE  IInv'
<1> USE DEF IInv
<1>t. Count \in 0 .. Size - 1
  BY CountIs DEF TypeOK
<1>c. Count' = Count
  BY DEF Count, ReaderLock, shared
<1>1. TypeOK'
  BY DEF TypeOK, LockInv, WakeInv, SleepInv, InCrit, ReaderCrit, Index,
     WriterLabel, ReaderLabel, Ticket, ReaderLock, writer, ghost
<1>2. Alone' /\ LockInv' /\ WakeInv' /\ SleepInv'
  BY DEF TypeOK, Alone, LockInv, InCrit, ReaderCrit, WriterLabel, WakeInv,
     Parked, SleepInv, ReaderLock, writer, ghost
<1>3. RoomInv' /\ SupplyInv'
  BY <1>c, <1>t DEF TypeOK, Alone, WakeInv, LockInv, InCrit, ReaderCrit,
     SleepInv, RoomInv, Before, Parked, SupplyInv, ReaderLock, writer, ghost
<1>4. DataInv' /\ TicketInv'
  BY <1>c DEF TypeOK, DataInv, InOrder, Base, Contents, Alone, TicketInv,
     Before, ReaderLock, writer, ghost
<1> QED
  BY <1>1, <1>2, <1>3, <1>4

LEMMA FindWordStep ==
    ASSUME OneAtATime, IInv, FindWord
    PROVE  IInv'
<1> USE DEF IInv
<1>t. Count \in 0 .. Size - 1
  BY CountIs DEF TypeOK
<1>c. Count' = Count
  BY DEF Count, FindWord, shared
<1>1. TypeOK'
  BY DEF TypeOK, LockInv, WakeInv, SleepInv, InCrit, ReaderCrit, Index,
     WriterLabel, ReaderLabel, Ticket, FindWord, shared, writer, ghost
<1>2. Alone' /\ LockInv' /\ WakeInv' /\ SleepInv'
  BY DEF TypeOK, Alone, LockInv, InCrit, ReaderCrit, WriterLabel, WakeInv,
     Parked, SleepInv, FindWord, shared, writer, ghost
<1>3. RoomInv' /\ SupplyInv'
  BY <1>c, <1>t, CountIs DEF TypeOK, Alone, WakeInv, LockInv, InCrit,
     ReaderCrit, SleepInv, RoomInv, Before, Parked, SupplyInv, FindWord,
     shared, writer, ghost
<1>4. DataInv' /\ TicketInv'
  BY <1>c DEF TypeOK, DataInv, InOrder, Base, Contents, Alone, TicketInv,
     Before, FindWord, shared, writer, ghost
<1> QED
  BY <1>1, <1>2, <1>3, <1>4

LEMMA FindEmptyStep ==
    ASSUME OneAtATime, IInv, FindEmpty
    PROVE  IInv'
<1> USE DEF IInv
<1>t. Count \in 0 .. Size - 1
  BY CountIs DEF TypeOK
<1>c. Count' = Count
  BY DEF Count, FindEmpty, shared
<1>1. TypeOK'
  BY DEF TypeOK, LockInv, WakeInv, SleepInv, InCrit, ReaderCrit, Index,
     WriterLabel, ReaderLabel, Ticket, FindEmpty, writer, ghost
<1>2. Alone' /\ LockInv' /\ WakeInv' /\ SleepInv'
  BY DEF TypeOK, Alone, LockInv, InCrit, ReaderCrit, WriterLabel, WakeInv,
     Parked, SleepInv, FindEmpty, writer, ghost
<1>3. RoomInv' /\ SupplyInv'
  BY <1>c, <1>t, CountIs, PipeAssumption DEF TypeOK, Alone, WakeInv, LockInv,
     InCrit, ReaderCrit, SleepInv, RoomInv, Before, Parked, SupplyInv,
     FindEmpty, writer, ghost
<1>4. DataInv' /\ TicketInv'
  BY <1>c DEF TypeOK, DataInv, InOrder, Base, Contents, Alone, TicketInv,
     Before, FindEmpty, writer, ghost
<1> QED
  BY <1>1, <1>2, <1>3, <1>4

LEMMA UnlockEmptyStep ==
    ASSUME OneAtATime, IInv, UnlockEmpty
    PROVE  IInv'
<1> USE DEF IInv
<1>t. Count \in 0 .. Size - 1
  BY CountIs DEF TypeOK
<1>c. Count' = Count
  BY DEF Count, UnlockEmpty, shared
<1>1. TypeOK'
  <2>1. lock = 0 /\ lock' = 1
    BY DEF UnlockEmpty, LockInv, ReaderCrit
  <2> QED
    BY <2>1 DEF TypeOK, UnlockEmpty, Index, WriterLabel, ReaderLabel, Ticket,
       shared, writer, reader, ghost
<1>2. Alone' /\ LockInv' /\ WakeInv' /\ SleepInv'
  BY DEF TypeOK, Alone, LockInv, InCrit, ReaderCrit, WriterLabel, WakeInv,
     Parked, SleepInv, UnlockEmpty, writer, ghost
<1>3. RoomInv' /\ SupplyInv'
  BY <1>c, <1>t DEF TypeOK, Alone, WakeInv, LockInv, InCrit, ReaderCrit,
     SleepInv, RoomInv, Before, Parked, SupplyInv, UnlockEmpty, writer, ghost
<1>4. DataInv' /\ TicketInv'
  BY <1>c DEF TypeOK, DataInv, InOrder, Base, Contents, Alone, TicketInv,
     Before, UnlockEmpty, writer, ghost
<1> QED
  BY <1>1, <1>2, <1>3, <1>4

LEMMA WaitForWordStep ==
    ASSUME OneAtATime, IInv, WaitForWord
    PROVE  IInv'
<1> USE DEF IInv
<1>t. Count \in 0 .. Size - 1
  BY CountIs DEF TypeOK
<1>c. Count' = Count
  BY DEF Count, WaitForWord, shared
<1>1. TypeOK'
  <2>1. reader_wait = 1 /\ reader_wait' = 0
    BY DEF TypeOK, WaitForWord
  <2> QED
    BY <2>1 DEF TypeOK, WaitForWord, Index, WriterLabel, ReaderLabel, Ticket,
       shared, writer, reader, ghost
<1>2. Alone' /\ LockInv' /\ WakeInv' /\ SleepInv'
  BY DEF TypeOK, Alone, LockInv, InCrit, ReaderCrit, WriterLabel, WakeInv,
     Parked, SleepInv, WaitForWord, writer, ghost
<1>3. RoomInv' /\ SupplyInv'
  BY <1>c, <1>t DEF TypeOK, Alone, WakeInv, LockInv, InCrit, ReaderCrit,
     SleepInv, RoomInv, Before, Parked, SupplyInv, WaitForWord, writer, ghost
<1>4. DataInv' /\ TicketInv'
  BY <1>c DEF TypeOK, DataInv, InOrder, Base, Contents, Alone, TicketInv,
     Before, WaitForWord, writer, ghost
<1> QED
  BY <1>1, <1>2, <1>3, <1>4

LEMMA ReaderRelockStep ==
    ASSUME OneAtATime, IInv, ReaderRelock
    PROVE  IInv'
<1> USE DEF IInv
<1>t. Count \in 0 .. Size - 1
  BY CountIs DEF TypeOK
<1>c. Count' = Count
  BY DEF Count, ReaderRelock, shared
<1>1. TypeOK'
  BY DEF TypeOK, LockInv, WakeInv, SleepInv, InCrit, ReaderCrit, Index,
     WriterLabel, ReaderLabel, Ticket, ReaderRelock, writer, ghost
<1>2. Alone' /\ LockInv' /\ WakeInv' /\ SleepInv'
  BY DEF TypeOK, Alone, LockInv, InCrit, ReaderCrit, WriterLabel, WakeInv,
     Parked, SleepInv, ReaderRelock, writer, ghost
<1>3. RoomInv' /\ SupplyInv'
  BY <1>c, <1>t DEF TypeOK, Alone, WakeInv, LockInv, InCrit, ReaderCrit,
     SleepInv, RoomInv, Before, Parked, SupplyInv, ReaderRelock, writer, ghost
<1>4. DataInv' /\ TicketInv'
  BY <1>c DEF TypeOK, DataInv, InOrder, Base, Contents, Alone, TicketInv,
     Before, ReaderRelock, writer, ghost
<1> QED
  BY <1>1, <1>2, <1>3, <1>4

LEMMA TakeWordStep ==
    ASSUME OneAtATime, IInv, TakeWord
    PROVE  IInv'
<1> USE DEF IInv
<1>t. Count \in 0 .. Size - 1
  BY CountIs DEF TypeOK
<1>c. Count' = Count
  BY DEF Count, TakeWord, shared
<1>1. TypeOK'
  BY DEF TypeOK, LockInv, WakeInv, SleepInv, InCrit, ReaderCrit, Index,
     WriterLabel, ReaderLabel, Ticket, TakeWord, shared, writer, ghost
<1>2. Alone' /\ LockInv' /\ WakeInv' /\ SleepInv'
  BY DEF TypeOK, Alone, LockInv, InCrit, ReaderCrit, WriterLabel, WakeInv,
     Parked, SleepInv, TakeWord, shared, writer, ghost
<1>3. RoomInv' /\ SupplyInv'
  BY <1>c, <1>t DEF TypeOK, Alone, WakeInv, LockInv, InCrit, ReaderCrit,
     SleepInv, RoomInv, Before, Parked, SupplyInv, TakeWord, shared, writer,
     ghost
<1>4. TicketInv'
  BY <1>c DEF TypeOK, Alone, TicketInv, Before, Base, TakeWord, shared, writer,
     ghost
<1>5. DataInv'
  <2>1. Count >= 1
    BY DEF SupplyInv, TakeWord
  <2>2. Contents[1] = data[rdp]
    BY <1>t, <2>1, FirstSlot DEF Contents, TypeOK
  <2>3. Contents' = Contents /\ Base' = Base /\ Base = Len(rcvd)
    BY <1>c DEF Contents, Base, TakeWord, shared, ghost
  <2>4. got' = Len(rcvd') + 1
    BY <1>t, <2>1, <2>2, <2>3 DEF DataInv, TakeWord, ghost
  <2> QED
    BY <1>c, <2>3, <2>4 DEF DataInv, InOrder, TakeWord, ghost
<1> QED
  BY <1>1, <1>2, <1>3, <1>4, <1>5

LEMMA ReaderAdvanceStep ==
    ASSUME OneAtATime, IInv, ReaderAdvance
    PROVE  IInv'
<1> USE DEF IInv
<1>b. Base \in Nat
  BY DEF TypeOK, Base
<1>t. Count \in 0 .. Size - 1
  BY CountIs DEF TypeOK
<1>r. Count >= 1
  BY DEF SupplyInv, ReaderAdvance
<1>c. Count' = Count - 1
  BY <1>r, CountShrinks DEF ReaderAdvance, TypeOK
<1>1. TypeOK'
  BY SuccIndex DEF TypeOK, LockInv, WakeInv, SleepInv, InCrit, ReaderCrit,
     Index, WriterLabel, ReaderLabel, Ticket, ReaderAdvance, writer, ghost
<1>2. Alone' /\ LockInv' /\ WakeInv' /\ SleepInv'
  BY DEF TypeOK, Alone, LockInv, InCrit, ReaderCrit, WriterLabel, WakeInv,
     Parked, SleepInv, ReaderAdvance, writer, ghost
<1>3. RoomInv' /\ SupplyInv'
  BY <1>c, <1>t, PipeAssumption, <1>r DEF TypeOK, Alone, WakeInv, LockInv,
     InCrit, ReaderCrit, SleepInv, RoomInv, Before, Parked, SupplyInv,
     ReaderAdvance, writer, ghost
<1>4. DataInv'
  <2>1. ASSUME NEW i \in 1 .. Count' PROVE Contents'[i] = Contents[i + 1]
    BY <1>c, <1>t, ShiftedSlot, PipeAssumption DEF Contents, ReaderAdvance,
       TypeOK
  <2>2. Base' = Base + 1
    BY DEF Base, ReaderAdvance, reader, ghost
  <2>3. ASSUME NEW i \in 1 .. Count' PROVE Contents'[i] = Base' + i
    BY <1>b, <1>c, <1>t, <2>1, <2>2 DEF DataInv
  <2> QED
    BY <2>3 DEF DataInv, InOrder, ReaderAdvance, writer, ghost
<1>5. TicketInv'
  <2>1. Base' = Base + 1
    BY DEF Base, ReaderAdvance, reader, ghost
  <2>2. Base' + Count' = Base + Count
    BY <1>b, <1>c, <1>t, <2>1
  <2> QED
    BY <1>b, <1>c, <1>t, <2>1, <2>2 DEF TicketInv, Before, ReaderAdvance,
       writer, ghost
<1> QED
  BY <1>1, <1>2, <1>3, <1>4, <1>5

LEMMA WakeWriterStep ==
    ASSUME OneAtATime, IInv, WakeWriter
    PROVE  IInv'
<1> USE DEF IInv
<1>t. Count \in 0 .. Size - 1
  BY CountIs DEF TypeOK
<1>c. Count' = Count
  BY DEF Count, WakeWriter, shared
<1>1. TypeOK'
  <2>1. writer_wait' \in {0, 1}
    BY DEF TypeOK, WakeWriter, SleepInv
  <2> QED
    BY <2>1 DEF TypeOK, WakeWriter, Index, WriterLabel, ReaderLabel, Ticket,
       shared, writer, reader, ghost
<1>2. Alone' /\ LockInv' /\ WakeInv' /\ SleepInv'
  BY DEF TypeOK, Alone, LockInv, InCrit, ReaderCrit, WriterLabel, WakeInv,
     Parked, SleepInv, WakeWriter, writer, ghost
<1>3. RoomInv' /\ SupplyInv'
  BY <1>c, <1>t DEF TypeOK, Alone, WakeInv, LockInv, InCrit, ReaderCrit,
     SleepInv, RoomInv, Before, Parked, SupplyInv, WakeWriter, writer, ghost
<1>4. DataInv' /\ TicketInv'
  BY <1>c DEF TypeOK, DataInv, InOrder, Base, Contents, Alone, TicketInv,
     Before, WakeWriter, writer, ghost
<1> QED
  BY <1>1, <1>2, <1>3, <1>4

LEMMA ReaderReturnStep ==
    ASSUME OneAtATime, IInv, ReaderReturn
    PROVE  IInv'
<1> USE DEF IInv
<1>t. Count \in 0 .. Size - 1
  BY CountIs DEF TypeOK
<1>c. Count' = Count
  BY DEF Count, ReaderReturn, shared
<1>1. TypeOK'
  <2>1. lock' = 1 /\ rcvd' \in Seq(0 .. MaxWrites)
    BY DEF ReaderReturn, LockInv, ReaderCrit, TypeOK
  <2> QED
    BY <2>1 DEF TypeOK, ReaderReturn, Index, WriterLabel, ReaderLabel, Ticket,
       shared, writer, reader, ghost
<1>2. Alone' /\ LockInv' /\ WakeInv' /\ SleepInv'
  BY DEF TypeOK, Alone, LockInv, InCrit, ReaderCrit, WriterLabel, WakeInv,
     Parked, SleepInv, ReaderReturn, writer
<1>3. RoomInv' /\ SupplyInv'
  BY <1>c, <1>t DEF TypeOK, Alone, WakeInv, LockInv, InCrit, ReaderCrit,
     SleepInv, RoomInv, Before, Parked, SupplyInv, ReaderReturn, writer
<1>4. DataInv' /\ TicketInv'
  BY <1>c DEF TypeOK, DataInv, InOrder, Base, Contents, Alone, TicketInv,
     Before, ReaderReturn, writer
<1> QED
  BY <1>1, <1>2, <1>3, <1>4
----------------------------------------------------------------------------
(* The theorems. *)

LEMMA InitInv == PipeInit => IInv
<1> SUFFICES ASSUME PipeInit PROVE IInv
  OBVIOUS
<1>1. TypeOK
  <2>1. 0 \in Index /\ 0 \in 0 .. MaxWrites
    BY PipeAssumption DEF Index
  <2>2. rcvd \in Seq(0 .. MaxWrites)
    BY DEF PipeInit
  <2> QED
    BY <2>1, <2>2 DEF PipeInit, TypeOK, WriterLabel, ReaderLabel
<1>2. Count = 0
  BY <1>1, CountIs DEF PipeInit, TypeOK
<1>3. Alone /\ LockInv /\ WakeInv /\ SleepInv
  BY DEF PipeInit, Alone, LockInv, InCrit, ReaderCrit, WakeInv, Parked, SleepInv
<1>4. RoomInv /\ SupplyInv
  BY <1>2, PipeAssumption DEF PipeInit, RoomInv, SupplyInv, Before
<1>5. DataInv /\ TicketInv
  BY <1>2 DEF PipeInit, DataInv, TicketInv, Base, Before, InOrder
<1> QED
  BY <1>1, <1>3, <1>4, <1>5 DEF IInv

LEMMA StepInv ==
    ASSUME OneAtATime, IInv, [PipeNext]_vars
    PROVE  IInv'
<1>1. ASSUME NEW w \in Writers, WriterStep(w) PROVE IInv'
  BY <1>1, TestReaderStep, LockStep, FindRoomStep, FindFullStep, UnlockFullStep,
     WaitForRoomStep, RelockStep, StoreStep, AdvanceStep, TestWakeStep,
     ClearReaderWaitingStep, PostReaderStep, ReturnStep DEF WriterStep
<1>2. ASSUME NEW w \in Writers, NEW nb \in BOOLEAN, Call(w, nb) PROVE IInv'
  BY <1>2, CallStep
<1>3. CASE ReaderStep
  BY <1>3, ReaderLockStep, FindWordStep, FindEmptyStep, UnlockEmptyStep,
     WaitForWordStep, ReaderRelockStep, TakeWordStep, ReaderAdvanceStep,
     WakeWriterStep, ReaderReturnStep DEF ReaderStep
<1>4. CASE UNCHANGED vars
  <2> USE <1>4 DEF vars, shared, writer, reader, ghost, IInv
  <2>1. TypeOK' /\ Alone' /\ LockInv' /\ WakeInv' /\ SleepInv'
    BY DEF TypeOK, Alone, LockInv, InCrit, ReaderCrit, WakeInv, Parked, SleepInv
  <2>2. Count' = Count /\ Contents' = Contents /\ Base' = Base
    BY DEF Count, Contents, Base
  <2>3. RoomInv' /\ SupplyInv' /\ DataInv' /\ TicketInv'
    BY <2>2 DEF RoomInv, SupplyInv, DataInv, InOrder, TicketInv, Before
  <2> QED
    BY <2>1, <2>3
<1> QED
  BY <1>1, <1>2, <1>3, <1>4 DEF PipeNext, Quiet

\* The inductive invariant holds of every behaviour of the pipe whose callers
\* keep the discipline of native2amiga.cpp.
THEOREM Invariance == ASSUME OneAtATime PROVE PipeSpec => []IInv
<1>1. PipeInit => IInv
  BY InitInv
<1>2. IInv /\ [PipeNext]_vars => IInv'
  BY OneAtATime, StepInv
<1> QED
  BY <1>1, <1>2, PTL DEF PipeSpec

\* commpipe.h: the indices stay in the ring, the lock is binary and a wake-up
\* semaphore never counts two posts.
THEOREM Typing == ASSUME OneAtATime PROVE PipeSpec => []TypeOK
<1>1. IInv => TypeOK
  BY DEF IInv
<1> QED
  BY <1>1, Invariance, PTL

\* write_comm_pipe_pt, commpipe.h:72-78: the stores without the lock are safe.
THEOREM FastPath == ASSUME OneAtATime PROVE PipeSpec => []FastPathSafe
<1>1. IInv => FastPathSafe
  BY DEF IInv, WakeInv, LockInv, Parked, FastPathSafe
<1> QED
  BY <1>1, Invariance, PTL

\* read_comm_pipe_pt_blocking returns the words in the order of the writes.
THEOREM Order == ASSUME OneAtATime PROVE PipeSpec => []InOrder
<1>1. IInv => InOrder
  BY DEF IInv, DataInv
<1> QED
  BY <1>1, Invariance, PTL

\* No write call overwrites a word the reader has not taken.
THEOREM Preservation == ASSUME OneAtATime PROVE PipeSpec => []NothingLost
<1>1. ASSUME IInv, NEW t \in done
      PROVE  \/ \E i \in 1 .. Count : Contents[i] = t
             \/ \E i \in 1 .. Len(Taken) : Taken[i] = t
  <2>1. Base \in Nat /\ Count \in Nat /\ rcvd \in Seq(0 .. MaxWrites)
    BY <1>1, CountIs, PipeAssumption DEF IInv, TypeOK, Base
  <2>2. t \in 1 .. (Base + Count)
    BY <1>1 DEF IInv, TicketInv
  <2>3. CASE t > Base
    <3>1. t - Base \in 1 .. Count /\ Contents[t - Base] = t
      BY <1>1, <2>1, <2>2, <2>3 DEF IInv, DataInv
    <3> QED
      BY <3>1
  <2>4. CASE t <= Base
    <3>1. Len(Taken) = Base /\ \A i \in 1 .. Base : Taken[i] = i
      BY <1>1, <2>1 DEF IInv, TypeOK, DataInv, InOrder, Base, Taken
    <3> QED
      BY <2>1, <2>2, <2>4, <3>1
  <2> QED
    BY <2>1, <2>2, <2>3, <2>4
<1>2. IInv => NothingLost
  BY <1>1 DEF NothingLost
<1> QED
  BY <1>2, Invariance, PTL

----------------------------------------------------------------------------
(* The pipe implements BoundedFifo. *)

\* What is in the ring and what was taken, as sequences.
Numbered ==
    /\ Contents \in Seq(Nat) /\ Len(Contents) = Count
    /\ \A i \in 1 .. Count : Contents[i] = Base + i
    /\ Taken \in Seq(Nat) /\ Len(Taken) = Base
    /\ \A i \in 1 .. Base : Taken[i] = i
    /\ Base \in Nat /\ Count \in 0 .. Size - 1

LEMMA RingIsNumbered == IInv => Numbered
<1> SUFFICES ASSUME IInv PROVE Numbered
  OBVIOUS
<1>1. Base \in Nat /\ Count \in 0 .. Size - 1 /\ rcvd \in Seq(0 .. MaxWrites)
  BY CountIs DEF IInv, TypeOK, Base
<1>2. \A i \in 1 .. Count : Contents[i] = Base + i
  BY DEF IInv, DataInv
<1>3. Contents \in Seq(Nat) /\ Len(Contents) = Count
  <2>1. Contents \in [1 .. Count -> Nat]
    BY <1>1, <1>2 DEF Contents
  <2> QED
    BY <1>1, <2>1, PipeAssumption
<1>4. rcvd \in Seq(Nat) /\ got \in Nat
  BY <1>1, SeqMonotonic, PipeAssumption DEF IInv, TypeOK
<1>5. Taken \in Seq(Nat) /\ Len(Taken) = Base
  BY <1>4 DEF Taken, Base
<1>6. \A i \in 1 .. Base : Taken[i] = i
  BY <1>4 DEF IInv, DataInv, InOrder, Base, Taken
<1> QED
  BY <1>1, <1>2, <1>3, <1>5, <1>6 DEF Numbered

\* Moving wrp puts the word of the call at the end of the queue.
LEMMA AdvancePuts ==
    ASSUME OneAtATime, IInv, NEW w \in Writers, Advance(w)
    PROVE  Fifo!Put(word[w]) /\ word[w] \in Ticket
<1>1. Numbered /\ Numbered'
  <2>1. IInv'
    BY AdvanceStep
  <2> QED
    BY <2>1, RingIsNumbered, PTL
<1>2. Count < Size - 1
  BY DEF IInv, RoomInv, Advance
<1>3. Base' = Base /\ Taken' = Taken
  BY DEF Base, Taken, Advance, reader, ghost
<1>4. word[w] = Base + Count + 1 /\ word[w] \in Ticket
  BY <1>1 DEF IInv, TypeOK, Ticket, TicketInv, Before, Advance, Numbered
<1>5. Count' = Count + 1
  BY <1>2, CountGrows DEF IInv, TypeOK, RoomInv, Before, Advance
<1>6. Contents' = Append(Contents, word[w])
  <2>1. /\ Append(Contents, word[w]) \in Seq(Nat)
        /\ Len(Append(Contents, word[w])) = Count + 1
    BY <1>1, <1>4 DEF Numbered, Ticket
  <2>2. ASSUME NEW i \in 1 .. Count + 1
        PROVE  Append(Contents, word[w])[i] = Base + i
    <3>1. CASE i = Count + 1
      BY <1>1, <1>4, <3>1 DEF Numbered, Ticket
    <3>2. CASE i \in 1 .. Count
      BY <1>1, <1>4, <3>2 DEF Numbered, Ticket
    <3> QED
      BY <1>1, <3>1, <3>2 DEF Numbered
  <2>3. /\ Contents' \in Seq(Nat) /\ Len(Contents') = Count + 1
        /\ \A i \in 1 .. Count + 1 : Contents'[i] = Base + i
    BY <1>1, <1>3, <1>5 DEF Numbered
  <2> QED
    BY <2>1, <2>2, <2>3, SeqEqual
<1> QED
  BY <1>1, <1>2, <1>3, <1>4, <1>6 DEF Fifo!Put, Numbered

\* Moving rdp takes the word at the head of the queue.
LEMMA ReaderAdvanceTakes ==
    ASSUME OneAtATime, IInv, ReaderAdvance
    PROVE  Fifo!Take
<1>1. Numbered /\ Numbered'
  <2>1. IInv'
    BY ReaderAdvanceStep
  <2> QED
    BY <2>1, RingIsNumbered, PTL
<1>2. Count >= 1
  BY DEF IInv, SupplyInv, ReaderAdvance
<1>3. Count' = Count - 1 /\ Base' = Base + 1
  BY <1>2, CountShrinks DEF IInv, TypeOK, Base, ReaderAdvance, ghost
<1>4. Contents # <<>> /\ Head(Contents) = Base + 1
  BY <1>1, <1>2 DEF Numbered
<1>5. Taken' = Append(Taken, Head(Contents))
  <2>1. Taken = rcvd /\ Taken' = Append(rcvd, got)
    BY DEF Taken, ReaderAdvance, ghost
  <2>2. got = Base + 1
    BY DEF IInv, DataInv, Base, ReaderAdvance
  <2> QED
    BY <1>4, <2>1, <2>2
<1>6. Contents' = Tail(Contents)
  <2>1. /\ Tail(Contents) \in Seq(Nat) /\ Len(Tail(Contents)) = Count - 1
        /\ \A i \in 1 .. Count - 1 : Tail(Contents)[i] = Base + 1 + i
    BY <1>1, <1>2, <1>4 DEF Numbered
  <2>2. /\ Contents' \in Seq(Nat) /\ Len(Contents') = Count - 1
        /\ \A i \in 1 .. Count - 1 : Contents'[i] = Base + 1 + i
    BY <1>1, <1>3 DEF Numbered
  <2> QED
    BY <2>1, <2>2, SeqEqual
<1> QED
  BY <1>4, <1>5, <1>6 DEF Fifo!Take

\* The store itself goes to the free slot, so it changes no queued word.
LEMMA StoreStutters ==
    ASSUME IInv, NEW w \in Writers, Store(w)
    PROVE  Contents' = Contents /\ Taken' = Taken
<1>1. Count' = Count
  BY DEF Count, Store
<1>2. ASSUME NEW i \in 1 .. Count PROVE data'[(rdp + i - 1) % Size]
                                          = data[(rdp + i - 1) % Size]
  BY QueuedSlot DEF IInv, TypeOK, Store
<1>3. Contents' = Contents
  BY <1>1, <1>2 DEF Contents, Store
<1>4. Taken' = Taken
  BY DEF Taken, Store, reader, ghost
<1> QED
  BY <1>3, <1>4

\* Every other step leaves the ring and what was taken alone; the return of
\* the read call hands over the word that left the ring before.
LEMMA OthersStutter ==
    ASSUME IInv, PipeNext,
           ~ \E w \in Writers : Store(w) \/ Advance(w),
           ~ ReaderAdvance
    PROVE  Contents' = Contents /\ Taken' = Taken
<1> USE DEF shared, reader, ghost, Count, Contents, Taken
<1>1. ASSUME NEW w \in Writers, WriterStep(w)
      PROVE  Contents' = Contents /\ Taken' = Taken
  BY <1>1 DEF WriterStep, TestReader, Lock, FindRoom, FindFull, UnlockFull,
     WaitForRoom, Relock, TestWake, ClearReaderWaiting, PostReader, Return
<1>2. ASSUME NEW w \in Writers, NEW nb \in BOOLEAN, Call(w, nb)
      PROVE  Contents' = Contents /\ Taken' = Taken
  BY <1>2 DEF Call
<1>3. CASE ReaderStep
  BY <1>3 DEF ReaderStep, ReaderLock, FindWord, FindEmpty, UnlockEmpty,
     WaitForWord, ReaderRelock, TakeWord, WakeWriter, ReaderReturn
<1>4. CASE Quiet
  BY <1>4 DEF Quiet, vars
<1> QED
  BY <1>1, <1>2, <1>3, <1>4 DEF PipeNext

\* commpipe.h is a first-in first-out queue of size - 1 words.
THEOREM Refinement == ASSUME OneAtATime PROVE PipeSpec => PipeFifo
<1>1. PipeInit => Fifo!FifoInit
  <2> SUFFICES ASSUME PipeInit PROVE Fifo!FifoInit
    OBVIOUS
  <2>1. Numbered /\ Count = 0
    BY InitInv, RingIsNumbered, CountIs DEF PipeInit, IInv, TypeOK
  <2> QED
    BY <2>1 DEF Fifo!FifoInit, Numbered, Taken, PipeInit
<1>2. IInv /\ [PipeNext]_vars => [Fifo!FifoNext]_(Fifo!fifoVars)
  <2> SUFFICES ASSUME IInv, [PipeNext]_vars
               PROVE  [Fifo!FifoNext]_(Fifo!fifoVars)
    OBVIOUS
  <2>1. ASSUME NEW w \in Writers, Advance(w) PROVE Fifo!FifoNext
    BY <2>1, OneAtATime, AdvancePuts DEF Fifo!FifoNext
  <2>2. CASE ReaderAdvance
    BY <2>2, OneAtATime, ReaderAdvanceTakes DEF Fifo!FifoNext
  <2>3. ASSUME NEW w \in Writers, Store(w) PROVE UNCHANGED Fifo!fifoVars
    BY <2>3, StoreStutters DEF Fifo!fifoVars
  <2>4. CASE UNCHANGED vars
    BY <2>4 DEF vars, shared, reader, ghost, Count, Contents, Taken, Fifo!fifoVars
  <2> QED
    BY <2>1, <2>2, <2>3, <2>4, OthersStutter DEF Fifo!fifoVars
<1> QED
  BY <1>1, <1>2, Invariance, OneAtATime, PTL DEF PipeSpec, PipeFifo, Fifo!FifoSpec

-----------------------------------------------------------------------------
(* The keyboard buffer and the keyboard port. *)

(* The ring as it is once a pending wrap of kpb_last is done. *)
Oldest == Wrapped(kpb_last)
Held == IF Oldest <= kpb_first THEN kpb_first - Oldest ELSE kpb_first - Oldest + KEYBUF_SIZE
Cell(i) == IF Oldest + i < KEYBUF_SIZE THEN Oldest + i ELSE Oldest + i - KEYBUF_SIZE

RingTypes ==
    /\ keybuf \in [Slots -> 0 .. MaxKeys] /\ kpb_first \in Slots /\ kpb_last \in 0 .. KEYBUF_SIZE
    /\ recorded \in 0 .. MaxKeys /\ taken \in 0 .. MaxKeys

RingInv ==
    /\ recorded - taken = Held
    /\ \A i \in 0 .. Held - 1 : keybuf[Cell(i)] = taken + 1 + i

(* Unless a key was recorded in a full ring in the middle of a wrap. *)
RingOK == RingTypes /\ overrun \in BOOLEAN /\ (overrun \/ RingInv)

(* Between two resets: what the guest has read, against the code at the port. *)
Answered == seen = taken /\ greeted = kbstate
Unread ==
    /\ ciaasdr = kbcode
    /\ IF kbcode > 0 THEN kbcode = taken /\ seen = taken - 1 /\ greeted = 3 /\ kbstate = 3
       ELSE seen = taken /\ greeted = kbstate - 1 /\ kbcode = -greeted /\ kbstate > 0

PortInv ==
    (resetwarning_phase = 0 /\ ~quit_program /\ guest # "dead" /\ ~overrun) =>
        /\ kblostsynccnt = 0 => guest = "idle" /\ ~ciaaicr /\ Answered
        /\ kblostsynccnt > 0 /\ guest = "idle" => Unread
        /\ kblostsynccnt > 0 /\ guest # "idle" => ~ciaaicr /\ Answered

(* Keys are thrown away while a warning is under way only. *)
DrainInv == draining \in BOOLEAN /\ (draining => resetwarning_phase # 0)

(* While a warning is under way nothing else is at the port. *)
WarnCode == resetwarning_phase # 0 => kbcode = RESETWARNING /\ ciaasdr = RESETWARNING

(* While a warning is under way: how many of the two the guest has read, if it was at rest when
   the first one came... *)
AtRest ==
    /\ resetwarning_phase = 1 =>
         /\ kblostsynccnt = 0 => warned = 1 /\ guest \in {"idle", "dead"} /\ ~ciaacra /\ ~ciaaicr
         /\ kblostsynccnt > 0 /\ guest = "idle" => warned = 0
         /\ guest \in {"read", "pulse"} => warned = 1 /\ ~ciaaicr
    /\ resetwarning_phase = 2 =>
         /\ warned \in {1, 2}
         /\ ciaacra \/ guest \in {"read", "pulse"} => warned = 2
    /\ resetwarning_phase = 3 => warned = 2

(* ... and if it was answering a code, whose answer is taken for that of the first warning. *)
Midway ==
    /\ /\ resetwarning_phase = 2 \/ (resetwarning_phase = 1 /\ kblostsynccnt = 0)
       /\ ciaacra \/ guest \in {"read", "pulse"}
       => warned \in {1, 2}
    /\ resetwarning_phase = 3 => warned \in {1, 2}

WarnInv ==
    /\ guest \in {"idle", "read"} => ~ciaacra
    /\ IF midway THEN Midway ELSE AtRest

-----------------------------------------------------------------------------
(* The ring. *)

(* Places of the ring are in the array, and all that are held are different. *)
LEMMA Cells ==
  ASSUME RingTypes
  PROVE  /\ KEYBUF_SIZE \in Nat /\ KEYBUF_SIZE > 1 /\ Oldest \in Slots
         /\ Held \in 0 .. KEYBUF_SIZE - 1
         /\ \A i \in 0 .. KEYBUF_SIZE - 1 : Cell(i) \in Slots
         /\ \A i \in 0 .. Held - 1 : Cell(i) # kpb_first
         /\ Cell(Held) = kpb_first
<1>1. KEYBUF_SIZE \in Nat /\ KEYBUF_SIZE > 1 BY KeyboardAssumption
<1>2. Oldest \in Slots /\ kpb_first \in Slots BY <1>1 DEF RingTypes, Oldest, Wrapped, Slots
<1> HIDE DEF RingTypes
<1>3. Held \in 0 .. KEYBUF_SIZE - 1 BY <1>1, <1>2 DEF Held, Slots
<1>4. \A i \in 0 .. KEYBUF_SIZE - 1 : Cell(i) \in Slots BY <1>1, <1>2 DEF Cell, Slots
<1>5. \A i \in 0 .. Held - 1 : Cell(i) # kpb_first BY <1>1, <1>2 DEF Held, Cell, Slots
<1>6. Cell(Held) = kpb_first BY <1>1, <1>2 DEF Held, Cell, Slots
<1> QED BY <1>1, <1>2, <1>3, <1>4, <1>5, <1>6

(* A key is recorded, by whichever thread. *)
LEMMA RecordTypes == RingTypes /\ overrun \in BOOLEAN /\ record_key => RingTypes' /\ overrun' \in BOOLEAN
<1> SUFFICES ASSUME RingTypes, overrun \in BOOLEAN, record_key PROVE RingTypes' /\ overrun' \in BOOLEAN
  OBVIOUS
<1>1. CASE recorded < MaxKeys /\ HasRoom
  <2>1. /\ recorded' = recorded + 1 /\ keybuf' = [keybuf EXCEPT ![kpb_first] = recorded + 1]
        /\ kpb_first' = Wrapped(kpb_first + 1) /\ UNCHANGED <<kpb_last, taken>>
    BY <1>1 DEF record_key
  <2>2. overrun' \in BOOLEAN BY <1>1 DEF record_key
  <2>3. recorded + 1 \in 0 .. MaxKeys BY <1>1, KeyboardAssumption DEF RingTypes
  <2>4. kpb_first' \in Slots BY <2>1, KeyboardAssumption DEF RingTypes, Wrapped, Slots
  <2>5. keybuf' \in [Slots -> 0 .. MaxKeys] BY <2>1, <2>3 DEF RingTypes
  <2> QED BY <2>1, <2>2, <2>3, <2>4, <2>5 DEF RingTypes
<1>2. CASE ~(recorded < MaxKeys /\ HasRoom)
  <2>1. UNCHANGED ring BY <1>2 DEF record_key, ring
  <2> QED BY <2>1 DEF RingTypes, ring
<1> QED BY <1>1, <1>2

LEMMA RecordRing == RingOK /\ record_key => RingOK'
<1> SUFFICES ASSUME RingOK, record_key, ~overrun' PROVE RingInv'
  BY RecordTypes DEF RingOK
<1>1. RingTypes /\ kpb_last' = kpb_last /\ taken' = taken BY DEF RingOK, record_key
<1>2. CASE recorded < MaxKeys /\ HasRoom
  <2>0. ~overrun /\ (Whole \/ ~Full) BY <1>2 DEF record_key, RingOK
  <2>10. RingInv BY <2>0 DEF RingOK
  <2>1. /\ recorded' = recorded + 1 /\ keybuf' = [keybuf EXCEPT ![kpb_first] = recorded + 1]
        /\ kpb_first' = Wrapped(kpb_first + 1)
    BY <1>2 DEF record_key
  <2>11. Wrapped(kpb_first + 1) # Oldest BY <1>2, <2>0 DEF HasRoom, Full, Whole, Oldest, Wrapped
  <2>2. /\ KEYBUF_SIZE \in Nat /\ KEYBUF_SIZE > 1 /\ Oldest \in Slots /\ Held \in 0 .. KEYBUF_SIZE - 1
        /\ \A i \in 0 .. Held - 1 : Cell(i) # kpb_first /\ Cell(i) \in Slots
        /\ Cell(Held) = kpb_first
    BY <1>1, Cells
  <2>3. kpb_first \in Slots /\ recorded \in 0 .. MaxKeys /\ MaxKeys \in Nat /\ taken \in 0 .. MaxKeys
    BY <1>1, KeyboardAssumption DEF RingTypes
  <2>4. kpb_first' \in Slots BY <2>1, <2>2, <2>3 DEF Wrapped, Slots
  <2>5. Oldest' = Oldest /\ \A i : Cell(i)' = Cell(i)
    BY <1>1 DEF Oldest, Wrapped, Cell
  <2>6. Held' = Held + 1
    BY <2>1, <2>2, <2>3, <2>5, <2>11 DEF Held, Wrapped, Slots
  <2>8. \A i \in 0 .. Held : keybuf'[Cell(i)] = taken + 1 + i
    <3> SUFFICES ASSUME NEW i \in 0 .. Held PROVE keybuf'[Cell(i)] = taken + 1 + i OBVIOUS
    <3>1. CASE i = Held
      <4>1. keybuf'[kpb_first] = recorded + 1 BY <1>1, <2>1, <2>3 DEF RingTypes
      <4>2. recorded = taken + Held BY <2>2, <2>3, <2>10 DEF RingInv
      <4> QED BY <2>2, <2>3, <3>1, <4>1, <4>2
    <3>2. CASE i # Held
      <4>1. i \in 0 .. Held - 1 BY <2>2, <3>2
      <4>2. keybuf'[Cell(i)] = keybuf[Cell(i)] BY <1>1, <2>1, <2>2, <4>1 DEF RingTypes
      <4> QED BY <2>10, <4>1, <4>2 DEF RingInv
    <3> QED BY <3>1, <3>2
  <2>9. RingInv'
    <3>1. recorded' - taken' = Held' BY <1>1, <2>1, <2>2, <2>3, <2>6, <2>10 DEF RingInv
    <3>2. ASSUME NEW i \in 0 .. Held' - 1 PROVE (keybuf[Cell(i)])' = taken' + 1 + i
      <4>1. i \in 0 .. Held BY <2>2, <2>6, <3>2
      <4>2. Cell(i)' = Cell(i) BY <2>5
      <4> QED BY <1>1, <2>8, <4>1, <4>2
    <3> QED BY <3>1, <3>2 DEF RingInv
  <2> QED BY <2>9
<1>3. CASE ~(recorded < MaxKeys /\ HasRoom)
  <2>1. UNCHANGED ring BY <1>3 DEF record_key, ring
  <2> QED BY <2>1 DEF RingOK, RingInv, Held, Cell, Oldest, ring
<1> QED BY <1>2, <1>3

(* A key is taken... *)
LEMMA TakeTypes ==
  RingTypes /\ Whole /\ get_next_key => RingTypes' /\ overrun' = overrun /\ keybuf[kpb_last] \in 0 .. MaxKeys
<1> SUFFICES ASSUME RingTypes, Whole, get_next_key
             PROVE  RingTypes' /\ overrun' = overrun /\ keybuf[kpb_last] \in 0 .. MaxKeys
  OBVIOUS
<1>1. /\ kpb_last' = kpb_last + 1 /\ taken' = keybuf[kpb_last]
      /\ UNCHANGED <<keybuf, kpb_first, recorded, overrun>>
  BY DEF get_next_key
<1>2. kpb_last \in Slots /\ kpb_last + 1 \in 0 .. KEYBUF_SIZE
  BY KeyboardAssumption DEF RingTypes, Whole, Slots
<1>3. keybuf[kpb_last] \in 0 .. MaxKeys BY <1>2 DEF RingTypes
<1> QED BY <1>1, <1>2, <1>3 DEF RingTypes

(* ... and it is the next one. *)
LEMMA TakeRing ==
  RingTypes /\ RingInv /\ Whole /\ keys_available /\ get_next_key =>
    RingInv' /\ taken' = taken + 1 /\ keybuf[kpb_last] = taken + 1
<1> SUFFICES ASSUME RingTypes, RingInv, Whole, keys_available, get_next_key
             PROVE  RingInv' /\ taken' = taken + 1 /\ keybuf[kpb_last] = taken + 1
  OBVIOUS
<1>1. /\ RingTypes /\ RingInv /\ kpb_last' = kpb_last + 1 /\ taken' = keybuf[kpb_last]
      /\ UNCHANGED <<keybuf, kpb_first, recorded>>
  BY DEF get_next_key
<1>2. /\ KEYBUF_SIZE \in Nat /\ KEYBUF_SIZE > 1 /\ Oldest \in Slots /\ Held \in 0 .. KEYBUF_SIZE - 1
  BY <1>1, Cells
<1>3. kpb_first \in Slots /\ recorded \in 0 .. MaxKeys /\ MaxKeys \in Nat /\ taken \in 0 .. MaxKeys
  BY <1>1, KeyboardAssumption DEF RingTypes
<1>4. Oldest = kpb_last /\ Oldest # kpb_first BY DEF Whole, Oldest, Wrapped, keys_available
<1>5. Held > 0 /\ Cell(0) = kpb_last BY <1>2, <1>3, <1>4 DEF Held, Cell, Slots
<1>6. keybuf[kpb_last] = taken + 1
  <2>1. 0 \in 0 .. Held - 1 BY <1>2, <1>5
  <2>2. keybuf[Cell(0)] = taken + 1 + 0 BY <1>1, <2>1 DEF RingInv
  <2> QED BY <1>3, <1>5, <2>2
<1>7. Oldest' = Wrapped(Oldest + 1) BY <1>1, <1>4 DEF Oldest
<1>8. Held' = Held - 1
  BY <1>1, <1>2, <1>3, <1>4, <1>7 DEF Held, Wrapped, Slots
<1>9. \A i \in 0 .. Held - 2 : Cell(i)' = Cell(i + 1)
  <2> SUFFICES ASSUME NEW i \in 0 .. Held - 2 PROVE Cell(i)' = Cell(i + 1) OBVIOUS
  <2>1. Cell(i)' = IF Oldest' + i < KEYBUF_SIZE THEN Oldest' + i ELSE Oldest' + i - KEYBUF_SIZE
    BY DEF Cell
  <2> QED BY <1>2, <1>7, <2>1 DEF Cell, Wrapped, Slots
<1>11. RingInv'
  <2>1. recorded' - taken' = Held' BY <1>1, <1>2, <1>3, <1>6, <1>8 DEF RingInv
  <2>2. ASSUME NEW i \in 0 .. Held' - 1 PROVE (keybuf[Cell(i)])' = taken' + 1 + i
    <3>1. i \in 0 .. Held - 2 /\ i + 1 \in 0 .. Held - 1 BY <1>2, <1>8, <2>2
    <3>2. keybuf[Cell(i + 1)] = taken + 1 + (i + 1) BY <1>1, <3>1 DEF RingInv
    <3>3. Cell(i)' = Cell(i + 1) BY <1>9, <3>1
    <3> QED BY <1>1, <1>3, <1>6, <3>1, <3>2, <3>3
  <2> QED BY <2>1, <2>2 DEF RingInv
<1> QED BY <1>1, <1>6, <1>11

LEMMA TakeOK == RingOK /\ Whole /\ keys_available /\ get_next_key => RingOK'
BY TakeTypes, TakeRing DEF RingOK

LEMMA WrapRing == RingOK /\ Wrap => RingOK'
<1> SUFFICES ASSUME RingOK, Wrap PROVE RingOK' OBVIOUS
<1>1. kpb_last = KEYBUF_SIZE /\ kpb_last' = 0
      /\ UNCHANGED <<keybuf, kpb_first, recorded, taken, overrun>>
  BY DEF Wrap, Whole
<1>2. KEYBUF_SIZE \in Nat /\ KEYBUF_SIZE > 1 BY KeyboardAssumption
<1>3. Oldest' = Oldest BY <1>1, <1>2 DEF Oldest, Wrapped
<1>4. Held' = Held /\ \A i : Cell(i)' = Cell(i) BY <1>1, <1>3 DEF Held, Cell
<1>5. RingTypes' BY <1>1, <1>2 DEF RingOK, RingTypes
<1> QED BY <1>1, <1>4, <1>5 DEF RingOK, RingInv

-----------------------------------------------------------------------------
(* Types and the ring, on whichever thread the host's input runs. *)

LEMMA KeyboardInitInv ==
  KeyboardInit => KeyTypes /\ RingOK /\ DrainInv /\ PortInv /\ WarnCode /\ WarnInv
<1> SUFFICES ASSUME KeyboardInit
             PROVE  KeyTypes /\ RingOK /\ DrainInv /\ PortInv /\ WarnCode /\ WarnInv
  OBVIOUS
<1> USE KeyboardAssumption
<1>1. RingTypes
  <2>1. 0 \in Slots /\ 0 \in 0 .. MaxKeys /\ 0 \in 0 .. KEYBUF_SIZE BY DEF Slots
  <2> QED BY <2>1 DEF KeyboardInit, RingTypes
<1>2. RingInv BY DEF KeyboardInit, RingInv, Held, Oldest, Wrapped
<1>3. KeyTypes
  <2>1. 0 \in Codes /\ 0 \in 0 .. LostSync /\ 0 \in 0 .. (WarnTime + HoldTime) /\ 0 \in 0 .. MaxMisses
    BY DEF Codes, RESETWARNING
  <2>2. /\ kbstate \in 0 .. 3 /\ kbcode \in Codes /\ kblostsynccnt \in 0 .. LostSync
        /\ ciaasdr \in Codes
    BY <2>1 DEF KeyboardInit
  <2>3. resetwarning_phase \in -1 .. 3 /\ resetwarning_timer \in 0 .. (WarnTime + HoldTime)
    BY <2>1 DEF KeyboardInit
  <2>5. /\ ciaaicr \in BOOLEAN /\ ciaacra \in BOOLEAN /\ quit_program \in BOOLEAN
        /\ {draining, midway, overrun} \subseteq BOOLEAN
    BY DEF KeyboardInit
  <2>4. /\ guest \in {"idle", "read", "pulse", "dead"} /\ seen \in 0 .. MaxKeys
        /\ greeted \in 0 .. 3 /\ warned \in 0 .. 2 /\ misses \in 0 .. MaxMisses
    BY <2>1 DEF KeyboardInit
  <2> QED BY <1>1, <2>2, <2>3, <2>4, <2>5 DEF KeyTypes, RingTypes
<1>7. draining = FALSE BY DEF KeyboardInit
<1>8. DrainInv BY <1>7 DEF DrainInv
<1>4. PortInv /\ WarnCode BY DEF KeyboardInit, PortInv, WarnCode, Answered
<1>5. WarnInv BY DEF KeyboardInit, WarnInv, AtRest
<1>6. overrun \in BOOLEAN BY DEF KeyboardInit
<1> QED BY <1>1, <1>2, <1>3, <1>4, <1>5, <1>6, <1>8 DEF RingOK

(* What a code that is sent leaves at the port. *)
LEMMA SendTypes ==
  ASSUME KeyTypes, NEW code \in Codes, Send(code)
  PROVE  /\ kbcode' \in Codes /\ ciaasdr' \in Codes /\ kblostsynccnt' \in 0 .. LostSync
         /\ ciaaicr' \in BOOLEAN
BY KeyboardAssumption DEF Send

(* A step of the keyboard, of the reset or of the guest keeps the types, given that the ring does. *)
LEMMA TypesKept ==
  ASSUME KeyTypes, RingOK, [KeyboardNext]_kbvars, RingOK'
  PROVE  KeyTypes'
<1> USE KeyboardAssumption
<1> DEFINE Port == /\ kbcode \in Codes /\ ciaasdr \in Codes /\ kblostsynccnt \in 0 .. LostSync
                   /\ ciaaicr \in BOOLEAN
           Rest == /\ kbstate \in 0 .. 3 /\ ciaacra \in BOOLEAN
                   /\ resetwarning_phase \in -1 .. 3 /\ quit_program \in BOOLEAN
                   /\ resetwarning_timer \in 0 .. (WarnTime + HoldTime)
           Amiga == /\ guest \in {"idle", "read", "pulse", "dead"} /\ seen \in 0 .. MaxKeys
                    /\ greeted \in 0 .. 3 /\ warned \in 0 .. 2 /\ misses \in 0 .. MaxMisses
           Marks == draining \in BOOLEAN /\ midway \in BOOLEAN
<1>1. /\ RingTypes' /\ overrun' \in BOOLEAN /\ RingTypes /\ Port /\ Rest /\ Amiga /\ Marks
  BY DEF RingOK, KeyTypes, RingTypes
<1>13. Marks'
  <2>1. CASE UNCHANGED <<draining, midway>> BY <1>1, <2>1
  <2>2. CASE ResetKeys
    <3>1. draining' = draining BY <2>2 DEF ResetKeys
    <3>2. CASE midway' = midway BY <1>1, <3>1, <3>2
    <3>3. CASE midway' = (guest \in {"read", "pulse"}) BY <1>1, <3>1, <3>3
    <3> QED BY <2>2, <3>2, <3>3 DEF ResetKeys, resetwarning_do, notice
  <2>3. CASE draining' = TRUE /\ midway' = midway BY <1>1, <2>3
  <2>4. CASE draining' = FALSE /\ midway' = midway BY <1>1, <2>4
  <2>5. CASE draining' = draining /\ midway' = FALSE BY <1>1, <2>5
  <2> QED BY <2>1, <2>2, <2>3, <2>4, <2>5
      DEF KeyboardNext, kbvars, HostKey, Wrap, check_keyboard, CIA_vsync, resetwarning_check, Drain,
          CIA_reset, GuestStep, GuestRead, GuestPulse, GuestAnswer, GuestMiss, GuestDies, notice
<1>2. SUFFICES Port' /\ Rest' /\ Amiga' BY <1>1, <1>13 DEF KeyTypes, RingTypes
<1>3. RESETWARNING \in Codes BY DEF Codes, RESETWARNING
<1>4. CASE UNCHANGED kbvars \/ HostKey \/ Wrap \/ Drain
  <2>1. UNCHANGED <<kbstate, cia, ciaacra, reset, amiga, warned>>
    BY <1>4 DEF kbvars, HostKey, Wrap, Drain, notice
  <2> QED BY <1>1, <2>1 DEF cia, reset, amiga
<1>5. CASE check_keyboard
  <2>1. Rest' /\ Amiga' BY <1>1, <1>5 DEF check_keyboard, reset, amiga, notice
  <2>2. Port'
    <3>1. CASE kbstate < 3 /\ Send(-kbstate)
      <4>1. -kbstate \in Codes BY <1>1, <3>1 DEF Codes, RESETWARNING
      <4> QED BY <3>1, <4>1, SendTypes
    <3>2. CASE keys_available /\ get_next_key /\ Send(keybuf[kpb_last])
      <4>1. Whole BY <1>5 DEF check_keyboard, Ready
      <4>2. kpb_last \in Slots BY <1>1, <4>1 DEF RingTypes, Whole, Slots
      <4>3. keybuf[kpb_last] \in Codes BY <1>1, <4>2 DEF RingTypes, Codes, RESETWARNING
      <4> QED BY <3>2, <4>3, SendTypes
    <3> QED BY <1>5, <3>1, <3>2 DEF check_keyboard
  <2> QED BY <2>1, <2>2
<1>6. CASE CIA_vsync
  <2>1. Rest' /\ Amiga' BY <1>1, <1>6 DEF CIA_vsync, reset, amiga, notice
  <2>2. Port'
    <3>1. CASE kblostsynccnt = 1 /\ Resend BY <1>1, <3>1, SendTypes DEF Resend
    <3>2. CASE kblostsynccnt' = kblostsynccnt - 1 /\ UNCHANGED <<kbcode, ciaasdr, ciaaicr>>
      BY <1>1, <1>6, <3>2 DEF CIA_vsync
    <3> QED BY <1>6, <3>1, <3>2 DEF CIA_vsync
  <2> QED BY <2>1, <2>2
<1>7. CASE ResetKeys
  <2>1. CASE resetwarning_do /\ UNCHANGED <<ring, quit_program>>
    <3>1. Port' BY <1>3, <2>1, SendTypes DEF resetwarning_do
    <3>2. Rest' /\ Amiga' BY <1>1, <1>7, <2>1 DEF ResetKeys, resetwarning_do, amiga
    <3> QED BY <3>1, <3>2
  <2>2. CASE /\ \/ resetwarning_phase' = 0 /\ resetwarning_timer' = 0
                \/ UNCHANGED <<resetwarning_phase, resetwarning_timer>>
             /\ quit_program' = TRUE /\ UNCHANGED <<cia, notice>>
    BY <1>1, <1>7, <2>2 DEF ResetKeys, cia, amiga, notice
  <2> QED BY <1>7, <2>1, <2>2 DEF ResetKeys
<1>8. CASE resetwarning_check
  <2>1. UNCHANGED <<kbstate, ciaacra, amiga, warned>> BY <1>8 DEF resetwarning_check, notice
  <2>2. CASE SecondWarning
    <3>1. Port' BY <1>3, <2>2, SendTypes DEF SecondWarning
    <3>2. Rest' /\ Amiga' BY <1>1, <2>1, <2>2 DEF SecondWarning, amiga
    <3> QED BY <3>1, <3>2
  <2>3. CASE Forced BY <1>1, <2>1, <2>3 DEF Forced, amiga
  <2>4. CASE HoldBegins BY <1>1, <2>1, <2>4 DEF HoldBegins, amiga, cia
  <2>5. ASSUME CountDown PROVE resetwarning_timer' \in 0 .. (WarnTime + HoldTime)
    BY <1>1, <2>5 DEF CountDown
  <2>6. CASE HoldEnds BY <1>1, <2>1, <2>5, <2>6 DEF HoldEnds, amiga
  <2>7. CASE Waiting BY <1>1, <2>1, <2>5, <2>7 DEF Waiting, amiga, cia
  <2> QED BY <1>8, <2>2, <2>3, <2>4, <2>6, <2>7 DEF resetwarning_check
<1>9. CASE CIA_reset
  <2>1. taken \in 0 .. MaxKeys /\ 0 \in Codes BY <1>1 DEF RingTypes, Codes, RESETWARNING
  <2>2. kbcode' \in Codes /\ ciaasdr' \in Codes /\ kblostsynccnt' \in 0 .. LostSync
    BY <1>1, <1>9, <2>1 DEF CIA_reset
  <2>3. /\ kbstate' \in 0 .. 3 /\ resetwarning_phase' \in -1 .. 3
        /\ resetwarning_timer' \in 0 .. (WarnTime + HoldTime)
    BY <1>9 DEF CIA_reset
  <2>4. Amiga' BY <1>1, <1>9, <2>1 DEF CIA_reset
  <2>5. ciaaicr' \in BOOLEAN /\ ciaacra' \in BOOLEAN /\ quit_program' \in BOOLEAN
    BY <1>9 DEF CIA_reset
  <2> QED BY <2>2, <2>3, <2>4, <2>5
<1>10. CASE GuestRead
  <2>1. /\ UNCHANGED <<kbstate, kbcode, kblostsynccnt, ciaasdr, ciaacra, reset, misses>>
        /\ guest' = "read" /\ ciaaicr' = FALSE
    BY <1>10 DEF GuestRead
  <2>2. seen' \in 0 .. MaxKeys BY <1>1, <1>10 DEF GuestRead, Codes, RESETWARNING
  <2>3. greeted' \in 0 .. 3 /\ warned' \in 0 .. 2 BY <1>1, <1>10 DEF GuestRead
  <2> QED BY <1>1, <2>1, <2>2, <2>3 DEF reset
<1>11. CASE GuestPulse \/ GuestAnswer \/ GuestMiss \/ GuestDies
  <2>1. UNCHANGED <<kbstate, kbcode, ciaasdr, reset, seen, greeted, warned>>
    BY <1>11 DEF GuestPulse, GuestAnswer, GuestMiss, GuestDies, cia, amiga, notice
  <2>2. /\ kblostsynccnt' \in {0, kblostsynccnt} /\ ciaaicr' \in {FALSE, ciaaicr}
        /\ ciaacra' \in {TRUE, FALSE, ciaacra} /\ guest' \in {"idle", "pulse", "dead"}
    BY <1>1, <1>11 DEF GuestPulse, GuestAnswer, GuestMiss, GuestDies, cia, amiga
  <2>3. misses' \in 0 .. MaxMisses
    BY <1>1, <1>11 DEF GuestPulse, GuestAnswer, GuestMiss, GuestDies, amiga
  <2>4. ciaaicr' \in BOOLEAN /\ ciaacra' \in BOOLEAN BY <1>1, <2>2
  <2>5. kblostsynccnt' \in 0 .. LostSync /\ guest' \in {"idle", "read", "pulse", "dead"} BY <1>1, <2>2
  <2>6. Rest' BY <1>1, <2>1, <2>4 DEF reset
  <2> QED BY <1>1, <2>1, <2>3, <2>4, <2>5, <2>6
<1> QED BY <1>4, <1>5, <1>6, <1>7, <1>8, <1>9, <1>10, <1>11 DEF KeyboardNext, GuestStep

LEMMA RingKept == RingOK /\ [KeyboardNext]_kbvars => RingOK'
<1> SUFFICES ASSUME RingOK, [KeyboardNext]_kbvars PROVE RingOK' OBVIOUS
<1>1. CASE UNCHANGED ring
  BY <1>1 DEF RingOK, RingTypes, RingInv, Held, Cell, Oldest, ring
<1>2. CASE record_key BY <1>2, RecordRing
<1>3. CASE Whole /\ keys_available /\ get_next_key BY <1>3, TakeOK
<1>4. CASE Wrap BY <1>4, WrapRing
<1> QED BY <1>1, <1>2, <1>3, <1>4
    DEF KeyboardNext, kbvars, HostKey, check_keyboard, CIA_vsync, ResetKeys, resetwarning_check, Ready,
        Drain, CIA_reset, GuestStep, GuestRead, GuestPulse, GuestAnswer, GuestMiss, GuestDies

(* Once a key was recorded in a full ring, the ring is lost for good. *)
LEMMA OverrunStays == overrun \in BOOLEAN /\ [KeyboardNext]_kbvars /\ ~overrun' => ~overrun
<1> SUFFICES ASSUME overrun \in BOOLEAN, [KeyboardNext]_kbvars PROVE overrun => overrun' OBVIOUS
<1>1. CASE overrun' = overrun BY <1>1
<1>2. CASE record_key BY <1>2 DEF record_key
<1>3. CASE get_next_key BY <1>3 DEF get_next_key
<1> QED BY <1>1, <1>2, <1>3
    DEF KeyboardNext, kbvars, ring, HostKey, Wrap, check_keyboard, CIA_vsync, ResetKeys, resetwarning_check,
        Drain, CIA_reset, GuestStep, GuestRead, GuestPulse, GuestAnswer, GuestMiss, GuestDies

(* Types, and the ring is exact whatever its size, unless it was overrun. *)
LEMMA RingAndTypes == KeyboardSpec => [](KeyTypes /\ RingOK)
<1>1. KeyboardInit => KeyTypes /\ RingOK BY KeyboardInitInv
<1>2. (KeyTypes /\ RingOK) /\ [KeyboardNext]_kbvars => (KeyTypes /\ RingOK)' BY RingKept, TypesKept
<1> QED BY <1>1, <1>2, PTL DEF KeyboardSpec

(* The ring of keys is exact for every size of it, with one thread and with two: no key is lost,
   changed, doubled or reordered between record_key and get_next_key, until a key is recorded in a
   full ring between the increment of kpb_last and its wrap. *)
THEOREM RingIsExact == KeyboardSpec => []RingSafe
<1>1. KeyTypes /\ RingOK => RingSafe
  <2> SUFFICES ASSUME RingOK, ~overrun, Whole
               PROVE  /\ recorded - taken = Used
                      /\ \A i \in 0 .. Used - 1 : keybuf[Place(i)] = taken + 1 + i
    BY DEF RingSafe, RingExact
  <2>1. Oldest = kpb_last BY DEF Whole, Oldest, Wrapped
  <2>2. Held = Used /\ \A i : Cell(i) = Place(i) BY <2>1 DEF Held, Used, Cell, Place
  <2> QED BY <2>2 DEF RingOK, RingInv
<1> QED BY <1>1, RingAndTypes, PTL

(* On one thread the full ring is never met in the middle of a wrap. *)
THEOREM OneThreadIsSafe == ~OwnThread => (KeyboardSpec => []RingExact)
<1> SUFFICES ASSUME ~OwnThread PROVE KeyboardSpec => []RingExact OBVIOUS
<1>1. KeyboardInit => ~overrun BY DEF KeyboardInit
<1>2. ~overrun /\ [KeyboardNext]_kbvars => ~overrun'
  <2> SUFFICES ASSUME ~overrun, [KeyboardNext]_kbvars PROVE ~overrun' OBVIOUS
  <2>1. CASE overrun' = overrun BY <2>1
  <2>2. CASE record_key /\ Whole BY <2>2 DEF record_key
  <2>3. CASE get_next_key BY <2>3 DEF get_next_key
  <2> QED BY <2>1, <2>2, <2>3
      DEF KeyboardNext, kbvars, ring, HostKey, Wrap, check_keyboard, CIA_vsync, ResetKeys, Ready,
          resetwarning_check, Drain, CIA_reset, GuestStep, GuestRead, GuestPulse, GuestAnswer, GuestMiss,
          GuestDies
<1>3. ~overrun /\ RingSafe => RingExact BY DEF RingSafe
<1> QED BY <1>1, <1>2, <1>3, RingIsExact, PTL DEF KeyboardSpec

(* Every variable keeps its type, whatever the size of the ring and the timeouts. *)
THEOREM KeyboardTyping == KeyboardSpec => []KeyTypes
<1>1. KeyTypes /\ RingOK => KeyTypes OBVIOUS
<1> QED BY <1>1, RingAndTypes, PTL

-----------------------------------------------------------------------------
(* Codes at the port. *)

LEMMA DrainKept == DrainInv /\ [KeyboardNext]_kbvars => DrainInv'
<1> SUFFICES ASSUME DrainInv, [KeyboardNext]_kbvars PROVE DrainInv' OBVIOUS
<1>1. CASE UNCHANGED <<draining, resetwarning_phase>> BY <1>1 DEF DrainInv
<1>2. CASE resetwarning_check
  <2>1. draining' = TRUE /\ resetwarning_phase # 0 BY <1>2 DEF resetwarning_check
  <2>2. resetwarning_phase' # 0
    BY <1>2, <2>1 DEF resetwarning_check, Forced, SecondWarning, HoldBegins, HoldEnds, Waiting
  <2> QED BY <2>1, <2>2 DEF DrainInv
<1>3. CASE Drain
  <2>1. CASE draining' = FALSE BY <2>1 DEF DrainInv
  <2>2. CASE draining' = draining BY <1>1, <1>3, <2>2 DEF Drain, reset
  <2> QED BY <1>3, <2>1, <2>2 DEF Drain
<1>4. CASE ~draining /\ draining' = draining BY <1>4 DEF DrainInv
<1>5. CASE ResetKeys BY <1>4, <1>5 DEF ResetKeys, Ready
<1>6. CASE CIA_reset BY <1>4, <1>6 DEF CIA_reset, Ready
<1>7. CASE check_keyboard \/ CIA_vsync BY <1>1, <1>7 DEF check_keyboard, CIA_vsync, reset
<1>8. CASE UNCHANGED kbvars \/ HostKey \/ Wrap \/ GuestStep \/ GuestMiss \/ GuestDies
  BY <1>1, <1>8 DEF kbvars, HostKey, Wrap, GuestStep, GuestRead, GuestPulse, GuestAnswer, GuestMiss,
     GuestDies, reset
<1> QED BY <1>2, <1>3, <1>5, <1>6, <1>7, <1>8 DEF KeyboardNext

LEMMA PortKept ==
  PromptAck /\ KeyTypes /\ RingOK /\ DrainInv /\ PortInv /\ [KeyboardNext]_kbvars => PortInv'
<1> SUFFICES ASSUME PromptAck, KeyTypes, RingOK, DrainInv, PortInv, [KeyboardNext]_kbvars PROVE PortInv'
  OBVIOUS
<1> USE KeyboardAssumption
<1>0. PromptAck = TRUE OBVIOUS
<1> SUFFICES ASSUME resetwarning_phase' = 0, ~quit_program', guest' # "dead", ~overrun'
             PROVE  /\ kblostsynccnt' = 0 => guest' = "idle" /\ ~ciaaicr' /\ Answered'
                    /\ kblostsynccnt' > 0 /\ guest' = "idle" => Unread'
                    /\ kblostsynccnt' > 0 /\ guest' # "idle" => ~ciaaicr' /\ Answered'
  BY DEF PortInv
<1>13. ~overrun /\ RingTypes /\ RingInv BY OverrunStays DEF RingOK
<1>1. CASE UNCHANGED <<taken, kbstate, cia, ciaacra, reset, amiga>>
  BY <1>1, <1>13 DEF cia, reset, amiga, PortInv, Answered, Unread
<1>2. CASE check_keyboard
  <2>1. kblostsynccnt = 0 /\ resetwarning_phase = 0 /\ ~quit_program /\ guest # "dead"
        /\ UNCHANGED <<ciaacra, guest, seen, greeted>>
    BY <1>2 DEF check_keyboard, reset, amiga
  <2>2. guest = "idle" /\ seen = taken /\ greeted = kbstate BY <1>13, <2>1 DEF PortInv, Answered
  <2>3. kblostsynccnt' = LostSync /\ LostSync > 0 /\ kbcode' = ciaasdr'
    BY <1>2 DEF check_keyboard, Send
  <2>4. Unread'
    <3>1. CASE kbstate < 3 /\ kbstate' = kbstate + 1 /\ Send(-kbstate) /\ UNCHANGED ring
      <4>1. kbcode' = -kbstate /\ taken' = taken /\ kbstate \in 0 .. 3
        BY <3>1 DEF Send, ring, KeyTypes
      <4> QED BY <2>1, <2>2, <2>3, <3>1, <4>1 DEF Unread
    <3>2. CASE /\ kbstate = 3 /\ UNCHANGED kbstate /\ keys_available /\ get_next_key
               /\ Send(keybuf[kpb_last])
      <4>1. taken' = taken + 1 /\ kbcode' = taken + 1
        BY <1>2, <1>13, <3>2, TakeRing DEF check_keyboard, Send, Ready
      <4>2. taken \in Nat BY DEF KeyTypes
      <4> QED BY <2>1, <2>2, <2>3, <3>2, <4>1, <4>2 DEF Unread
    <3> QED BY <1>2, <3>1, <3>2 DEF check_keyboard
  <2> QED BY <2>1, <2>2, <2>3, <2>4
<1>3. CASE CIA_vsync
  <2>1. /\ kblostsynccnt > 0 /\ (kblostsynccnt = 1 => guest \in {"idle", "dead"})
        /\ UNCHANGED <<taken, kbstate, resetwarning_phase, quit_program, guest, seen, greeted>>
    BY <1>0, <1>3 DEF CIA_vsync, ring, reset, amiga
  <2>2. CASE kblostsynccnt = 1 /\ Resend
    <3>1. guest = "idle" /\ Unread BY <1>13, <2>1, <2>2 DEF PortInv
    <3>2. kblostsynccnt' = LostSync /\ LostSync > 0 /\ kbcode' = kbcode /\ ciaasdr' = kbcode
      BY <2>2 DEF Resend, Send
    <3> QED BY <2>1, <3>1, <3>2 DEF Unread
  <2>3. CASE /\ kblostsynccnt # 1 /\ kblostsynccnt' = kblostsynccnt - 1
             /\ UNCHANGED <<kbcode, ciaasdr, ciaaicr>>
    <3>1. kblostsynccnt' > 0 BY <2>1, <2>3 DEF KeyTypes
    <3> QED BY <1>13, <2>1, <2>3, <3>1 DEF PortInv, Unread, Answered
  <2> QED BY <1>3, <2>2, <2>3 DEF CIA_vsync
<1>4. CASE ResetKeys
  <2>1. quit_program' = TRUE \/ resetwarning_phase' = 1
    BY <1>4 DEF ResetKeys, resetwarning_do
  <2> QED BY <2>1
<1>5. CASE resetwarning_check
  <2>1. resetwarning_phase' # 0
    BY <1>5 DEF resetwarning_check, Forced, SecondWarning, HoldBegins, HoldEnds, Waiting
  <2> QED BY <2>1
<1>6. CASE CIA_reset
  <2>1. /\ kblostsynccnt' = 0 /\ guest' = "idle" /\ seen' = taken' /\ greeted' = kbstate'
    BY <1>6 DEF CIA_reset, ring
  <2>2. ~ciaaicr' BY <1>6 DEF CIA_reset
  <2> QED BY <2>1, <2>2 DEF Answered
<1>7. CASE GuestRead
  <2>1. /\ guest = "idle" /\ guest' = "read"
        /\ UNCHANGED <<taken, kbstate, kbcode, kblostsynccnt, ciaasdr, resetwarning_phase, quit_program>>
    BY <1>7 DEF GuestRead, ring, reset
  <2>2. ciaaicr /\ ~ciaaicr' BY <1>7 DEF GuestRead
  <2>3. kblostsynccnt > 0 /\ Unread BY <1>13, <2>1, <2>2 DEF PortInv, KeyTypes
  <2>4. Answered'
    <3>1. kbcode \in Int /\ taken \in Nat /\ kbstate \in 0 .. 3 /\ greeted \in 0 .. 3
      BY DEF KeyTypes, Codes, RESETWARNING
    <3>2. /\ seen' = IF kbcode > 0 THEN kbcode ELSE seen
          /\ greeted' = IF greeted < 3 /\ kbcode = -greeted THEN greeted + 1 ELSE greeted
      BY <1>7, <2>3 DEF GuestRead, Unread
    <3> QED BY <2>1, <2>3, <3>1, <3>2 DEF Unread, Answered
  <2> QED BY <2>1, <2>2, <2>3, <2>4
<1>8. CASE GuestPulse
  <2>1. /\ guest = "read" /\ guest' = "pulse"
        /\ UNCHANGED <<taken, kbstate, kblostsynccnt, ciaaicr, resetwarning_phase, quit_program,
                       seen, greeted>>
    BY <1>8 DEF GuestPulse, ring, reset, cia
  <2> QED BY <1>13, <2>1 DEF PortInv, Answered
<1>9. CASE GuestAnswer
  <2>1. /\ guest = "pulse" /\ guest' = "idle" /\ kblostsynccnt' = 0
        /\ UNCHANGED <<taken, kbstate, ciaaicr, resetwarning_phase, quit_program, seen, greeted>>
    BY <1>9 DEF GuestAnswer, ring, reset
  <2>2. ~ciaaicr /\ Answered BY <1>13, <2>1 DEF PortInv, KeyTypes
  <2> QED BY <2>1, <2>2 DEF Answered
<1>10. CASE GuestMiss
  <2>1. /\ guest = "idle" /\ UNCHANGED <<taken, kbstate, kbcode, kblostsynccnt, ciaasdr,
                 resetwarning_phase, quit_program, guest, seen, greeted>>
    BY <1>10 DEF GuestMiss, ring, reset
  <2>2. ciaaicr /\ ~ciaaicr' BY <1>10 DEF GuestMiss
  <2> QED BY <1>13, <2>1, <2>2 DEF PortInv, Unread, Answered
<1>11. CASE GuestDies BY <1>11 DEF GuestDies
<1>12. CASE UNCHANGED kbvars \/ HostKey \/ Wrap
  <2>1. UNCHANGED <<taken, kbstate, cia, ciaacra, reset, amiga>>
    BY <1>12 DEF kbvars, ring, HostKey, record_key, Wrap
  <2> QED BY <1>1, <2>1
<1>14. CASE Drain BY <1>14 DEF Drain, DrainInv, reset
<1> QED BY <1>2, <1>3, <1>4, <1>5, <1>6, <1>7, <1>8, <1>9, <1>10, <1>11, <1>12, <1>14
    DEF KeyboardNext, GuestStep

LEMMA WarnCodeKept == KeyTypes /\ WarnCode /\ [KeyboardNext]_kbvars => WarnCode'
<1> SUFFICES ASSUME KeyTypes, WarnCode, [KeyboardNext]_kbvars, resetwarning_phase' # 0
             PROVE  kbcode' = RESETWARNING /\ ciaasdr' = RESETWARNING
  BY DEF WarnCode
<1>1. CASE UNCHANGED <<resetwarning_phase, kbcode, ciaasdr>> BY <1>1 DEF WarnCode
<1>2. CASE UNCHANGED resetwarning_phase /\ Resend
  <2>1. kbcode' = kbcode /\ ciaasdr' = kbcode BY <1>2 DEF Resend, Send
  <2> QED BY <1>2, <2>1 DEF WarnCode
<1>3. CASE Send(RESETWARNING) BY <1>3 DEF Send
<1>4. CASE resetwarning_phase # 0 /\ UNCHANGED <<kbcode, ciaasdr>> BY <1>4 DEF WarnCode
<1>5. CASE resetwarning_phase = 0 /\ UNCHANGED resetwarning_phase BY <1>5
<1>6. CASE resetwarning_phase' = 0 BY <1>6
<1>7. check_keyboard => UNCHANGED resetwarning_phase /\ resetwarning_phase = 0
  BY DEF check_keyboard, reset
<1>8. CIA_vsync => UNCHANGED resetwarning_phase /\ (Resend \/ UNCHANGED <<kbcode, ciaasdr>>)
  BY DEF CIA_vsync, reset
<1>9. ResetKeys => \/ Send(RESETWARNING)
                   \/ resetwarning_phase' = 0 
                   \/ UNCHANGED <<resetwarning_phase, kbcode, ciaasdr>>
  BY DEF ResetKeys, resetwarning_do, cia
<1>10. resetwarning_check =>
         \/ Send(RESETWARNING)
         \/ resetwarning_phase # 0 /\ UNCHANGED <<kbcode, ciaasdr>>
  BY DEF resetwarning_check, Forced, SecondWarning, HoldBegins, HoldEnds, Waiting, cia
<1>11. CIA_reset => resetwarning_phase' = 0 BY DEF CIA_reset
<1>12. UNCHANGED kbvars \/ HostKey \/ Wrap \/ Drain \/ GuestStep \/ GuestMiss \/ GuestDies =>
         UNCHANGED <<resetwarning_phase, kbcode, ciaasdr>>
  BY DEF kbvars, HostKey, Wrap, Drain, GuestStep, GuestRead, GuestPulse, GuestAnswer, GuestMiss, GuestDies,
     cia, reset
<1> QED BY <1>1, <1>2, <1>3, <1>4, <1>5, <1>6, <1>7, <1>8, <1>9, <1>10, <1>11, <1>12 DEF KeyboardNext

(* A guest that answers in time what it has read reads each key once and in order, after the codes
   of power-up, although codes are sent again, interrupts are lost and resets are asked for. *)
THEOREM KeysAreInOrder == PromptAck => (KeyboardSpec => KeysInOrder)
<1> SUFFICES ASSUME PromptAck PROVE KeyboardSpec => KeysInOrder OBVIOUS
<1> DEFINE KInv == KeyTypes /\ RingOK /\ DrainInv /\ PortInv /\ WarnCode
           Step == GuestRead /\ ciaasdr > 0 /\ ~quit_program /\ ~overrun => ciaasdr = seen + 1 /\ greeted = 3
<1>1. KeyboardInit => KInv BY KeyboardInitInv
<1>2. KInv /\ [KeyboardNext]_kbvars => KInv'
  BY RingKept, TypesKept, DrainKept, PortKept, WarnCodeKept
<1>3. KInv /\ [KeyboardNext]_kbvars => [Step]_kbvars
  <2> SUFFICES ASSUME KInv, GuestRead, ciaasdr > 0, ~quit_program, ~overrun
               PROVE  ciaasdr = seen + 1 /\ greeted = 3
    OBVIOUS
  <2>1. guest = "idle" /\ ciaaicr BY DEF GuestRead
  <2>2. resetwarning_phase = 0 BY DEF WarnCode, RESETWARNING
  <2>3. kblostsynccnt > 0 /\ Unread BY <2>1, <2>2, KeyboardAssumption DEF PortInv, KeyTypes
  <2>4. seen \in Nat /\ taken \in Nat BY DEF KeyTypes
  <2> QED BY <2>3, <2>4 DEF Unread
<1> QED BY <1>1, <1>2, <1>3, PTL DEF KeyboardSpec, KeysInOrder

-----------------------------------------------------------------------------
(* Reset warnings. *)

(* A guest that was at rest when the first warning came. *)
LEMMA AtRestKept ==
  ASSUME PromptAck, KeyTypes, WarnCode, WarnInv, ~midway, ~midway', [KeyboardNext]_kbvars
  PROVE  AtRest'
<1>0. PromptAck = TRUE /\ AtRest /\ (guest \in {"idle", "read"} => ~ciaacra) BY DEF WarnInv
<1>1. kblostsynccnt \in Nat /\ resetwarning_phase \in -1 .. 3 /\ LostSync \in Nat /\ LostSync > 0
  BY KeyboardAssumption DEF KeyTypes
<1>2. CASE UNCHANGED <<kblostsynccnt, ciaaicr, ciaacra, resetwarning_phase, guest, warned>>
  BY <1>0, <1>2 DEF AtRest
<1>3. CASE check_keyboard
  <2>1. resetwarning_phase = 0 /\ UNCHANGED resetwarning_phase
    BY <1>3 DEF check_keyboard, reset
  <2> QED BY <2>1 DEF AtRest
<1>4. CASE CIA_vsync
  <2>1. /\ kblostsynccnt > 0 /\ (kblostsynccnt = 1 => guest \in {"idle", "dead"})
        /\ UNCHANGED <<ciaacra, resetwarning_phase, guest, warned>>
    BY <1>0, <1>4 DEF CIA_vsync, reset, amiga, notice
  <2>2. CASE kblostsynccnt = 1 /\ Resend
    <3>1. kblostsynccnt' > 0 BY <1>1, <2>2 DEF Resend, Send
    <3> QED BY <1>0, <2>1, <2>2, <3>1 DEF AtRest
  <2>3. CASE kblostsynccnt # 1 /\ kblostsynccnt' = kblostsynccnt - 1 /\ UNCHANGED ciaaicr
    <3>1. kblostsynccnt' > 0 BY <1>1, <2>1, <2>3
    <3> QED BY <1>0, <2>1, <2>3, <3>1 DEF AtRest
  <2> QED BY <1>4, <2>2, <2>3 DEF CIA_vsync
<1>5. CASE ResetKeys
  <2>1. UNCHANGED <<ciaacra, guest>> BY <1>5 DEF ResetKeys, amiga
  <2>2. CASE resetwarning_do
    <3>1. /\ resetwarning_phase' = 1 /\ kblostsynccnt' > 0 /\ warned' = 0
          /\ guest \notin {"read", "pulse"}
      BY <1>1, <2>2 DEF resetwarning_do, Send
    <3> QED BY <2>1, <3>1 DEF AtRest
  <2>3. CASE resetwarning_phase' = 0 BY <2>3 DEF AtRest
  <2>4. CASE UNCHANGED <<resetwarning_phase, cia, notice>>
    BY <1>2, <2>1, <2>4 DEF cia, notice
  <2> QED BY <1>5, <2>2, <2>3, <2>4 DEF ResetKeys
<1>6. CASE resetwarning_check
  <2>1. UNCHANGED <<ciaacra, guest, warned>> BY <1>6 DEF resetwarning_check, amiga, notice
  <2>2. CASE resetwarning_phase' = -1 BY <2>2 DEF AtRest
  <2>3. CASE SecondWarning
    <3>1. resetwarning_phase = 1 /\ kblostsynccnt = 0 /\ resetwarning_phase' = 2
      BY <2>3 DEF SecondWarning
    <3> QED BY <1>0, <2>1, <3>1 DEF AtRest
  <2>4. CASE HoldBegins
    <3>1. resetwarning_phase = 2 /\ ciaacra /\ resetwarning_phase' = 3 BY <2>4 DEF HoldBegins
    <3> QED BY <1>0, <2>1, <3>1 DEF AtRest
  <2>5. CASE Waiting BY <1>2, <2>1, <2>5 DEF Waiting, cia
  <2> QED BY <1>6, <2>2, <2>3, <2>4, <2>5 DEF resetwarning_check, Forced, HoldEnds
<1>7. CASE CIA_reset
  <2>1. resetwarning_phase' = 0 BY <1>7 DEF CIA_reset
  <2> QED BY <2>1 DEF AtRest
<1>8. CASE GuestRead
  <2>1. /\ guest = "idle" /\ guest' = "read"
        /\ UNCHANGED <<kblostsynccnt, ciaacra, resetwarning_phase>>
    BY <1>8 DEF GuestRead, reset
  <2>2. ciaaicr /\ ~ciaaicr' BY <1>8 DEF GuestRead
  <2>3. resetwarning_phase # 0 => warned' = IF warned < 2 THEN warned + 1 ELSE warned
    BY <1>8 DEF GuestRead, WarnCode
  <2>4. warned \in 0 .. 2 BY DEF KeyTypes
  <2>5. resetwarning_phase = 1 => kblostsynccnt > 0 /\ warned = 0
    BY <1>0, <1>1, <2>1, <2>2 DEF AtRest
  <2> QED BY <1>0, <1>1, <2>1, <2>2, <2>3, <2>4, <2>5 DEF AtRest
<1>9. CASE GuestPulse
  <2>1. /\ guest = "read" /\ guest' = "pulse"
        /\ UNCHANGED <<kblostsynccnt, ciaaicr, resetwarning_phase, warned>>
    BY <1>9 DEF GuestPulse, reset, cia, notice
  <2>2. resetwarning_phase = 1 => kblostsynccnt > 0 BY <1>0, <1>1, <2>1 DEF AtRest
  <2> QED BY <1>0, <1>1, <2>1, <2>2 DEF AtRest
<1>10. CASE GuestAnswer
  <2>1. /\ guest = "pulse" /\ guest' = "idle" /\ kblostsynccnt' = 0
        /\ UNCHANGED <<ciaaicr, resetwarning_phase, warned>>
    BY <1>10 DEF GuestAnswer, reset, notice
  <2>2. ~ciaacra' BY <1>10 DEF GuestAnswer
  <2> QED BY <1>0, <1>1, <2>1, <2>2 DEF AtRest
<1>11. CASE GuestMiss
  <2>1. UNCHANGED <<kblostsynccnt, ciaacra, resetwarning_phase, guest, warned>> /\ ~ciaaicr'
    BY <1>11 DEF GuestMiss, reset, notice
  <2> QED BY <1>0, <2>1 DEF AtRest
<1>12. CASE GuestDies
  <2>1. guest' = "dead" /\ UNCHANGED <<kblostsynccnt, ciaaicr, ciaacra, resetwarning_phase, warned>>
    BY <1>12 DEF GuestDies, cia, reset, notice
  <2> QED BY <1>0, <1>1, <2>1 DEF AtRest
<1>13. CASE UNCHANGED kbvars \/ HostKey \/ Wrap \/ Drain
  BY <1>2, <1>13 DEF kbvars, HostKey, Wrap, Drain, cia, reset, amiga, notice
<1> QED BY <1>3, <1>4, <1>5, <1>6, <1>7, <1>8, <1>9, <1>10, <1>11, <1>12, <1>13
    DEF KeyboardNext, GuestStep

(* A guest that was answering another code then.  How long it takes does not matter. *)
LEMMA MidwayKept ==
  ASSUME KeyTypes, WarnCode, WarnInv, midway', [KeyboardNext]_kbvars
  PROVE  Midway'
<1>0. guest \in {"idle", "read"} => ~ciaacra BY DEF WarnInv
<1>1. kblostsynccnt \in Nat /\ resetwarning_phase \in -1 .. 3 /\ LostSync \in Nat /\ LostSync > 0
      /\ warned \in 0 .. 2
  BY KeyboardAssumption DEF KeyTypes
<1>5. CASE ResetKeys
  <2>2. CASE resetwarning_do
    <3>1. resetwarning_phase' = 1 /\ kblostsynccnt' > 0 BY <1>1, <2>2 DEF resetwarning_do, Send
    <3> QED BY <3>1 DEF Midway
  <2>3. CASE resetwarning_phase' = 0 BY <2>3 DEF Midway
  <2>4. CASE UNCHANGED <<resetwarning_phase, cia, notice>>
    <3>1. UNCHANGED <<ciaacra, guest>> /\ midway BY <1>5, <2>4 DEF ResetKeys, amiga, notice
    <3> QED BY <2>4, <3>1 DEF cia, notice, WarnInv, Midway
  <2> QED BY <1>5, <2>2, <2>3, <2>4 DEF ResetKeys
<1>7. CASE CIA_reset BY <1>7 DEF CIA_reset, Midway
<1> SUFFICES ASSUME ~ResetKeys, ~CIA_reset PROVE Midway' BY <1>5, <1>7
<1>14. midway /\ Midway
  <2>1. midway' = midway
    BY DEF KeyboardNext, kbvars, HostKey, Wrap, check_keyboard, CIA_vsync, resetwarning_check, Drain,
           GuestStep, GuestRead, GuestPulse, GuestAnswer, GuestMiss, GuestDies, notice
  <2> QED BY <2>1 DEF WarnInv
<1>2. CASE UNCHANGED <<kblostsynccnt, ciaacra, resetwarning_phase, guest, warned>>
  BY <1>14, <1>2 DEF Midway
<1>3. CASE check_keyboard
  <2>1. resetwarning_phase' = 0 BY <1>3 DEF check_keyboard, reset
  <2> QED BY <2>1 DEF Midway
<1>4. CASE CIA_vsync
  <2>1. kblostsynccnt > 0 /\ UNCHANGED <<ciaacra, resetwarning_phase, guest, warned>>
    BY <1>4 DEF CIA_vsync, reset, amiga, notice
  <2>2. CASE kblostsynccnt = 1 /\ Resend
    <3>1. kblostsynccnt' > 0 BY <1>1, <2>2 DEF Resend, Send
    <3> QED BY <1>14, <2>1, <3>1 DEF Midway
  <2>3. CASE kblostsynccnt # 1 /\ kblostsynccnt' = kblostsynccnt - 1
    <3>1. kblostsynccnt' > 0 BY <1>1, <2>1, <2>3
    <3> QED BY <1>14, <2>1, <3>1 DEF Midway
  <2> QED BY <1>4, <2>2, <2>3 DEF CIA_vsync
<1>6. CASE resetwarning_check
  <2>1. UNCHANGED <<ciaacra, guest, warned>> BY <1>6 DEF resetwarning_check, amiga, notice
  <2>2. CASE resetwarning_phase' = -1 BY <2>2 DEF Midway
  <2>3. CASE SecondWarning
    <3>1. resetwarning_phase = 1 /\ kblostsynccnt = 0 /\ resetwarning_phase' = 2
      BY <2>3 DEF SecondWarning
    <3> QED BY <1>14, <2>1, <3>1 DEF Midway
  <2>4. CASE HoldBegins
    <3>1. resetwarning_phase = 2 /\ ciaacra /\ resetwarning_phase' = 3 BY <2>4 DEF HoldBegins
    <3> QED BY <1>14, <2>1, <3>1 DEF Midway
  <2>5. CASE Waiting BY <1>2, <2>1, <2>5 DEF Waiting, cia
  <2> QED BY <1>6, <2>2, <2>3, <2>4, <2>5 DEF resetwarning_check, Forced, HoldEnds
<1>8. CASE GuestRead
  <2>1. UNCHANGED <<kblostsynccnt, ciaacra, resetwarning_phase>> BY <1>8 DEF GuestRead, reset
  <2>3. resetwarning_phase # 0 => warned' = IF warned < 2 THEN warned + 1 ELSE warned
    BY <1>8 DEF GuestRead, WarnCode
  <2>4. resetwarning_phase # 0 => warned' \in {1, 2} BY <1>1, <2>3
  <2> QED BY <2>1, <2>4 DEF Midway
<1>9. CASE GuestPulse
  <2>1. guest = "read" /\ UNCHANGED <<kblostsynccnt, resetwarning_phase, warned>>
    BY <1>9 DEF GuestPulse, reset, cia, notice
  <2> QED BY <1>14, <2>1 DEF Midway
<1>10. CASE GuestAnswer
  <2>1. guest' = "idle" /\ UNCHANGED <<resetwarning_phase, warned>> /\ ~ciaacra'
    BY <1>10 DEF GuestAnswer, reset, notice
  <2> QED BY <1>14, <2>1 DEF Midway
<1>11. CASE GuestMiss
  BY <1>2, <1>11 DEF GuestMiss, reset, notice
<1>12. CASE GuestDies
  <2>1. guest' = "dead" /\ UNCHANGED <<kblostsynccnt, ciaacra, resetwarning_phase, warned>>
    BY <1>12 DEF GuestDies, cia, reset, notice
  <2> QED BY <1>14, <2>1 DEF Midway
<1>13. CASE UNCHANGED kbvars \/ HostKey \/ Wrap \/ Drain
  BY <1>2, <1>13 DEF kbvars, HostKey, Wrap, Drain, cia, reset, amiga, notice
<1> QED BY <1>3, <1>4, <1>6, <1>8, <1>9, <1>10, <1>11, <1>12, <1>13
    DEF KeyboardNext, GuestStep

(* The output mode of the port is on in a pulse only, unless the guest died in it. *)
LEMMA PulseKept ==
  ASSUME WarnInv, [KeyboardNext]_kbvars
  PROVE  guest' \in {"idle", "read"} => ~ciaacra'
<1>1. guest \in {"idle", "read"} => ~ciaacra BY DEF WarnInv
<1>2. CASE UNCHANGED <<guest, ciaacra>> BY <1>1, <1>2
<1>3. CASE ~ciaacra' BY <1>3
<1>4. CASE guest' \in {"pulse", "dead"} BY <1>4
<1>5. CASE GuestRead BY <1>1, <1>5 DEF GuestRead
<1> QED BY <1>2, <1>3, <1>4, <1>5
    DEF KeyboardNext, kbvars, HostKey, Wrap, check_keyboard, CIA_vsync, ResetKeys, resetwarning_check, Drain,
        CIA_reset, GuestStep, GuestPulse, GuestAnswer, GuestMiss, GuestDies, amiga

LEMMA WarnKept ==
  ASSUME PromptAck, KeyTypes, WarnCode, WarnInv, [KeyboardNext]_kbvars
  PROVE  WarnInv'
<1>1. CASE midway' BY <1>1, MidwayKept, PulseKept DEF WarnInv
<1>2. CASE ~midway' /\ ~midway BY <1>2, AtRestKept, PulseKept DEF WarnInv
<1>3. CASE ~midway' /\ midway
  <2>1. ResetKeys \/ CIA_reset
    BY <1>3 DEF KeyboardNext, kbvars, HostKey, Wrap, check_keyboard, CIA_vsync, resetwarning_check, Drain,
           GuestStep, GuestRead, GuestPulse, GuestAnswer, GuestMiss, GuestDies, notice
  <2>2. CASE CIA_reset
    <3>1. resetwarning_phase' = 0 BY <2>2 DEF CIA_reset
    <3>2. AtRest' BY <3>1 DEF AtRest
    <3> QED BY <1>3, <3>2, PulseKept DEF WarnInv
  <2>3. CASE ResetKeys
    <3>1. /\ resetwarning_phase' = 1 /\ kblostsynccnt' = LostSync /\ warned' = 0
          /\ guest \notin {"read", "pulse"} /\ guest' = guest
      BY <1>3, <2>3 DEF ResetKeys, resetwarning_do, Send, notice, amiga
    <3>2. AtRest' BY <3>1, KeyboardAssumption DEF AtRest
    <3> QED BY <1>3, <3>2, PulseKept DEF WarnInv
  <2> QED BY <2>1, <2>2, <2>3
<1> QED BY <1>1, <1>2, <1>3

(* A machine that is reset when the guest lets go of the line was warned twice, and once at least if
   the first warning came in the middle of an answer, provided that answers are not late. *)
THEOREM ResetIsAnnounced == PromptAck => (KeyboardSpec => ResetAnnounced)
<1> SUFFICES ASSUME PromptAck PROVE KeyboardSpec => ResetAnnounced OBVIOUS
<1> DEFINE KInv == KeyTypes /\ RingOK /\ WarnCode /\ WarnInv
           Step == resetwarning_phase = 3 /\ resetwarning_phase' = -1 /\ resetwarning_timer # 1
                     => warned = 2 \/ (midway /\ warned = 1)
<1>1. KeyboardInit => KInv BY KeyboardInitInv
<1>2. KInv /\ [KeyboardNext]_kbvars => KInv'
  BY RingKept, TypesKept, WarnKept, WarnCodeKept
<1>3. KInv /\ [KeyboardNext]_kbvars => [Step]_kbvars BY DEF WarnInv, AtRest, Midway
<1> QED BY <1>1, <1>2, <1>3, PTL DEF KeyboardSpec, ResetAnnounced
=============================================================================
