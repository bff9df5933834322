--------------------------- MODULE Hardfile_proofs ---------------------------
(***************************************************************************)
(* Theorems about one unit of uaehf.device (Hardfile): types, the mark of  *)
(* a request that is being processed, exec's contract and the interrupts   *)
(* of a disk change.                                                       *)
(*                                                                         *)
(* They hold for any number of requests, threads, slots, openers and       *)
(* strays and any size of the two pipes.  The invariant has three layers.  *)
(* Base holds whatever happens.  Stable holds while exec's rules are kept  *)
(* (Polite), also when the device is opened again before its thread has    *)
(* ended: a request is in one place, and whoever is about to write to a    *)
(* slot knows whose slot it is.  Orderly holds while the device was not    *)
(* opened again like that: what is behind the 0 in the pipe.  ChangeInv    *)
(* adds where a change interrupt is between BeginIO and its entry.         *)
(***************************************************************************)
EXTENDS Hardfile, SequenceTheorems, FiniteSetTheorems, WellFoundedInduction, TLAPS

(* The types, in six parts. *)
TableType ==
    /\ d_request \in [Slot -> Requests \cup {None}]
    /\ d_type \in [Slot -> {"none", "temp", "changeint"}]
    /\ d_data \in [Slot -> Requests \cup {None}]

PipeType == requests \in Seq(Requests \cup {None}) /\ Len(requests) <= PipeSize

FlagsType ==
    /\ thread_running \in BOOLEAN /\ sync_sem \in Nat /\ change_sem \in {0, 1}
    /\ opens \in 0 .. MaxOpens

EmuType ==
    emu \in [at : {"guest", "start", "open", "begin", "send", "remove", "abort", "wipe",
                   "answer", "change", "caused", "reset"},
             op : {"none", "open", "begin", "remove", "abort", "change", "reset"},
             req : Requests \cup {None}, slot : 0 .. Slots + 1]

Label == {"off", "born", "read", "got", "bye", "add", "data", "wipe", "reply", "post"}
Held == [req : Requests \cup {None}, slot : 0 .. Slots]
ThreadType == at \in [Threads -> Label] /\ hold \in [Threads -> Held]

GuestType ==
    /\ owner \in [Requests -> {"guest", "device"}] /\ replies \in [Requests -> Nat]
    /\ command \in [Requests -> {"io", "add", "remove"}] /\ caused \subseteq Requests \cup {None}
    /\ strayed \in Seq(Strays)

(* The labels at which a thread has change_sem; at most one thread is there. *)
Inside == {"bye", "add", "data", "wipe", "reply", "post"}
Mutex ==
    /\ change_sem = 0 <=> \E t \in Threads : at[t] \in Inside
    /\ \A t, u \in Threads : at[t] \in Inside /\ at[u] \in Inside => t = u

(* Where the emulation thread is in the operation it carries out. *)
Asks == {"open", "begin", "remove", "abort"}
EmuInv ==
    /\ emu.at = "guest" => emu = Guest
    /\ emu.at = "start" => emu.op \in Asks
    /\ emu.at \in Asks \cup {"change", "reset"} => emu.op = emu.at
    /\ emu.at = "caused" => emu.op = "change"
    /\ emu.at = "send" => emu.op = "begin"
    /\ emu.at = "answer" => emu.op = "remove"
    /\ emu.at = "wipe" => emu.op \in {"remove", "abort", "reset"}
    /\ emu.op \in {"begin", "remove", "abort"} <=> emu.req # None
    /\ emu.at \in {"send", "wipe"} => emu.slot \in 0 .. Slots
    /\ emu.op = "reset" => emu.slot # 0
    /\ emu.op = "open" => opens < MaxOpens

(* A thread has a request in hand from reading it until it has replied. *)
Hands ==
    \A t \in Threads :
       /\ at[t] \in {"off", "born", "read", "bye", "post"} => hold[t].req = None
       /\ at[t] \in {"add", "data", "wipe", "reply"} => hold[t].req # None
       /\ at[t] \in {"add", "data"} => hold[t].slot # 0

(* A request has one slot at most. *)
OneSlot == \A i, k \in Slot : d_request[i] = d_request[k] /\ d_request[i] # None => i = k

(* A device that nobody has open has no request; thread_running does not promise too much. *)
Owned ==
    /\ opens = 0 => \A r \in Requests : owner[r] = "guest"
    /\ thread_running => Running

Base == /\ TableType /\ PipeType /\ FlagsType /\ EmuType /\ ThreadType /\ GuestType
        /\ Mutex /\ EmuInv /\ Hands /\ OneSlot /\ Owned

NoneLast(s) == \A i \in 1 .. Len(s) : s[i] = None => i = Len(s)
NoDup(s) == \A i, k \in 1 .. Len(s) : s[i] = s[k] /\ s[i] # None => i = k

(* A request is in one place, and there the device owes a reply. *)
Places ==
    /\ \A r \in Requests :
         /\ owner[r] = "guest" => replies[r] = 0
         /\ replies[r] <= 1
         /\ Queued(r) => owner[r] = "device" /\ replies[r] = 0 /\ command[r] # "remove"
         /\ ~(r \in Range(requests) /\ InHand(r))
    /\ NoDup(requests)
    /\ \A t, u \in Threads : hold[t].req = hold[u].req /\ hold[t].req # None => t = u

(* ... or in the hands of the emulation thread. *)
Calls ==
    /\ emu.op \in {"begin", "remove"} =>
         owner[emu.req] = "device" /\ replies[emu.req] = 0 /\ ~Queued(emu.req)
    /\ emu.op = "begin" => command[emu.req] # "remove"
    /\ emu.op = "remove" => command[emu.req] = "remove"

(* Whoever writes a slot knows whose it is. *)
Table ==
    /\ emu.at = "send" /\ emu.slot # 0 => d_request[emu.slot] = emu.req
    /\ \A t \in Threads :
         /\ at[t] \in {"add", "data"} =>
              command[hold[t].req] = "add" /\ Holding(hold[t].req) \subseteq {hold[t].slot}
         /\ at[t] = "data" =>
              (d_request[hold[t].slot] = hold[t].req => d_type[hold[t].slot] # "temp")
         /\ at[t] \in {"wipe", "reply"} => Holding(hold[t].req) = {}

(* What is marked as being processed is, or will be. *)
Marked ==
    \A i \in Slot : d_type[i] = "temp" /\ d_request[i] # None =>
        Queued(d_request[i]) \/ (emu.at = "send" /\ emu.slot = i)

Stable == Places /\ Calls /\ Table /\ Marked

(* A device that is in use has a thread, and its thread does not end.  Behind the 0 there is nothing. *)
InUse == opens > 0 \/ emu.op \in Asks
Ended == \E t \in Threads : at[t] = "bye" \/ (at[t] = "got" /\ hold[t].req = None)
Orderly ==
    /\ InUse => ~Leaving
    /\ opens > 0 \/ (emu.op \in Asks /\ emu.at # "start") => thread_running
    /\ emu.at = "start" /\ sync_sem > 0 => thread_running
    /\ NoneLast(requests)
    /\ Ended => requests = <<>>
    /\ requests # <<>> => Running

Reopened == Happened("reopen")
Inv == Base /\ (Polite => Stable) /\ (~Reopened => Orderly)

(* The numbers of the slots, without what else is assumed of the constants. *)
LEMMA Constants ==
    /\ None \notin Requests /\ Slots \in Nat /\ Slots >= 1 /\ MaxOpens \in Nat /\ MaxOpens >= 1
    /\ PipeSize \in Nat /\ PipeSize >= 1 /\ Slot = 1 .. Slots /\ 0 \notin Slot
  <1>1. /\ None \notin Requests /\ Slots \in Nat \ {0} /\ MaxOpens \in Nat \ {0}
        /\ PipeSize \in Nat \ {0}
    BY HardfileAssumption
  <1> QED  BY <1>1 DEF Slot

(* The lowest of some slots; sequences. *)
Below == {p \in Nat \X Nat : p[1] < p[2]}
LEMMA BelowWF == IsWellFoundedOn(Below, Nat)
  BY NatLessThanWellFounded DEF OpToRel, Below

LEMMA LowestIs ==
    ASSUME NEW S \in SUBSET Slot, S # {}
    PROVE  Lowest(S) \in S
  <1>1. S \subseteq Nat /\ S # {}
    BY Constants
  <1>2. PICK x \in S : \A y \in S : ~(<<y, x>> \in Below)
    BY <1>1, BelowWF, WFMin
  <1>3. ASSUME NEW y \in S
        PROVE  x <= y
    <2>1. x \in Nat /\ y \in Nat
      BY <1>1
    <2>2. <<y, x>> \in Nat \X Nat /\ <<y, x>>[1] = y /\ <<y, x>>[2] = x
      BY <2>1
    <2>3. ~(y < x)
      BY <1>2, <2>2 DEF Below
    <2> QED  BY <2>1, <2>3
  <1>4. \E i \in S : \A j \in S : i <= j
    BY <1>3
  <1> QED  BY <1>4 DEF Lowest


LEMMA RangeAppend ==
    ASSUME NEW S, NEW s \in Seq(S), NEW e \in S
    PROVE  /\ Append(s, e) \in Seq(S) /\ Len(Append(s, e)) = Len(s) + 1
           /\ Range(Append(s, e)) = Range(s) \cup {e}
           /\ NoDup(s) /\ (e = None \/ e \notin Range(s)) => NoDup(Append(s, e))
           /\ None \notin Range(s) => NoneLast(Append(s, e))
  <1>1. /\ Append(s, e) \in Seq(S) /\ Len(Append(s, e)) = Len(s) + 1 /\ Len(s) \in Nat
        /\ Append(s, e)[Len(s) + 1] = e /\ \A i \in 1 .. Len(s) : Append(s, e)[i] = s[i]
        /\ DOMAIN s = 1 .. Len(s) /\ DOMAIN Append(s, e) = 1 .. Len(s) + 1
    BY AppendProperties, LenProperties
  <1>2. Range(Append(s, e)) = Range(s) \cup {e}
    BY AppendProperties, LenProperties DEF Range
  <1>3. ASSUME NoDup(s), e = None \/ e \notin Range(s)
        PROVE  NoDup(Append(s, e))
    <2>1. \A i \in 1 .. Len(s) : s[i] \in Range(s)
      BY <1>1 DEF Range
    <2> QED  BY <1>1, <1>3, <2>1 DEF NoDup
  <1>4. ASSUME None \notin Range(s)
        PROVE  NoneLast(Append(s, e))
    <2>1. \A i \in 1 .. Len(s) : s[i] # None
      BY <1>1, <1>4 DEF Range
    <2> QED  BY <1>1, <2>1 DEF NoneLast
  <1> QED  BY <1>1, <1>2, <1>3, <1>4

LEMMA LastTail ==
    ASSUME NEW s, NEW u, NEW n \in Nat \ {0}, Len(s) = n, Len(u) = n - 1,
           \A i \in 1 .. n - 1 : u[i] = s[i + 1], NoneLast(s)
    PROVE  NoneLast(u) /\ (s[1] = None => Len(u) = 0)
  <1>1. \A i \in 1 .. n : s[i] = None => i = n
    BY DEF NoneLast
  <1>2. \A i \in 1 .. n - 1 : u[i] = None => i = n - 1
    <2> SUFFICES ASSUME NEW i \in 1 .. n - 1, u[i] = None
                 PROVE  i = n - 1
      OBVIOUS
    <2>1. i + 1 \in 1 .. n /\ s[i + 1] = None
      OBVIOUS
    <2> QED  BY <1>1, <2>1
  <1>3. NoneLast(u)
    BY <1>2 DEF NoneLast
  <1>4. s[1] = None => n = 1
    <2>1. 1 \in 1 .. n
      OBVIOUS
    <2> QED  BY <1>1, <2>1
  <1> QED  BY <1>3, <1>4

LEMMA RangeTail ==
    ASSUME NEW S, NEW s \in Seq(S), s # <<>>
    PROVE  /\ Head(s) \in S /\ Tail(s) \in Seq(S)
           /\ Len(s) \in Nat \ {0} /\ Len(Tail(s)) = Len(s) - 1
           /\ Range(s) = Range(Tail(s)) \cup {Head(s)}
           /\ NoDup(s) => NoDup(Tail(s)) /\ (Head(s) # None => Head(s) \notin Range(Tail(s)))
           /\ NoneLast(s) => NoneLast(Tail(s)) /\ (Head(s) = None => Tail(s) = <<>>)
  <1>1. /\ Len(s) \in Nat \ {0} /\ Head(s) = s[1] /\ Tail(s) \in Seq(S)
        /\ Len(Tail(s)) = Len(s) - 1 /\ \A i \in 1 .. Len(Tail(s)) : Tail(s)[i] = s[i + 1]
    BY HeadTailProperties, LenProperties, EmptySeq
  <1>2. DOMAIN s = 1 .. Len(s) /\ DOMAIN Tail(s) = 1 .. Len(s) - 1
    BY <1>1, LenProperties
  <1>3. s[1] \in S
    BY <1>1, ElementOfSeq
  <1>4. Range(s) = Range(Tail(s)) \cup {Head(s)}
    <2>1. ASSUME NEW x \in Range(s)
          PROVE  x \in Range(Tail(s)) \cup {Head(s)}
      <3>1. PICK i \in 1 .. Len(s) : x = s[i]
        BY <1>2 DEF Range
      <3>2. CASE i = 1
        BY <1>1, <3>1, <3>2
      <3>3. CASE i # 1
        <4>1. i - 1 \in 1 .. Len(s) - 1 /\ i - 1 + 1 = i
          BY <1>1, <3>3
        <4>2. Tail(s)[i - 1] = x
          BY <1>1, <3>1, <4>1
        <4> QED  BY <1>2, <4>1, <4>2 DEF Range
      <3> QED  BY <3>2, <3>3
    <2>2. ASSUME NEW x \in Range(Tail(s))
          PROVE  x \in Range(s)
      <3>1. PICK i \in 1 .. Len(s) - 1 : x = Tail(s)[i]
        BY <1>2 DEF Range
      <3>2. i + 1 \in 1 .. Len(s) /\ s[i + 1] = x
        BY <1>1, <3>1
      <3> QED  BY <1>2, <3>2 DEF Range
    <2>3. Head(s) \in Range(s)
      BY <1>1, <1>2 DEF Range
    <2> QED  BY <2>1, <2>2, <2>3
  <1>5. ASSUME NoDup(s)
        PROVE  NoDup(Tail(s)) /\ (Head(s) # None => Head(s) \notin Range(Tail(s)))
    <2>1. NoDup(Tail(s))
      BY <1>1, <1>5 DEF NoDup
    <2>2. ASSUME NEW i \in 1 .. Len(s) - 1, s[1] # None
          PROVE  Tail(s)[i] # s[1]
      <3>1. Tail(s)[i] = s[i + 1] /\ i + 1 \in 1 .. Len(s) /\ 1 \in 1 .. Len(s) /\ i + 1 # 1
        BY <1>1
      <3> QED  BY <1>5, <2>2, <3>1 DEF NoDup
    <2> QED  BY <1>1, <1>2, <2>1, <2>2 DEF Range
  <1>6. ASSUME NoneLast(s)
        PROVE  NoneLast(Tail(s)) /\ (Head(s) = None => Tail(s) = <<>>)
    <2>1. \A i \in 1 .. Len(s) - 1 : Tail(s)[i] = s[i + 1]
      <3>1. 1 .. Len(Tail(s)) = 1 .. Len(s) - 1
        BY <1>1
      <3> QED  BY <1>1, <3>1
    <2>2. NoneLast(Tail(s)) /\ (s[1] = None => Len(Tail(s)) = 0)
      BY <1>1, <1>6, <2>1, LastTail
    <2>3. Len(Tail(s)) = 0 => Tail(s) = <<>>
      BY <1>1, EmptySeq
    <2> QED  BY <1>1, <2>2, <2>3
  <1> QED  BY <1>1, <1>3, <1>4, <1>5, <1>6

LEMMA SeqRange ==
    /\ Len(<<>>) = 0 /\ Range(<<>>) = {} /\ NoDup(<<>>) /\ NoneLast(<<>>)
    /\ \A S : \A s \in Seq(S) : Range(s) \subseteq S /\ (Range(s) = {} => s = <<>>)
  <1>1. Len(<<>>) = 0 /\ Range(<<>>) = {} /\ NoDup(<<>>) /\ NoneLast(<<>>)
    BY DEF Range, NoDup, NoneLast
  <1>2. ASSUME NEW S, NEW s \in Seq(S)
        PROVE  Range(s) \subseteq S /\ (Range(s) = {} => s = <<>>)
    <2>1. DOMAIN s = 1 .. Len(s) /\ Len(s) \in Nat
      BY LenProperties
    <2>2. Range(s) \subseteq S
      BY <2>1, ElementOfSeq DEF Range
    <2>3. ASSUME s # <<>>
          PROVE  s[1] \in Range(s)
      BY <2>1, <2>3, EmptySeq DEF Range
    <2> QED  BY <2>2, <2>3
  <1> QED  BY <1>1, <1>2

LEMMA Released ==
    ASSUME TableType, OneSlot, NEW r \in Requests, NEW i, Put(i, None),
           i = IF Holding(r) = {} THEN 0 ELSE Lowest(Holding(r))
    PROVE  /\ i \in 0 .. Slots /\ d_request' \in [Slot -> Requests \cup {None}]
           /\ \A j \in Slot : d_request'[j] = IF d_request[j] = r THEN None ELSE d_request[j]
           /\ i # 0 => i \in Slot /\ d_request[i] = r /\ d_request'[i] = None
  <1>1. CASE Holding(r) = {}
    BY <1>1, Constants DEF Holding, Put, TableType
  <1>2. CASE Holding(r) # {}
    <2>1. i \in Holding(r)
      BY <1>2, LowestIs DEF Holding
    <2>2. i \in Slot /\ d_request[i] = r /\ i # 0
      BY <2>1, Constants DEF Holding
    <2>3. \A j \in Slot : d_request[j] = r => j = i
      BY <2>2, Constants DEF OneSlot
    <2>4. d_request' = [d_request EXCEPT ![i] = None]
      BY <2>2 DEF Put
    <2>5. i \in 0 .. Slots
      BY <2>2, Constants
    <2> QED  BY <2>2, <2>3, <2>4, <2>5 DEF TableType
  <1> QED  BY <1>1, <1>2

LEMMA Given ==
    ASSUME TableType, OneSlot, NEW r \in Requests, NEW i, i = SlotFor(r), Put(i, r)
    PROVE  /\ i \in 0 .. Slots /\ d_request' \in [Slot -> Requests \cup {None}]
           /\ i # 0 => i \in Slot /\ d_request[i] \in {r, None}
           /\ \A j \in Slot : d_request'[j] = IF j = i THEN r ELSE d_request[j]
           /\ \A j \in Slot : d_request[j] = r => j = i
  <1>1. CASE Holding(r) # {}
    <2>1. i \in Holding(r)
      BY <1>1, LowestIs DEF Holding, SlotFor
    <2>2. i \in Slot /\ d_request[i] = r /\ i # 0
      BY <2>1, Constants DEF Holding
    <2>3. \A j \in Slot : d_request[j] = r => j = i
      BY <2>2, Constants DEF OneSlot
    <2>4. d_request' = [d_request EXCEPT ![i] = r]
      BY <2>2 DEF Put
    <2>5. i \in 0 .. Slots
      BY <2>2, Constants
    <2> QED  BY <2>2, <2>3, <2>4, <2>5 DEF TableType
  <1>2. CASE Holding(r) = {} /\ Holding(None) # {}
    <2>1. i \in Holding(None)
      BY <1>2, LowestIs DEF Holding, SlotFor
    <2>2. i \in Slot /\ d_request[i] = None /\ i # 0
      BY <2>1, Constants DEF Holding
    <2>3. \A j \in Slot : d_request[j] # r
      BY <1>2 DEF Holding
    <2>4. d_request' = [d_request EXCEPT ![i] = r]
      BY <2>2 DEF Put
    <2>5. i \in 0 .. Slots
      BY <2>2, Constants
    <2> QED  BY <2>2, <2>3, <2>4, <2>5 DEF TableType
  <1>3. CASE Holding(r) = {} /\ Holding(None) = {}
    BY <1>3, Constants DEF Holding, Put, TableType, SlotFor
  <1> QED  BY <1>1, <1>2, <1>3

LEMMA Marks ==
    ASSUME TableType, NEW i \in 0 .. Slots, NEW type \in {"none", "temp", "changeint"},
           NEW data \in Requests \cup {None}, Mark(i, type, data)
    PROVE  /\ d_request' = d_request
           /\ d_type' \in [Slot -> {"none", "temp", "changeint"}]
           /\ d_data' \in [Slot -> Requests \cup {None}]
           /\ \A j \in Slot : d_type'[j] = IF j = i THEN type ELSE d_type[j]
           /\ \A j \in Slot : d_data'[j] = IF j = i THEN data ELSE d_data[j]
  BY Constants DEF Mark, TableType

(* The log of what the unit is not made for. *)
LEMMA StrayLogs ==
    ASSUME GuestType, NEW event \in Strays, Stray(event)
    PROVE  /\ strayed' \in Seq(Strays) /\ strayed' # <<>>
           /\ \A e : Happened(e)' <=> Happened(e) \/ e = event
  <1>1. strayed \in Seq(Strays) /\ strayed' = Append(strayed, event)
    BY DEF GuestType, Stray
  <1>2. /\ Append(strayed, event) \in Seq(Strays) /\ Len(Append(strayed, event)) = Len(strayed) + 1
        /\ Range(Append(strayed, event)) = Range(strayed) \cup {event} /\ Len(strayed) \in Nat
    BY <1>1, RangeAppend, LenProperties
  <1>3. strayed' # <<>>
    BY <1>1, <1>2, EmptySeq
  <1> QED  BY <1>1, <1>2, <1>3 DEF Happened

LEMMA NothingHappened ==
    /\ strayed = <<>> => \A e : ~Happened(e)
    /\ strayed' = strayed => \A e : Happened(e)' <=> Happened(e)
    /\ strayed' = <<>> => \A e : ~Happened(e)'
  BY SeqRange DEF Happened

----------------------------------------------------------------------------
(* Each step keeps Base: the emulation thread. *)

LEMMA EmuBase ==
    ASSUME Base, TableType', PipeType', FlagsType', EmuType', GuestType', EmuInv', OneSlot',
           UNCHANGED <<at, hold, change_sem>>, thread_running' => thread_running,
           opens' = 0 => \A r \in Requests : owner'[r] = "guest"
    PROVE  Base'
  <1>1. ThreadType' /\ Mutex' /\ Hands' /\ Running' = Running
    BY DEF Base, ThreadType, Mutex, Hands, Running
  <1> QED  BY <1>1 DEF Base, Owned

LEMMA StartedBase ==
    ASSUME Base, Started
    PROVE  Base' /\ emu' = [emu EXCEPT !.at = emu.op] /\ emu.op \in Asks
  <1> USE DEF Base, Started, others, Go, table, port
  <1>1. emu' = [emu EXCEPT !.at = emu.op] /\ emu.op \in Asks
    BY DEF EmuInv
  <1>2. TableType' /\ PipeType' /\ FlagsType' /\ GuestType' /\ OneSlot'
    BY DEF TableType, PipeType, FlagsType, GuestType, OneSlot
  <1>3. EmuType' /\ EmuInv'
    BY <1>1, Constants DEF EmuType, EmuInv, Asks, Guest
  <1> HIDE DEF Base
  <1> QED  BY <1>1, <1>2, <1>3, EmuBase DEF Owned, Base

LEMMA StartFailedBase ==
    ASSUME Base, StartFailed
    PROVE  Base'
  <1> USE DEF Base, StartFailed, Return, table, port
  <1>1. owner' \in [Requests -> {"guest", "device"}]
        /\ \A r \in Requests : owner[r] = "guest" => owner'[r] = "guest"
    BY DEF GuestType
  <1>2. TableType' /\ PipeType' /\ FlagsType' /\ GuestType' /\ OneSlot'
    BY <1>1 DEF TableType, PipeType, FlagsType, GuestType, OneSlot
  <1>3. EmuType' /\ EmuInv'
    BY Constants DEF EmuType, EmuInv, Asks, Guest
  <1>4. opens' = 0 => \A r \in Requests : owner'[r] = "guest"
    BY <1>1 DEF Owned
  <1> HIDE DEF Base
  <1> QED  BY <1>2, <1>3, <1>4, EmuBase

LEMMA OpenBase ==
    ASSUME Base, hardfile_open
    PROVE  Base'
  <1> USE DEF Base, hardfile_open, others, Return, table, port, sems
  <1>1. opens' \in 0 .. MaxOpens /\ opens' # 0
    BY Constants DEF FlagsType, EmuInv, Asks
  <1>2. TableType' /\ PipeType' /\ FlagsType' /\ GuestType' /\ OneSlot'
    BY <1>1 DEF TableType, PipeType, FlagsType, GuestType, OneSlot
  <1>3. EmuType' /\ EmuInv'
    BY Constants DEF EmuType, EmuInv, Asks, Guest
  <1> HIDE DEF Base
  <1> QED  BY <1>1, <1>2, <1>3, EmuBase

LEMMA CloseBase ==
    ASSUME Base, hardfile_close
    PROVE  /\ Base' /\ emu = Guest /\ opens \in Nat /\ opens' \in Nat
           /\ opens = 1 => /\ requests' = Append(requests, None)
                           /\ Range(requests') = Range(requests) \cup {None}
           /\ opens # 1 => requests' = requests /\ opens' > 0
           /\ \A r \in Requests : Queued(r)' <=> Queued(r)
  <1> USE DEF Base, hardfile_close, others, table, port, sems
  <1>1. emu = Guest /\ opens \in Nat \ {0} /\ opens' = opens - 1
    BY Constants DEF EmuInv, FlagsType
  <1>2. ASSUME opens = 1
        PROVE  /\ requests' = Append(requests, None) /\ PipeType'
               /\ Range(requests') = Range(requests) \cup {None}
    <2>1. /\ requests \in Seq(Requests \cup {None}) /\ Len(requests) < PipeSize
          /\ requests' = Append(requests, None)
      BY <1>2 DEF PipeType
    <2>2. /\ Append(requests, None) \in Seq(Requests \cup {None})
          /\ Len(Append(requests, None)) = Len(requests) + 1 /\ Len(requests) \in Nat
          /\ Range(Append(requests, None)) = Range(requests) \cup {None}
      BY <2>1, RangeAppend, LenProperties
    <2>3. PipeType'
      BY <2>1, <2>2, Constants DEF PipeType
    <2> QED  BY <2>1, <2>2, <2>3
  <1>3. ASSUME opens # 1
        PROVE  requests' = requests /\ opens' > 0 /\ PipeType'
    BY <1>1, <1>3 DEF PipeType
  <1>4. /\ PipeType' /\ (opens' = 0 => \A r \in Requests : owner'[r] = "guest")
        /\ \A r \in Requests : Queued(r)' <=> Queued(r)
    BY <1>1, <1>2, <1>3, Constants DEF Queued, InHand
  <1>5. TableType' /\ FlagsType' /\ GuestType' /\ OneSlot'
    BY <1>1, Constants DEF TableType, FlagsType, GuestType, OneSlot
  <1>6. EmuType' /\ EmuInv'
    BY <1>1, Constants DEF EmuType, EmuInv, Asks, Guest
  <1> HIDE DEF Base
  <1>7. Base'
    BY <1>4, <1>5, <1>6, EmuBase
  <1> QED  BY <1>1, <1>2, <1>3, <1>4, <1>7

LEMMA BeginIOBase ==
    ASSUME Base, BeginIO
    PROVE  /\ Base' /\ emu.op = "begin" /\ emu.req \in Requests
           /\ emu'.at = "send" /\ emu'.op = "begin" /\ emu'.req = emu.req
           /\ emu'.slot = SlotFor(emu.req) /\ SlotFor(emu.req) \in 0 .. Slots
           /\ SlotFor(emu.req) # 0 => d_request[SlotFor(emu.req)] \in {emu.req, None}
           /\ \A j \in Slot : d_request'[j] = IF j = SlotFor(emu.req) THEN emu.req ELSE d_request[j]
           /\ \A j \in Slot : d_request[j] = emu.req => j = SlotFor(emu.req)
  <1> USE DEF Base, BeginIO, others, port, sems
  <1> DEFINE r == emu.req
             i == SlotFor(emu.req)
  <1>1. emu.op = "begin" /\ r \in Requests
    BY DEF EmuInv, EmuType, Asks
  <1>2. /\ i \in 0 .. Slots /\ d_request' \in [Slot -> Requests \cup {None}]
        /\ i # 0 => i \in Slot /\ d_request[i] \in {r, None}
        /\ \A j \in Slot : d_request'[j] = IF j = i THEN r ELSE d_request[j]
        /\ \A j \in Slot : d_request[j] = r => j = i
    BY <1>1, Given
  <1>3. emu' = [emu EXCEPT !.at = "send", !.slot = i]
    OBVIOUS
  <1> HIDE DEF i
  <1>4. /\ emu'.at = "send" /\ emu'.op = "begin" /\ emu'.req = r /\ emu'.slot = i
        /\ EmuType'
    <2>1. i \in 0 .. Slots + 1
      BY <1>2, Constants
    <2> QED  BY <1>1, <1>3, <2>1 DEF EmuType
  <1>5. TableType' /\ PipeType' /\ FlagsType' /\ GuestType'
    BY <1>2 DEF TableType, PipeType, FlagsType, GuestType
  <1>6. OneSlot'
    BY <1>1, <1>2, Constants DEF OneSlot
  <1>7. EmuInv'
    BY <1>1, <1>2, <1>4, Constants DEF EmuInv, Asks
  <1> HIDE DEF Base
  <1>8. Base'
    BY <1>4, <1>5, <1>6, <1>7, EmuBase DEF Owned, Base
  <1> QED  BY <1>1, <1>2, <1>4, <1>8 DEF i

LEMMA SendBase ==
    ASSUME Base, SendRequest
    PROVE  /\ Base' /\ emu.op = "begin" /\ emu.req \in Requests /\ emu.slot \in 0 .. Slots
           /\ emu' = Guest /\ requests' = Append(requests, emu.req)
           /\ Range(requests') = Range(requests) \cup {emu.req}
           /\ d_request' = d_request
           /\ \A j \in Slot : d_type'[j] = IF j = emu.slot THEN "temp" ELSE d_type[j]
           /\ \A j \in Slot : d_data'[j] = IF j = emu.slot THEN None ELSE d_data[j]
           /\ \A q \in Requests : Queued(q)' <=> Queued(q) \/ q = emu.req
  <1> USE DEF Base, SendRequest, others, Return, port, sems
  <1> DEFINE r == emu.req
             i == emu.slot
             s == Append(requests, r)
  <1>1. emu.op = "begin" /\ r \in Requests /\ i \in 0 .. Slots /\ requests' = s
    BY DEF EmuInv, EmuType, Asks
  <1>2. requests \in Seq(Requests \cup {None}) /\ r \in Requests \cup {None}
    BY <1>1 DEF PipeType
  <1>3. /\ s \in Seq(Requests \cup {None}) /\ Len(s) = Len(requests) + 1
        /\ Range(s) = Range(requests) \cup {r} /\ Len(requests) \in Nat
    BY <1>2, RangeAppend, LenProperties
  <1> HIDE DEF s
  <1>4. /\ d_request' = d_request
        /\ d_type' \in [Slot -> {"none", "temp", "changeint"}]
        /\ d_data' \in [Slot -> Requests \cup {None}]
        /\ \A j \in Slot : d_type'[j] = IF j = i THEN "temp" ELSE d_type[j]
        /\ \A j \in Slot : d_data'[j] = IF j = i THEN None ELSE d_data[j]
    BY <1>1, Marks
  <1>5. TableType' /\ FlagsType' /\ GuestType' /\ OneSlot'
    BY <1>4 DEF TableType, FlagsType, GuestType, OneSlot
  <1>6. PipeType'
    BY <1>1, <1>3, Constants DEF PipeType
  <1>7. EmuType' /\ EmuInv'
    BY Constants DEF EmuType, EmuInv, Guest, Asks
  <1>8. \A q \in Requests : Queued(q)' <=> Queued(q) \/ q = r
    BY <1>1, <1>3 DEF Queued, InHand
  <1> HIDE DEF Base
  <1>9. Base'
    BY <1>5, <1>6, <1>7, EmuBase DEF Owned, Base
  <1> QED  BY <1>1, <1>3, <1>4, <1>8, <1>9 DEF s

(* The emulation thread takes a request from the table. *)
LEMMA ReleaseBase ==
    ASSUME Base, NEW r \in Requests, ReleaseSlot(r),
           emu.at \in {"remove", "abort", "reset"},
           emu.at # "reset" => r = emu.req, emu.at = "reset" => Holding(r) # {}
    PROVE  /\ Base' /\ emu.op = emu.at
           /\ emu'.at = "wipe" /\ emu'.op = emu.op /\ emu'.req = emu.req
           /\ \A j \in Slot : d_request'[j] = IF d_request[j] = r THEN None ELSE d_request[j]
           /\ emu'.slot # 0 => emu'.slot \in Slot /\ d_request'[emu'.slot] = None
           /\ \A j \in Slot : d_request[j] = r => emu'.slot = j
           /\ UNCHANGED <<d_type, d_data, requests, thread_running, sync_sem, opens, at, others>>
  <1> USE DEF Base, others
  <1> DEFINE i == IF Holding(r) = {} THEN 0 ELSE Lowest(Holding(r))
  <1>1. emu.op = emu.at
    BY DEF EmuInv, Asks
  <1>2. /\ Put(i, None) /\ emu' = [emu EXCEPT !.at = "wipe", !.slot = i]
        /\ UNCHANGED <<d_type, d_data, requests, thread_running, sems, opens, at, others>>
    BY DEF ReleaseSlot
  <1>3. /\ i \in 0 .. Slots /\ d_request' \in [Slot -> Requests \cup {None}]
        /\ \A j \in Slot : d_request'[j] = IF d_request[j] = r THEN None ELSE d_request[j]
        /\ i # 0 => i \in Slot /\ d_request[i] = r /\ d_request'[i] = None
    BY <1>2, Released
  <1>4. \A j \in Slot : d_request[j] = r => i = j
    <2> SUFFICES ASSUME NEW j \in Slot, d_request[j] = r
                 PROVE  i = j
      OBVIOUS
    <2>1. Holding(r) # {} /\ Holding(r) \in SUBSET Slot
      BY DEF Holding
    <2>2. i \in Holding(r)
      BY <2>1, LowestIs
    <2>3. i \in Slot /\ d_request[i] = r /\ r # None
      BY <2>2, Constants DEF Holding
    <2> HIDE DEF i
    <2> QED  BY <2>3 DEF OneSlot
  <1>5. emu.at = "reset" => i # 0
    <2>1. ASSUME Holding(r) # {}
          PROVE  i # 0
      BY <2>1, LowestIs, Constants DEF Holding
    <2> QED  BY <2>1
  <1> HIDE DEF i
  <1>6. /\ emu'.at = "wipe" /\ emu'.op = emu.op /\ emu'.req = emu.req /\ emu'.slot = i
        /\ EmuType'
    <2>1. i \in 0 .. Slots + 1
      BY <1>3, Constants
    <2> QED  BY <1>2, <2>1 DEF EmuType
  <1>7. TableType' /\ PipeType' /\ FlagsType' /\ GuestType'
    BY <1>2, <1>3 DEF TableType, PipeType, FlagsType, GuestType, sems, port
  <1>8. OneSlot'
    BY <1>3 DEF OneSlot
  <1>9. EmuInv'
    BY <1>1, <1>2, <1>3, <1>5, <1>6, Constants DEF EmuInv, Asks
  <1> HIDE DEF Base
  <1>10. Base'
    BY <1>2, <1>6, <1>7, <1>8, <1>9, EmuBase DEF Owned, Base, sems, port
  <1> QED  BY <1>1, <1>2, <1>3, <1>4, <1>6, <1>10 DEF sems

(* Which request that is, in AbortIO, CMD_REMCHANGEINT and the reset. *)
LEMMA ReleaseCalled ==
    ASSUME Base, RemoveChangeInt \/ abort_async
    PROVE  /\ ReleaseSlot(emu.req) /\ emu.req \in Requests /\ emu.at \in {"remove", "abort"}
  BY DEF Base, RemoveChangeInt, abort_async, EmuInv, EmuType, Asks

LEMMA ReleaseListed1 ==
    ASSUME Base, AbortListed, d_request[emu.slot] # None
    PROVE  /\ ReleaseSlot(d_request[emu.slot]) /\ d_request[emu.slot] \in Requests
           /\ Holding(d_request[emu.slot]) # {} /\ emu.at = "reset"
  <1>1. emu.at = "reset" /\ emu.slot \in Slot
    BY Constants DEF Base, AbortListed, EmuInv, EmuType
  <1> QED  BY <1>1 DEF Base, AbortListed, Holding, TableType

LEMMA NextSlotBase ==
    ASSUME Base, AbortListed, d_request[emu.slot] = None
    PROVE  /\ Base' /\ emu.at = "reset" /\ emu.op = "reset"
           /\ emu'.at = "reset" /\ emu'.op = "reset" /\ emu'.req = emu.req
           /\ UNCHANGED <<table, requests, thread_running, sync_sem, opens, at, others>>
  <1> USE DEF Base, others
  <1>1. /\ emu.at = "reset" /\ emu.op = "reset" /\ emu.slot \in Slot
        /\ emu' = [emu EXCEPT !.slot = @ + 1]
        /\ UNCHANGED <<table, requests, thread_running, sems, opens, at, others>>
    BY Constants DEF AbortListed, EmuInv, EmuType
  <1>2. /\ emu'.at = "reset" /\ emu'.op = "reset" /\ emu'.req = emu.req /\ emu'.slot # 0
        /\ EmuType'
    <2>1. emu.slot + 1 \in 0 .. Slots + 1 /\ emu.slot + 1 # 0
      BY <1>1, Constants
    <2> QED  BY <1>1, <2>1 DEF EmuType
  <1>3. TableType' /\ PipeType' /\ FlagsType' /\ GuestType' /\ OneSlot'
    BY <1>1 DEF TableType, PipeType, FlagsType, GuestType, OneSlot, table, sems, port
  <1>4. EmuInv'
    BY <1>1, <1>2 DEF EmuInv, Asks
  <1> HIDE DEF Base
  <1>5. Base'
    BY <1>1, <1>2, <1>3, <1>4, EmuBase DEF Owned, Base, sems, port
  <1> QED  BY <1>1, <1>2, <1>5 DEF sems

LEMMA ListedBase ==
    ASSUME Base, AbortListed
    PROVE  Base'
  BY ReleaseListed1, ReleaseBase, NextSlotBase

LEMMA WipeBase ==
    ASSUME Base, WipeSlot
    PROVE  /\ Base' /\ emu.at = "wipe" /\ emu.op \in {"remove", "abort", "reset"}
           /\ emu.slot \in 0 .. Slots /\ d_request' = d_request
           /\ \A j \in Slot : d_type'[j] = IF j = emu.slot THEN "none" ELSE d_type[j]
           /\ \A j \in Slot : d_data'[j] = IF j = emu.slot THEN None ELSE d_data[j]
           /\ emu'.op \in {"none", emu.op} /\ emu'.at \in {"guest", "answer", "reset"}
           /\ emu'.op # "none" => emu'.req = emu.req
           /\ emu.op = "reset" => emu'.op = "reset"
           /\ UNCHANGED <<requests, thread_running, sync_sem, opens, at, others>>
  <1> USE DEF Base, others
  <1> DEFINE i == emu.slot
  <1>1. /\ emu.at = "wipe" /\ emu.op \in {"remove", "abort", "reset"} /\ i \in 0 .. Slots
        /\ Mark(i, "none", None)
        /\ UNCHANGED <<requests, thread_running, sems, opens, at, others>>
    BY DEF WipeSlot, EmuInv
  <1>2. /\ d_request' = d_request
        /\ d_type' \in [Slot -> {"none", "temp", "changeint"}]
        /\ d_data' \in [Slot -> Requests \cup {None}]
        /\ \A j \in Slot : d_type'[j] = IF j = i THEN "none" ELSE d_type[j]
        /\ \A j \in Slot : d_data'[j] = IF j = i THEN None ELSE d_data[j]
    BY <1>1, Marks
  <1>3. /\ EmuType' /\ EmuInv' /\ emu'.op \in {"none", emu.op} /\ emu'.at \in {"guest", "answer", "reset"}
        /\ emu'.op # "none" => emu'.req = emu.req
        /\ emu.op = "reset" => emu'.op = "reset"
    <2>1. CASE emu.op = "abort"
      BY <1>1, <2>1, Constants DEF WipeSlot, EmuType, EmuInv, Return, Guest, Asks
    <2>2. CASE emu.op = "remove"
      BY <1>1, <2>2, Constants DEF WipeSlot, EmuType, EmuInv, Go, Asks
    <2>3. CASE emu.op = "reset"
      <3>1. emu' = [emu EXCEPT !.at = "reset", !.slot = @ + 1]
        BY <2>3 DEF WipeSlot
      <3>2. i + 1 \in 0 .. Slots + 1 /\ i + 1 # 0
        BY <1>1, Constants
      <3> QED  BY <1>1, <2>3, <3>1, <3>2 DEF EmuType, EmuInv, Asks
    <2> QED  BY <1>1, <2>1, <2>2, <2>3
  <1>4. TableType' /\ PipeType' /\ FlagsType' /\ GuestType' /\ OneSlot'
    BY <1>1, <1>2 DEF TableType, PipeType, FlagsType, GuestType, OneSlot, sems, port
  <1> HIDE DEF Base
  <1>5. Base'
    BY <1>1, <1>3, <1>4, EmuBase DEF Owned, Base, sems, port
  <1> QED  BY <1>1, <1>2, <1>3, <1>5 DEF sems

LEMMA AnswerBase ==
    ASSUME Base, Answer
    PROVE  /\ Base' /\ emu.op = "remove" /\ emu.req \in Requests /\ emu' = Guest
           /\ \A q \in Requests \ {emu.req} : owner'[q] = owner[q] /\ replies'[q] = replies[q]
           /\ \/ owner' = owner /\ replies' = [replies EXCEPT ![emu.req] = @ + 1]
              \/ owner' = [owner EXCEPT ![emu.req] = "guest"] /\ replies' = replies
  <1> USE DEF Base, Answer, Return, table, sems
  <1>1. /\ emu.op = "remove" /\ emu.req \in Requests /\ emu' = Guest
        /\ \/ owner' = owner /\ replies' = [replies EXCEPT ![emu.req] = @ + 1]
           \/ owner' = [owner EXCEPT ![emu.req] = "guest"] /\ replies' = replies
    BY DEF EmuInv, EmuType, ReplyMsg
  <1>2. /\ \A q \in Requests \ {emu.req} : owner'[q] = owner[q] /\ replies'[q] = replies[q]
        /\ owner' \in [Requests -> {"guest", "device"}] /\ replies' \in [Requests -> Nat]
        /\ \A q \in Requests : owner[q] = "guest" => owner'[q] = "guest"
    BY <1>1 DEF GuestType
  <1>3. TableType' /\ PipeType' /\ FlagsType' /\ GuestType' /\ OneSlot'
    BY <1>2 DEF TableType, PipeType, FlagsType, GuestType, OneSlot
  <1>4. EmuType' /\ EmuInv'
    BY <1>1, Constants DEF EmuType, EmuInv, Asks, Guest
  <1>5. opens' = 0 => \A r \in Requests : owner'[r] = "guest"
    BY <1>2 DEF Owned
  <1> HIDE DEF Base
  <1>6. Base'
    BY <1>3, <1>4, <1>5, EmuBase
  <1> QED  BY <1>1, <1>2, <1>6

LEMMA ChangeBase ==
    ASSUME Base, hardfile_send_disk_change \/ ChangeDone
    PROVE  /\ Base' /\ emu.op = "change" /\ emu'.op \in {"change", "none"} /\ emu'.at \in {"caused", "guest"}
           /\ UNCHANGED <<table, requests, thread_running, sync_sem, opens, at, hold, port, command, strayed>>
  <1> USE DEF Base
  <1>1. /\ emu.op = "change" /\ emu.at \in {"change", "caused"} /\ emu.req = None
        /\ UNCHANGED <<table, requests, thread_running, sems, opens, at, hold, port, command, strayed>>
        /\ emu' = Guest \/ emu' = [emu EXCEPT !.at = "caused"]
    BY DEF hardfile_send_disk_change, ChangeDone, EmuInv, Go, Return
  <1>2. /\ EmuType' /\ EmuInv'
        /\ emu'.op \in {"change", "none"} /\ emu'.at \in {"caused", "guest"}
    <2>1. CASE emu' = Guest
      BY <1>1, <2>1, Constants DEF EmuType, EmuInv, Asks, Guest
    <2>2. CASE emu' = [emu EXCEPT !.at = "caused"]
      BY <1>1, <2>2, Constants DEF EmuType, EmuInv, Asks
    <2> QED  BY <1>1, <2>1, <2>2
  <1>3. caused' \subseteq Requests \cup {None}
    BY DEF TableType, hardfile_send_disk_change, ChangeDone
  <1>4. TableType' /\ PipeType' /\ FlagsType' /\ GuestType' /\ OneSlot'
    BY <1>1, <1>3 DEF TableType, PipeType, FlagsType, GuestType, OneSlot, table, sems, port
  <1> HIDE DEF Base
  <1>5. Base'
    BY <1>1, <1>2, <1>4, EmuBase DEF Owned, Base, sems, port
  <1> QED  BY <1>1, <1>2, <1>5 DEF sems

LEMMA ResetBase ==
    ASSUME Base, hardfile_reset
    PROVE  /\ Base' /\ requests' = <<>> /\ sync_sem' = 0 /\ thread_running' = FALSE /\ opens' = 0
           /\ \A i \in Slot : d_request'[i] = None /\ d_type'[i] = "none"
           /\ emu' = Guest /\ \A r \in Requests : owner'[r] = "guest" /\ replies'[r] = 0
           /\ ~Happened("reset busy")' => \A t \in Threads : at'[t] = "off" /\ hold'[t].req = None
           /\ strayed' = <<>> => ~Happened("reset busy")'
  <1> USE DEF Base
  <1>1. /\ d_request' = [i \in Slot |-> None] /\ d_type' = [i \in Slot |-> "none"]
        /\ d_data' = [i \in Slot |-> None]
        /\ requests' = <<>> /\ sync_sem' = 0 /\ thread_running' = FALSE /\ opens' = 0
        /\ emu' = Guest /\ UNCHANGED <<change_sem, hold, command, caused>>
        /\ owner' = [q \in Requests |-> "guest"] /\ replies' = [q \in Requests |-> 0]
    BY DEF hardfile_reset, Cleared, Return
  <1>2. /\ at' \in [Threads -> Label]
        /\ \A t \in Threads : \/ at[t] \in {"off", "read"} /\ at'[t] = "off"
                              \/ ~Asleep(t) /\ at'[t] = at[t]
    BY DEF hardfile_reset, ThreadType, Asleep, Label
  <1>3. /\ strayed' \in Seq(Strays)
        /\ ~Happened("reset busy")' => \A t \in Threads : Asleep(t)
    <2>1. CASE \A t \in Threads : Asleep(t)
      <3>1. strayed' = <<>> /\ <<>> \in Seq(Strays)
        BY <2>1, EmptySeq DEF hardfile_reset
      <3> QED  BY <2>1, <3>1
    <2>2. CASE ~\A t \in Threads : Asleep(t)
      <3>1. Stray("reset busy") /\ "reset busy" \in Strays
        BY <2>2 DEF hardfile_reset, Strays
      <3> QED  BY <3>1, StrayLogs
    <2> QED  BY <2>1, <2>2
  <1>4. Len(requests') = 0 /\ requests' \in Seq(Requests \cup {None})
    BY <1>1, SeqRange, EmptySeq
  <1>5. TableType' /\ PipeType' /\ ThreadType' /\ GuestType' /\ EmuType'
    <2>1. TableType'
      BY <1>1 DEF TableType
    <2>2. PipeType'
      BY <1>4, Constants DEF PipeType
    <2>3. ThreadType' /\ GuestType'
      BY <1>1, <1>2, <1>3 DEF ThreadType, GuestType
    <2>4. EmuType'
      BY <1>1, Constants DEF EmuType, Guest
    <2> QED  BY <2>1, <2>2, <2>3, <2>4
  <1>6. FlagsType'
    <2>1. thread_running' \in BOOLEAN
      BY <1>1
    <2>2. change_sem' \in {0, 1} /\ sync_sem' \in Nat /\ opens' \in 0 .. MaxOpens
      BY <1>1, Constants DEF FlagsType
    <2> QED  BY <2>1, <2>2 DEF FlagsType
  <1>7. Mutex'
    <2>1. \A t \in Threads : at'[t] \in Inside <=> at[t] \in Inside
      BY <1>2 DEF Inside
    <2> QED  BY <1>1, <2>1 DEF Mutex
  <1>8. Hands'
    <2> SUFFICES ASSUME NEW t \in Threads
                 PROVE  /\ at'[t] \in {"off", "born", "read", "bye", "post"} => hold[t].req = None
                        /\ at'[t] \in {"add", "data", "wipe", "reply"} => hold[t].req # None
                        /\ at'[t] \in {"add", "data"} => hold[t].slot # 0
      BY <1>1 DEF Hands
    <2> QED  BY <1>2 DEF Hands
  <1>9. EmuInv' /\ OneSlot' /\ Owned'
    <2>1. EmuInv'
      BY <1>1 DEF EmuInv, Asks, Guest
    <2>2. OneSlot'
      BY <1>1 DEF OneSlot
    <2>3. Owned'
      BY <1>1 DEF Owned
    <2> QED  BY <2>1, <2>2, <2>3
  <1>10. ~Happened("reset busy")' => \A t \in Threads : at'[t] = "off" /\ hold'[t].req = None
    BY <1>1, <1>2, <1>3 DEF Hands
  <1>11. strayed' = <<>> => ~Happened("reset busy")'
    BY NothingHappened
  <1> QED  BY <1>1, <1>5, <1>6, <1>7, <1>8, <1>9, <1>10, <1>11

----------------------------------------------------------------------------
(* The guest's calls. *)

LEMMA CallBase ==
    ASSUME Base, NEW op \in Asks, NEW r \in Requests \cup {None}, Call(op, r),
           op = "open" <=> r = None, op = "open" => opens < MaxOpens,
           UNCHANGED still, GuestType',
           \A q \in Requests : opens = 0 => owner'[q] = "guest"
    PROVE  /\ Base' /\ emu = Guest /\ UNCHANGED <<hold, opens, replies>>
           /\ emu'.op = op /\ emu'.req = r
           /\ \/ /\ thread_running /\ emu'.at = op
                 /\ UNCHANGED <<table, requests, thread_running, sync_sem, at>>
              \/ /\ ~thread_running /\ ~thread_running' /\ emu'.at = "start"
                 /\ requests' = <<>> /\ sync_sem' = 0
                 /\ \A i \in Slot : d_request'[i] = None /\ d_type'[i] = "none"
                 /\ \A u \in Threads : at'[u] = at[u] \/ (at[u] = "off" /\ at'[u] = "born")
           /\ \A q \in Requests : Queued(q)' => Queued(q)
  <1> USE DEF Base, still
  <1>1. emu = Guest
    BY DEF Call, EmuInv
  <1>2. CASE thread_running
    <2>1. /\ emu' = [at |-> op, op |-> op, req |-> r, slot |-> 0]
          /\ UNCHANGED <<table, requests, thread_running, sync_sem, at>>
      BY <1>2 DEF Call
    <2>2. TableType' /\ PipeType' /\ FlagsType' /\ ThreadType' /\ EmuType'
      BY <2>1, Constants DEF TableType, PipeType, FlagsType, ThreadType, EmuType, table, Asks
    <2>3. EmuInv' /\ OneSlot'
      BY <2>1, Constants DEF EmuInv, Asks, Guest, OneSlot, table
    <2>4. Mutex' /\ Hands' /\ Owned'
      BY <2>1 DEF Mutex, Hands, Owned, Running
    <2>5. \A q \in Requests : Queued(q)' => Queued(q)
      BY <2>1 DEF Queued, InHand
    <2> QED  BY <1>1, <1>2, <2>1, <2>2, <2>3, <2>4, <2>5
  <1>3. CASE ~thread_running
    <2>1. PICK t \in Threads :
             /\ Unused(t)
             /\ d_request' = [i \in Slot |-> None] /\ d_type' = [i \in Slot |-> "none"]
             /\ d_data' = [i \in Slot |-> None]
             /\ requests' = <<>> /\ sync_sem' = 0 /\ thread_running' = FALSE
             /\ at' = [at EXCEPT ![t] = "born"]
             /\ emu' = [at |-> "start", op |-> op, req |-> r, slot |-> 0]
      BY <1>3 DEF Call, Cleared
    <2>2. /\ at[t] = "off"
          /\ \A u \in Threads : at'[u] = IF u = t THEN "born" ELSE at[u]
      BY <2>1 DEF Unused, ThreadType
    <2>3. Range(requests') = {} /\ Len(requests') = 0 /\ requests' \in Seq(Requests \cup {None})
      BY <2>1, SeqRange, EmptySeq
    <2>4. TableType' /\ OneSlot'
      BY <2>1 DEF TableType, OneSlot
    <2>5. PipeType'
      BY <2>3, Constants DEF PipeType
    <2>6. FlagsType' /\ ThreadType'
      BY <2>1, <2>2 DEF FlagsType, ThreadType, Label
    <2>7. EmuType' /\ EmuInv'
      BY <2>1, Constants DEF EmuType, EmuInv, Asks
    <2>8. Mutex'
      <3>1. \A u \in Threads : at'[u] \in Inside <=> at[u] \in Inside
        BY <2>2 DEF Inside
      <3> QED  BY <3>1 DEF Mutex
    <2>9. Hands'
      BY <2>1, <2>2 DEF Hands
    <2>10. Owned'
      BY <2>1 DEF Owned
    <2>11. \A q \in Requests : Queued(q)' => Queued(q)
      BY <2>1, <2>3 DEF Queued, InHand
    <2> QED  BY <1>1, <1>3, <2>1, <2>2, <2>4, <2>5, <2>6, <2>7, <2>8, <2>9, <2>10, <2>11
  <1> QED  BY <1>2, <1>3

(* What a call does, in the terms of the layers above. *)
Called(op, r) ==
    /\ emu = Guest /\ UNCHANGED <<hold, opens, replies>>
    /\ emu'.op = op /\ emu'.req = r
    /\ \/ /\ thread_running /\ emu'.at = op
          /\ UNCHANGED <<table, requests, thread_running, sync_sem, at>>
       \/ /\ ~thread_running /\ ~thread_running' /\ emu'.at = "start"
          /\ requests' = <<>> /\ sync_sem' = 0
          /\ \A i \in Slot : d_request'[i] = None /\ d_type'[i] = "none"
          /\ \A u \in Threads : at'[u] = at[u] \/ (at[u] = "off" /\ at'[u] = "born")
    /\ \A q \in Requests : Queued(q)' => Queued(q)

LEMMA BeginBase ==
    ASSUME Base, NEW r \in Requests, NEW c \in {"io", "add"}, Begin(r, c)
    PROVE  /\ Base' /\ Called("begin", r) /\ opens > 0 /\ owner[r] = "guest" /\ strayed' = strayed
           /\ owner'[r] = "device" /\ command'[r] = c
           /\ \A q \in Requests \ {r} : owner'[q] = owner[q] /\ command'[q] = command[q]
  <1>1. /\ opens > 0 /\ owner[r] = "guest" /\ Call("begin", r) /\ UNCHANGED still
        /\ owner' = [owner EXCEPT ![r] = "device"] /\ command' = [command EXCEPT ![r] = c]
        /\ strayed' = strayed
    BY DEF Begin
  <1>2. /\ owner'[r] = "device" /\ command'[r] = c
        /\ \A q \in Requests \ {r} : owner'[q] = owner[q] /\ command'[q] = command[q]
        /\ GuestType'
    BY <1>1 DEF Base, GuestType, still
  <1>3. opens # 0 /\ "begin" \in Asks /\ "begin" # "open" /\ r # None /\ r \in Requests \cup {None}
    BY <1>1, Constants DEF Asks, Base, FlagsType
  <1> QED  BY <1>1, <1>2, <1>3, CallBase DEF Called

LEMMA RemoveBase ==
    ASSUME Base, NEW r \in Requests, Remove(r)
    PROVE  /\ Base' /\ Called("remove", r) /\ opens > 0 /\ owner' = owner /\ owner[r] = "device"
           /\ command[r] = "add" /\ command'[r] = "remove"
           /\ \A q \in Requests \ {r} : command'[q] = command[q]
           /\ \/ r \in Registered /\ strayed' = strayed
              \/ Happened("remove queued")' /\ \A e : Happened(e) => Happened(e)'
  <1>1. /\ Call("remove", r) /\ UNCHANGED <<still, owner>> /\ owner[r] = "device" /\ command[r] = "add"
        /\ command' = [command EXCEPT ![r] = "remove"]
    BY DEF Remove, Registered
  <1>2. /\ strayed' \in Seq(Strays)
        /\ \/ r \in Registered /\ strayed' = strayed
           \/ Happened("remove queued")' /\ \A e : Happened(e) => Happened(e)'
    <2>1. CASE Stray("remove queued")
      <3>1. "remove queued" \in Strays /\ GuestType
        BY DEF Strays, Base
      <3> QED  BY <2>1, <3>1, StrayLogs
    <2>2. CASE ~Stray("remove queued")
      BY <2>2 DEF Remove, Base, GuestType
    <2> QED  BY <2>1, <2>2
  <1>3. /\ command'[r] = "remove" /\ \A q \in Requests \ {r} : command'[q] = command[q]
        /\ owner' = owner /\ GuestType'
    BY <1>1, <1>2 DEF Base, GuestType, still
  <1>4. opens > 0 /\ opens # 0 /\ "remove" \in Asks /\ "remove" # "open" /\ r # None /\ r \in Requests \cup {None}
    BY <1>1, Constants DEF Asks, Base, FlagsType, Owned
  <1> QED  BY <1>1, <1>2, <1>3, <1>4, CallBase DEF Called

LEMMA AbortIOBase ==
    ASSUME Base, NEW r \in Requests, AbortIO(r)
    PROVE  /\ Base' /\ Called("abort", r) /\ opens > 0 /\ UNCHANGED <<owner, command>> /\ owner[r] = "device"
           /\ \A e : Happened(e) => Happened(e)'
           /\ (command[r] = "io" /\ strayed' = strayed) \/ strayed' # <<>>
  <1>1. /\ owner[r] = "device" /\ Call("abort", r) /\ UNCHANGED <<still, owner, command>>
        /\ \/ command[r] = "io" /\ strayed' = strayed
           \/ Stray("abort change")
    BY DEF AbortIO
  <1>2. /\ strayed' \in Seq(Strays) /\ \A e : Happened(e) => Happened(e)'
        /\ (command[r] = "io" /\ strayed' = strayed) \/ strayed' # <<>>
    <2>1. CASE Stray("abort change")
      <3>1. "abort change" \in Strays /\ GuestType
        BY DEF Strays, Base
      <3> QED  BY <2>1, <3>1, StrayLogs
    <2>2. CASE command[r] = "io" /\ strayed' = strayed
      BY <2>2 DEF Base, GuestType, Happened
    <2> QED  BY <1>1, <2>1, <2>2
  <1>3. GuestType'
    BY <1>1, <1>2 DEF Base, GuestType, still
  <1>4. opens > 0 /\ opens # 0 /\ "abort" \in Asks /\ "abort" # "open" /\ r # None /\ r \in Requests \cup {None}
    <2>1. owner[r] = "device"
      BY <1>1
    <2> QED  BY <2>1, Constants DEF Asks, Base, FlagsType, Owned
  <1> QED  BY <1>1, <1>2, <1>3, <1>4, CallBase DEF Called

LEMMA OpenDeviceBase ==
    ASSUME Base, OpenDevice
    PROVE  /\ Base' /\ Called("open", None) /\ UNCHANGED <<owner, command>>
           /\ \A e : Happened(e) => Happened(e)'
           /\ (~Leaving /\ strayed' = strayed) \/ (strayed' # <<>> /\ Reopened')
  <1>1. /\ opens < MaxOpens /\ Call("open", None) /\ UNCHANGED <<still, owner, command>>
        /\ \/ ~Leaving /\ strayed' = strayed
           \/ Stray("reopen")
    BY DEF OpenDevice
  <1>2. /\ strayed' \in Seq(Strays) /\ \A e : Happened(e) => Happened(e)'
        /\ (~Leaving /\ strayed' = strayed) \/ (strayed' # <<>> /\ Reopened')
    <2>1. CASE Stray("reopen")
      <3>1. "reopen" \in Strays /\ GuestType
        BY DEF Strays, Base
      <3> QED  BY <2>1, <3>1, StrayLogs DEF Reopened
    <2>2. CASE ~Leaving /\ strayed' = strayed
      BY <2>2 DEF Base, GuestType, Happened
    <2> QED  BY <1>1, <2>1, <2>2
  <1>3. GuestType'
    BY <1>1, <1>2 DEF Base, GuestType, still
  <1>4. \A q \in Requests : opens = 0 => owner'[q] = "guest"
    BY <1>1 DEF Base, Owned
  <1>5. "open" \in Asks /\ None \in Requests \cup {None}
    BY DEF Asks
  <1> QED  BY <1>1, <1>2, <1>3, <1>4, <1>5, CallBase DEF Called

LEMMA ReceiveBase ==
    ASSUME Base, NEW r \in Requests, Receive(r)
    PROVE  /\ Base' /\ emu = Guest /\ replies[r] > 0
           /\ UNCHANGED <<table, requests, thread_running, sems, opens, emu, at, hold, command, strayed>>
           /\ owner' = [owner EXCEPT ![r] = "guest"] /\ replies' = [replies EXCEPT ![r] = @ - 1]
  <1> USE DEF Base, Receive, sems, table
  <1>1. emu = Guest
    BY DEF EmuInv
  <1>2. TableType' /\ PipeType' /\ FlagsType' /\ EmuType' /\ EmuInv' /\ OneSlot'
    BY DEF TableType, PipeType, FlagsType, EmuType, EmuInv, OneSlot
  <1>3. GuestType' /\ \A q \in Requests : owner[q] = "guest" => owner'[q] = "guest"
    BY DEF GuestType
  <1> HIDE DEF Base
  <1> QED  BY <1>1, <1>2, <1>3, EmuBase DEF Owned, Base

LEMMA EventBase ==
    ASSUME Base, NEW op \in {"change", "reset"}, HostEvent(op)
    PROVE  /\ Base' /\ emu = Guest /\ emu'.at = op /\ emu'.op = op /\ emu'.req = None
           /\ UNCHANGED <<table, requests, thread_running, sems, opens, at, hold, owner, replies, command, strayed>>
  <1> USE DEF Base, HostEvent, sems, table, still
  <1>1. emu = Guest
    BY DEF EmuInv
  <1>2. TableType' /\ PipeType' /\ FlagsType' /\ GuestType' /\ OneSlot'
    BY DEF TableType, PipeType, FlagsType, GuestType, OneSlot
  <1>3. EmuType' /\ EmuInv'
    BY Constants DEF EmuType, EmuInv, Asks
  <1> HIDE DEF Base
  <1> QED  BY <1>1, <1>2, <1>3, EmuBase DEF Owned, Base

----------------------------------------------------------------------------
(* The threads of the unit. *)

LEMMA ThreadBase ==
    ASSUME Base, NEW t \in Threads, TableType', PipeType', ThreadType', GuestType', OneSlot',
           thread_running' \in BOOLEAN, sync_sem' \in Nat, UNCHANGED <<opens, emu, owner>>,
           \A u \in Threads \ {t} : at'[u] = at[u] /\ hold'[u] = hold[u],
           at'[t] \in {"off", "born", "read", "bye", "post"} => hold'[t].req = None,
           at'[t] \in {"add", "data", "wipe", "reply"} => hold'[t].req # None,
           at'[t] \in {"add", "data"} => hold'[t].slot # 0,
           \/ change_sem' = change_sem /\ (at'[t] \in Inside <=> at[t] \in Inside)
           \/ change_sem > 0 /\ change_sem' = change_sem - 1 /\ at'[t] \in Inside
           \/ change_sem' = change_sem + 1 /\ at[t] \in Inside /\ at'[t] \notin Inside,
           thread_running' => at'[t] \in Alive \/ (thread_running /\ at[t] \notin Alive)
    PROVE  Base'
  <1> USE DEF Base
  <1>1. Hands'
    BY DEF Hands
  <1>2. change_sem \in {0, 1}
    BY DEF FlagsType
  <1>3. Mutex' /\ change_sem' \in {0, 1}
    <2>1. CASE change_sem' = change_sem /\ (at'[t] \in Inside <=> at[t] \in Inside)
      BY <1>2, <2>1 DEF Mutex
    <2>2. CASE change_sem > 0 /\ change_sem' = change_sem - 1 /\ at'[t] \in Inside
      BY <1>2, <2>2 DEF Mutex
    <2>3. CASE change_sem' = change_sem + 1 /\ at[t] \in Inside /\ at'[t] \notin Inside
      BY <1>2, <2>3 DEF Mutex
    <2> QED  BY <2>1, <2>2, <2>3
  <1>4. FlagsType' /\ EmuType' /\ EmuInv'
    BY <1>3 DEF FlagsType, EmuType, EmuInv
  <1>5. Owned'
    <2>1. thread_running' => Running'
      <3>1. CASE at'[t] \in Alive
        BY <3>1 DEF Running
      <3>2. CASE thread_running /\ at[t] \notin Alive
        <4>1. PICK u \in Threads : at[u] \in Alive
          BY <3>2 DEF Owned, Running
        <4> QED  BY <3>2, <4>1 DEF Running
      <3> QED  BY <3>1, <3>2
    <2> QED  BY <2>1 DEF Owned
  <1> QED  BY <1>1, <1>3, <1>4, <1>5

LEMMA BornBase ==
    ASSUME Base, NEW t \in Threads, Born(t)
    PROVE  /\ Base' /\ at[t] = "born" /\ at'[t] = "read" /\ thread_running' = TRUE
           /\ \A u \in Threads \ {t} : at'[u] = at[u]
  <1> USE DEF Base, Born, Jump, emulation, table, port
  <1>1. /\ at[t] = "born" /\ at'[t] = "read" /\ at' \in [Threads -> Label]
        /\ \A u \in Threads \ {t} : at'[u] = at[u]
    BY DEF ThreadType, Label
  <1>2. TableType' /\ PipeType' /\ ThreadType' /\ GuestType' /\ OneSlot'
    BY <1>1 DEF TableType, PipeType, ThreadType, GuestType, OneSlot
  <1>3. hold[t].req = None /\ sync_sem' \in Nat /\ thread_running' = TRUE
    BY <1>1 DEF Hands, FlagsType
  <1>4. at'[t] \in Alive /\ (at'[t] \in Inside <=> at[t] \in Inside) /\ thread_running' \in BOOLEAN
    BY <1>1, <1>3 DEF Alive, Inside
  <1> HIDE DEF Base
  <1>5. Base'
    BY <1>1, <1>2, <1>3, <1>4, ThreadBase
  <1> QED  BY <1>1, <1>3, <1>5

LEMMA ReadBase ==
    ASSUME Base, NEW t \in Threads, ReadRequest(t)
    PROVE  /\ Base' /\ at[t] = "read" /\ at'[t] = "got" /\ hold[t].req = None /\ requests # <<>>
           /\ hold'[t].req = Head(requests) /\ requests' = Tail(requests)
           /\ requests \in Seq(Requests \cup {None})
           /\ \A u \in Threads \ {t} : at'[u] = at[u] /\ hold'[u] = hold[u]
           /\ \A r \in Requests : Queued(r)' <=> Queued(r)
  <1> USE DEF Base
  <1>1. /\ at[t] = "read" /\ hold[t].req = None /\ requests # <<>> /\ requests \in Seq(Requests \cup {None})
        /\ requests' = Tail(requests) /\ at' = [at EXCEPT ![t] = "got"]
        /\ hold' = [hold EXCEPT ![t].req = Head(requests)]
        /\ UNCHANGED <<table, thread_running, sems, opens, emu, port, command, caused, strayed>>
    BY DEF ReadRequest, Jump, emulation, Hands, PipeType
  <1>2. /\ Head(requests) \in Requests \cup {None} /\ Tail(requests) \in Seq(Requests \cup {None})
        /\ Len(requests) \in Nat /\ Len(Tail(requests)) = Len(requests) - 1
        /\ Range(requests) = Range(Tail(requests)) \cup {Head(requests)}
    BY <1>1, RangeTail
  <1>3. /\ at'[t] = "got" /\ at' \in [Threads -> Label]
        /\ \A u \in Threads \ {t} : at'[u] = at[u]
    BY <1>1 DEF ThreadType, Label
  <1>4. /\ hold' \in [Threads -> Held] /\ hold'[t].req = Head(requests)
        /\ \A u \in Threads \ {t} : hold'[u] = hold[u]
    <2> DEFINE q == Head(requests)
    <2>1. q \in Requests \cup {None} /\ hold' = [hold EXCEPT ![t].req = q] /\ hold \in [Threads -> Held]
      BY <1>1, <1>2 DEF ThreadType
    <2> HIDE DEF q
    <2>2. hold' \in [Threads -> Held]
      BY <2>1 DEF Held
    <2>3. hold'[t].req = q /\ \A u \in Threads \ {t} : hold'[u] = hold[u]
      BY <2>1 DEF Held
    <2> QED  BY <2>2, <2>3 DEF q
  <1>5. PipeType'
    BY <1>1, <1>2, Constants DEF PipeType
  <1>6. TableType' /\ ThreadType' /\ GuestType' /\ OneSlot'
    BY <1>1, <1>3, <1>4 DEF TableType, ThreadType, GuestType, OneSlot, table, port
  <1>7. \A r \in Requests : Queued(r)' <=> Queued(r)
    <2> SUFFICES ASSUME NEW r \in Requests
                 PROVE  Queued(r)' <=> Queued(r)
      OBVIOUS
    <2>1. InHand(r)' <=> InHand(r) \/ r = Head(requests)
      BY <1>1, <1>4, Constants DEF InHand
    <2> QED  BY <1>1, <1>2, <2>1 DEF Queued
  <1>8. /\ thread_running' \in BOOLEAN /\ sync_sem' \in Nat /\ UNCHANGED <<opens, emu, owner>>
        /\ change_sem' = change_sem /\ (at'[t] \in Inside <=> at[t] \in Inside) /\ at'[t] \in Alive
    BY <1>1, <1>3 DEF FlagsType, sems, port, Alive, Inside
  <1> HIDE DEF Base
  <1>9. Base'
    BY <1>3, <1>4, <1>5, <1>6, <1>8, ThreadBase
  <1> QED  BY <1>1, <1>3, <1>4, <1>7, <1>9

LEMMA StopBase ==
    ASSUME Base, NEW t \in Threads, Stop(t)
    PROVE  /\ Base' /\ at[t] = "got" /\ hold[t].req = None /\ at'[t] = "bye" /\ ~thread_running'
           /\ \A u \in Threads \ {t} : at'[u] = at[u]
           /\ UNCHANGED <<table, requests, sync_sem, hold, opens, emu, port, command, caused, strayed>>
  <1> USE DEF Base
  <1>1. /\ at[t] = "got" /\ hold[t].req = None /\ change_sem > 0 /\ change_sem' = change_sem - 1
        /\ thread_running' = FALSE /\ at' = [at EXCEPT ![t] = "bye"]
        /\ UNCHANGED <<table, requests, sync_sem, hold, opens, emu, port, command, caused, strayed>>
    BY DEF Stop, Jump, emulation
  <1>2. /\ at'[t] = "bye" /\ at' \in [Threads -> Label]
        /\ \A u \in Threads \ {t} : at'[u] = at[u]
    BY <1>1 DEF ThreadType, Label
  <1>3. TableType' /\ PipeType' /\ ThreadType' /\ GuestType' /\ OneSlot'
    BY <1>1, <1>2 DEF TableType, PipeType, ThreadType, GuestType, OneSlot, table, port
  <1>4. /\ thread_running' \in BOOLEAN /\ sync_sem' \in Nat /\ UNCHANGED <<opens, emu, owner, hold>>
        /\ at'[t] \in Inside /\ ~thread_running'
    BY <1>1, <1>2 DEF FlagsType, port, Inside
  <1> HIDE DEF Base
  <1>5. Base'
    BY <1>1, <1>2, <1>3, <1>4, ThreadBase
  <1> QED  BY <1>1, <1>2, <1>4, <1>5

LEMMA ByeBase ==
    ASSUME Base, NEW t \in Threads, Bye(t)
    PROVE  /\ Base' /\ at[t] = "bye" /\ at'[t] = "off"
           /\ \A u \in Threads \ {t} : at'[u] = at[u]
           /\ UNCHANGED <<table, requests, thread_running, hold, opens, emu, port, command, caused, strayed>>
  <1> USE DEF Base
  <1>1. /\ at[t] = "bye" /\ change_sem' = change_sem + 1 /\ sync_sem' = sync_sem + 1
        /\ at' = [at EXCEPT ![t] = "off"]
        /\ UNCHANGED <<table, requests, thread_running, hold, opens, emu, port, command, caused, strayed>>
    BY DEF Bye, Jump, emulation
  <1>2. /\ at'[t] = "off" /\ at' \in [Threads -> Label] /\ hold[t].req = None
        /\ \A u \in Threads \ {t} : at'[u] = at[u]
    BY <1>1 DEF ThreadType, Label, Hands
  <1>3. TableType' /\ PipeType' /\ ThreadType' /\ GuestType' /\ OneSlot'
    BY <1>1, <1>2 DEF TableType, PipeType, ThreadType, GuestType, OneSlot, table, port
  <1>4. /\ thread_running' \in BOOLEAN /\ sync_sem' \in Nat /\ UNCHANGED <<opens, emu, owner, hold>>
        /\ at[t] \in Inside /\ at'[t] \notin Inside /\ at[t] \notin Alive
        /\ thread_running' => thread_running
    BY <1>1, <1>2 DEF FlagsType, port, Inside, Alive
  <1> HIDE DEF Base
  <1>5. Base'
    BY <1>1, <1>2, <1>3, <1>4, ThreadBase
  <1> QED  BY <1>1, <1>2, <1>5

(* A thread at work: it changes the table and its own labels, and lives on. *)
Works(t) ==
    /\ UNCHANGED <<requests, thread_running, sync_sem, opens, emu, owner, command, strayed>>
    /\ at[t] \in Alive \ {"read"} /\ at'[t] \in Alive \ {"got"}
    /\ ~(at[t] = "got" /\ hold[t].req = None)
    /\ \A u \in Threads \ {t} : at'[u] = at[u] /\ hold'[u] = hold[u]

LEMMA DoIOBase ==
    ASSUME Base, NEW t \in Threads, hardfile_do_io(t)
    PROVE  /\ Base' /\ Works(t) /\ replies' = replies
           /\ hold[t].req \in Requests /\ at[t] = "got" /\ hold'[t].req = hold[t].req
           /\ UNCHANGED <<d_type, d_data>>
           /\ \A j \in Slot : d_request[j] # hold[t].req =>
                 \/ d_request'[j] = d_request[j]
                 \/ d_request[j] = None /\ d_request'[j] = hold[t].req /\ at'[t] = "add" /\ j = hold'[t].slot
           /\ \A j \in Slot : d_request[j] = hold[t].req =>
                 IF at'[t] = "add" THEN d_request'[j] = d_request[j] ELSE d_request'[j] = None
           /\ \/ /\ at'[t] = "add" /\ command[hold[t].req] = "add" /\ hold'[t].slot \in Slot
                 /\ hold'[t].slot = SlotFor(hold[t].req)
                 /\ \A j \in Slot : d_request'[j] = hold[t].req <=> j = hold'[t].slot
              \/ /\ at'[t] = "wipe" /\ \A j \in Slot : d_request'[j] # hold[t].req
                 /\ ~(command[hold[t].req] = "add" /\ SlotFor(hold[t].req) # 0)
                 /\ hold'[t].slot \in 0 .. Slots
                 /\ hold'[t].slot # 0 => d_request[hold'[t].slot] = hold[t].req
                 /\ \A j \in Slot : d_request[j] = hold[t].req => j = hold'[t].slot
  <1> USE DEF Base
  <1> DEFINE r == hold[t].req
             add == command[r] = "add" /\ SlotFor(r) # 0
             i == IF add THEN SlotFor(r) ELSE IF Holding(r) = {} THEN 0 ELSE Lowest(Holding(r))
  <1>1. /\ at[t] = "got" /\ r # None /\ change_sem > 0 /\ change_sem' = change_sem - 1
        /\ Put(i, IF add THEN r ELSE None) /\ hold' = [hold EXCEPT ![t].slot = i]
        /\ at' = [at EXCEPT ![t] = IF add THEN "add" ELSE "wipe"]
        /\ UNCHANGED <<d_type, d_data, requests, thread_running, sync_sem, opens, emu, owner, replies, command, caused, strayed>>
    BY DEF hardfile_do_io, Jump, emulation, port
  <1>2. r \in Requests
    BY <1>1 DEF ThreadType, Held
  <1>3. /\ i \in 0 .. Slots /\ d_request' \in [Slot -> Requests \cup {None}]
        /\ add => /\ i \in Slot /\ d_request[i] \in {r, None}
                  /\ \A j \in Slot : d_request'[j] = IF j = i THEN r ELSE d_request[j]
                  /\ \A j \in Slot : d_request[j] = r => j = i
        /\ ~add => /\ \A j \in Slot : d_request'[j] = IF d_request[j] = r THEN None ELSE d_request[j]
                   /\ i # 0 => d_request[i] = r
                   /\ \A j \in Slot : d_request[j] = r => j = i
    <2>1. CASE add
      <3>1. i = SlotFor(r) /\ Put(i, r) /\ i # 0
        BY <1>1, <2>1
      <3> HIDE DEF i
      <3>2. /\ i \in 0 .. Slots /\ d_request' \in [Slot -> Requests \cup {None}]
            /\ i # 0 => i \in Slot /\ d_request[i] \in {r, None}
            /\ \A j \in Slot : d_request'[j] = IF j = i THEN r ELSE d_request[j]
            /\ \A j \in Slot : d_request[j] = r => j = i
        BY <1>2, <3>1, Given
      <3> HIDE DEF add, r
      <3> QED  BY <2>1, <3>1, <3>2
    <2>2. CASE ~add
      <3>1. i = (IF Holding(r) = {} THEN 0 ELSE Lowest(Holding(r))) /\ Put(i, None)
        BY <1>1, <2>2
      <3> HIDE DEF i
      <3>2. /\ i \in 0 .. Slots /\ d_request' \in [Slot -> Requests \cup {None}]
            /\ \A j \in Slot : d_request'[j] = IF d_request[j] = r THEN None ELSE d_request[j]
            /\ i # 0 => i \in Slot /\ d_request[i] = r
        BY <1>2, <3>1, Released
      <3>3. \A j \in Slot : d_request[j] = r => j = i
        <4> SUFFICES ASSUME NEW j \in Slot, d_request[j] = r
                     PROVE  j = i
          OBVIOUS
        <4>1. Holding(r) # {} /\ Holding(r) \in SUBSET Slot
          BY DEF Holding
        <4>2. i \in Holding(r)
          BY <3>1, <4>1, LowestIs
        <4>3. i \in Slot /\ d_request[i] = r
          BY <4>2 DEF Holding
        <4> QED  BY <1>1, <4>3 DEF OneSlot
      <3> HIDE DEF add, r
      <3> QED  BY <2>2, <3>2, <3>3
    <2> QED  BY <2>1, <2>2
  <1>4. add => i = SlotFor(r) /\ i # 0
    OBVIOUS
  <1> HIDE DEF i
  <1>5. /\ hold' \in [Threads -> Held]
        /\ hold'[t].req = r /\ hold'[t].slot = i /\ \A u \in Threads \ {t} : hold'[u] = hold[u]
    BY <1>1, <1>3 DEF ThreadType, Held
  <1>6. /\ at' \in [Threads -> Label]
        /\ at'[t] = (IF add THEN "add" ELSE "wipe") /\ \A u \in Threads \ {t} : at'[u] = at[u]
    BY <1>1 DEF ThreadType, Label
  <1>7. TableType' /\ OneSlot'
    <2>1. TableType'
      BY <1>1, <1>3 DEF TableType
    <2>2. OneSlot'
      <3> HIDE DEF add, r
      <3>1. CASE add
        BY <1>2, <1>3, <3>1 DEF OneSlot
      <3>2. CASE ~add
        BY <1>2, <1>3, <3>2 DEF OneSlot
      <3> QED  BY <3>1, <3>2
    <2> QED  BY <2>1, <2>2
  <1>8. PipeType' /\ ThreadType' /\ GuestType'
    BY <1>1, <1>5, <1>6 DEF PipeType, ThreadType, GuestType
  <1>9. /\ thread_running' \in BOOLEAN /\ sync_sem' \in Nat /\ UNCHANGED <<opens, emu, owner>>
        /\ at'[t] \in Inside /\ at'[t] \in Alive
    BY <1>1, <1>6 DEF FlagsType, Inside, Alive
  <1>10. Works(t)
    BY <1>1, <1>5, <1>6 DEF Works, Alive
  <1> HIDE DEF Base
  <1>11. Base'
    <2>1. at'[t] \in {"add", "wipe"} /\ (at'[t] = "add" => hold'[t].slot # 0) /\ hold'[t].req # None
      BY <1>1, <1>4, <1>5, <1>6
    <2> QED  BY <1>1, <1>5, <1>6, <1>7, <1>8, <1>9, <2>1, ThreadBase
  <1>12. CASE add
    <2>1. at'[t] = "add" /\ command[r] = "add"
      BY <1>6, <1>12
    <2>2. /\ i \in Slot /\ i = SlotFor(r) /\ d_request[i] \in {r, None}
          /\ \A j \in Slot : d_request'[j] = IF j = i THEN r ELSE d_request[j]
          /\ \A j \in Slot : d_request[j] = r => j = i
      BY <1>3, <1>4, <1>12
    <2> HIDE DEF add, r
    <2>3. \A j \in Slot : d_request[j] # r =>
                 \/ d_request'[j] = d_request[j]
                 \/ d_request[j] = None /\ d_request'[j] = r /\ at'[t] = "add" /\ j = hold'[t].slot
      BY <1>5, <2>1, <2>2
    <2>4. \A j \in Slot : d_request'[j] = r <=> j = hold'[t].slot
      BY <1>5, <2>2
    <2>5. \A j \in Slot : d_request[j] = r => d_request'[j] = d_request[j]
      BY <2>2
    <2> QED  BY <1>1, <1>2, <1>5, <1>10, <1>11, <2>1, <2>2, <2>3, <2>4, <2>5 DEF r
  <1>13. CASE ~add
    <2>1. at'[t] = "wipe" /\ ~(command[r] = "add" /\ SlotFor(r) # 0)
      BY <1>6, <1>13
    <2>2. /\ \A j \in Slot : d_request'[j] = IF d_request[j] = r THEN None ELSE d_request[j]
          /\ i # 0 => d_request[i] = r /\ i \in 0 .. Slots
          /\ \A j \in Slot : d_request[j] = r => j = i
      BY <1>3, <1>13
    <2> HIDE DEF add, r
    <2>3. \A j \in Slot : d_request'[j] # r
      BY <1>1, <2>2
    <2> QED  BY <1>1, <1>2, <1>3, <1>5, <1>10, <1>11, <2>1, <2>2, <2>3 DEF r
  <1> QED  BY <1>12, <1>13

LEMMA AddTypeBase ==
    ASSUME Base, NEW t \in Threads, AddType(t)
    PROVE  /\ Base' /\ Works(t) /\ at[t] = "add" /\ at'[t] = "data" /\ hold[t].slot \in Slot
           /\ UNCHANGED <<d_request, d_data, hold, replies, change_sem>>
           /\ \A j \in Slot : d_type'[j] = IF j = hold[t].slot THEN "changeint" ELSE d_type[j]
  <1> USE DEF Base
  <1>1. /\ at[t] = "add" /\ at' = [at EXCEPT ![t] = "data"]
        /\ d_type' = [d_type EXCEPT ![hold[t].slot] = "changeint"]
        /\ UNCHANGED <<d_request, d_data, requests, thread_running, sync_sem, change_sem, hold, opens, emu,
                       owner, replies, command, caused, strayed>>
    BY DEF AddType, Jump, emulation, port, sems
  <1>2. hold[t].slot \in Slot /\ hold[t].slot # 0 /\ hold[t].req # None
    BY <1>1, Constants DEF Hands, ThreadType, Held
  <1>3. /\ at' \in [Threads -> Label]
        /\ at'[t] = "data" /\ \A u \in Threads \ {t} : at'[u] = at[u]
    BY <1>1 DEF ThreadType, Label
  <1>4. TableType' /\ OneSlot' /\ PipeType' /\ ThreadType' /\ GuestType'
    BY <1>1, <1>2, <1>3 DEF TableType, OneSlot, PipeType, ThreadType, GuestType
  <1>5. /\ thread_running' \in BOOLEAN /\ sync_sem' \in Nat /\ UNCHANGED <<opens, emu, owner, hold>>
        /\ change_sem' = change_sem /\ (at'[t] \in Inside <=> at[t] \in Inside) /\ at'[t] \in Alive
    BY <1>1, <1>3 DEF FlagsType, Inside, Alive
  <1>6. Works(t)
    BY <1>1, <1>3 DEF Works, Alive
  <1>7. \A j \in Slot : d_type'[j] = IF j = hold[t].slot THEN "changeint" ELSE d_type[j]
    BY <1>1, <1>2 DEF TableType
  <1> HIDE DEF Base
  <1>8. Base'
    BY <1>2, <1>3, <1>4, <1>5, ThreadBase
  <1> QED  BY <1>1, <1>2, <1>3, <1>6, <1>7, <1>8

LEMMA AddDataBase ==
    ASSUME Base, NEW t \in Threads, AddData(t)
    PROVE  /\ Base' /\ Works(t) /\ at[t] = "data" /\ at'[t] = "post" /\ hold[t].slot \in Slot
           /\ hold[t].req \in Requests /\ hold'[t].req = None
           /\ UNCHANGED <<d_request, d_type, replies, change_sem>>
           /\ \A j \in Slot : d_data'[j] = IF j = hold[t].slot THEN hold[t].req ELSE d_data[j]
  <1> USE DEF Base
  <1>1. /\ at[t] = "data" /\ at' = [at EXCEPT ![t] = "post"]
        /\ d_data' = [d_data EXCEPT ![hold[t].slot] = hold[t].req] /\ hold' = [hold EXCEPT ![t] = Empty]
        /\ UNCHANGED <<d_request, d_type, requests, thread_running, sync_sem, change_sem, opens, emu,
                       owner, replies, command, caused, strayed>>
    BY DEF AddData, Jump, emulation, port, sems
  <1>2. hold[t].slot \in Slot /\ hold[t].req \in Requests
    BY <1>1, Constants DEF Hands, ThreadType, Held
  <1>3. /\ at' \in [Threads -> Label]
        /\ at'[t] = "post" /\ \A u \in Threads \ {t} : at'[u] = at[u]
    BY <1>1 DEF ThreadType, Label
  <1>4. /\ hold' \in [Threads -> Held]
        /\ hold'[t].req = None /\ \A u \in Threads \ {t} : hold'[u] = hold[u]
    BY <1>1, Constants DEF ThreadType, Held, Empty
  <1>5. TableType' /\ OneSlot' /\ PipeType' /\ ThreadType' /\ GuestType'
    BY <1>1, <1>2, <1>3, <1>4 DEF TableType, OneSlot, PipeType, ThreadType, GuestType
  <1>6. /\ thread_running' \in BOOLEAN /\ sync_sem' \in Nat /\ UNCHANGED <<opens, emu, owner>>
        /\ change_sem' = change_sem /\ (at'[t] \in Inside <=> at[t] \in Inside) /\ at'[t] \in Alive
    BY <1>1, <1>3 DEF FlagsType, Inside, Alive
  <1>7. Works(t)
    BY <1>1, <1>3, <1>4 DEF Works, Alive
  <1>8. \A j \in Slot : d_data'[j] = IF j = hold[t].slot THEN hold[t].req ELSE d_data[j]
    BY <1>1, <1>2 DEF TableType
  <1> HIDE DEF Base
  <1>9. Base'
    BY <1>3, <1>4, <1>5, <1>6, ThreadBase
  <1> QED  BY <1>1, <1>2, <1>3, <1>4, <1>7, <1>8, <1>9

LEMMA ReleaseDoneBase ==
    ASSUME Base, NEW t \in Threads, ReleaseDone(t)
    PROVE  /\ Base' /\ Works(t) /\ at[t] = "wipe" /\ at'[t] = "reply" /\ hold[t].slot \in 0 .. Slots
           /\ UNCHANGED <<d_request, hold, replies, change_sem>>
           /\ \A j \in Slot : d_type'[j] = IF j = hold[t].slot THEN "none" ELSE d_type[j]
           /\ \A j \in Slot : d_data'[j] = IF j = hold[t].slot THEN None ELSE d_data[j]
  <1> USE DEF Base
  <1>1. /\ at[t] = "wipe" /\ at' = [at EXCEPT ![t] = "reply"] /\ Mark(hold[t].slot, "none", None)
        /\ UNCHANGED <<requests, thread_running, sync_sem, change_sem, hold, opens, emu,
                       owner, replies, command, caused, strayed>>
    BY DEF ReleaseDone, Jump, emulation, port, sems
  <1>2. hold[t].slot \in 0 .. Slots /\ hold[t].req # None
    BY <1>1 DEF ThreadType, Held, Hands
  <1>3. /\ d_request' = d_request
        /\ d_type' \in [Slot -> {"none", "temp", "changeint"}]
        /\ d_data' \in [Slot -> Requests \cup {None}]
        /\ \A j \in Slot : d_type'[j] = IF j = hold[t].slot THEN "none" ELSE d_type[j]
        /\ \A j \in Slot : d_data'[j] = IF j = hold[t].slot THEN None ELSE d_data[j]
    BY <1>1, <1>2, Marks
  <1>4. /\ at' \in [Threads -> Label]
        /\ at'[t] = "reply" /\ \A u \in Threads \ {t} : at'[u] = at[u]
    BY <1>1 DEF ThreadType, Label
  <1>5. TableType' /\ OneSlot' /\ PipeType' /\ ThreadType' /\ GuestType'
    BY <1>1, <1>3, <1>4 DEF TableType, OneSlot, PipeType, ThreadType, GuestType
  <1>6. /\ thread_running' \in BOOLEAN /\ sync_sem' \in Nat /\ UNCHANGED <<opens, emu, owner, hold>>
        /\ change_sem' = change_sem /\ (at'[t] \in Inside <=> at[t] \in Inside) /\ at'[t] \in Alive
    BY <1>1, <1>4 DEF FlagsType, Inside, Alive
  <1>7. Works(t)
    BY <1>1, <1>4 DEF Works, Alive
  <1> HIDE DEF Base
  <1>8. Base'
    BY <1>2, <1>4, <1>5, <1>6, ThreadBase
  <1> QED  BY <1>1, <1>2, <1>3, <1>4, <1>7, <1>8

LEMMA ReplyDoneBase ==
    ASSUME Base, NEW t \in Threads, ReplyDone(t)
    PROVE  /\ Base' /\ Works(t) /\ at[t] = "reply" /\ at'[t] = "post"
           /\ hold[t].req \in Requests /\ hold'[t].req = None
           /\ UNCHANGED <<d_request, d_type, d_data, change_sem>>
           /\ replies' = [replies EXCEPT ![hold[t].req] = @ + 1]
  <1> USE DEF Base
  <1>1. /\ at[t] = "reply" /\ at' = [at EXCEPT ![t] = "post"]
        /\ replies' = [replies EXCEPT ![hold[t].req] = @ + 1] /\ hold' = [hold EXCEPT ![t] = Empty]
        /\ UNCHANGED <<d_request, d_type, d_data, requests, thread_running, sync_sem, change_sem, opens, emu,
                       owner, command, caused, strayed>>
    BY DEF ReplyDone, Jump, ReplyMsg, table, sems
  <1>2. hold[t].req \in Requests
    BY <1>1 DEF Hands, ThreadType, Held
  <1>3. /\ at' \in [Threads -> Label]
        /\ at'[t] = "post" /\ \A u \in Threads \ {t} : at'[u] = at[u]
    BY <1>1 DEF ThreadType, Label
  <1>4. /\ hold' \in [Threads -> Held]
        /\ hold'[t].req = None /\ \A u \in Threads \ {t} : hold'[u] = hold[u]
    BY <1>1, Constants DEF ThreadType, Held, Empty
  <1>5. TableType' /\ OneSlot' /\ PipeType' /\ ThreadType' /\ GuestType'
    BY <1>1, <1>2, <1>3, <1>4 DEF TableType, OneSlot, PipeType, ThreadType, GuestType
  <1>6. /\ thread_running' \in BOOLEAN /\ sync_sem' \in Nat /\ UNCHANGED <<opens, emu, owner>>
        /\ change_sem' = change_sem /\ (at'[t] \in Inside <=> at[t] \in Inside) /\ at'[t] \in Alive
    BY <1>1, <1>3 DEF FlagsType, Inside, Alive
  <1>7. Works(t)
    BY <1>1, <1>3, <1>4 DEF Works, Alive
  <1> HIDE DEF Base
  <1>8. Base'
    BY <1>3, <1>4, <1>5, <1>6, ThreadBase
  <1> QED  BY <1>1, <1>2, <1>3, <1>4, <1>7, <1>8

LEMMA PostChangeBase ==
    ASSUME Base, NEW t \in Threads, PostChange(t)
    PROVE  /\ Base' /\ Works(t) /\ at[t] = "post" /\ at'[t] = "read" /\ hold[t].req = None
           /\ UNCHANGED <<d_request, d_type, d_data, hold, replies>>
  <1> USE DEF Base
  <1>1. /\ at[t] = "post" /\ at' = [at EXCEPT ![t] = "read"] /\ change_sem' = change_sem + 1
        /\ UNCHANGED <<d_request, d_type, d_data, requests, thread_running, sync_sem, hold, opens, emu,
                       owner, replies, command, caused, strayed>>
    BY DEF PostChange, Jump, emulation, port, table
  <1>2. /\ at' \in [Threads -> Label] /\ hold[t].req = None
        /\ at'[t] = "read" /\ \A u \in Threads \ {t} : at'[u] = at[u]
    BY <1>1 DEF ThreadType, Label, Hands
  <1>3. TableType' /\ OneSlot' /\ PipeType' /\ ThreadType' /\ GuestType'
    BY <1>1, <1>2 DEF TableType, OneSlot, PipeType, ThreadType, GuestType
  <1>4. /\ thread_running' \in BOOLEAN /\ sync_sem' \in Nat /\ UNCHANGED <<opens, emu, owner, hold>>
        /\ at[t] \in Inside /\ at'[t] \notin Inside /\ at'[t] \in Alive
    BY <1>1, <1>2 DEF FlagsType, Inside, Alive
  <1>5. Works(t)
    BY <1>1, <1>2 DEF Works, Alive
  <1> HIDE DEF Base
  <1>6. Base'
    BY <1>1, <1>2, <1>3, <1>4, ThreadBase
  <1> QED  BY <1>1, <1>2, <1>5, <1>6

----------------------------------------------------------------------------
(* While exec's rules are kept each step keeps Stable. *)

(* Steps that leave the pipe, the threads and what they have in hand alone. *)
LEMMA QuietStable ==
    ASSUME Base, Stable, UNCHANGED <<requests, hold, command>>,
           \A t \in Threads : at'[t] \in {"add", "data", "wipe", "reply"} => at'[t] = at[t],
           \A r \in Requests : /\ owner'[r] = owner[r] /\ replies'[r] = replies[r]
                               \/ /\ ~Queued(r) /\ replies'[r] <= 1
                                  /\ owner'[r] = "guest" => replies'[r] = 0,
           emu'.op \in {"begin", "remove"} =>
               /\ emu'.op = emu.op /\ emu'.req = emu.req
               /\ owner'[emu.req] = owner[emu.req] /\ replies'[emu.req] = replies[emu.req],
           emu'.at # "send", UNCHANGED d_request, emu.at # "send",
           \A i \in Slot : d_type'[i] \in {d_type[i], "none"}
    PROVE  Stable'
  <1> USE DEF Stable
  <1>1. \A r : /\ Queued(r)' <=> Queued(r)
               /\ InHand(r)' <=> InHand(r)
    BY DEF Queued, InHand
  <1>2. Places'
    BY <1>1 DEF Places
  <1>3. Calls'
    BY <1>1 DEF Calls
  <1>4. Table'
    <2>1. \A t \in Threads : at[t] = "data" => hold[t].slot \in Slot
      BY Constants DEF Base, Hands, ThreadType, Held
    <2> QED  BY <2>1 DEF Table, Holding
  <1>5. Marked'
    BY <1>1 DEF Marked
  <1> QED  BY <1>2, <1>3, <1>4, <1>5

LEMMA EmuStable ==
    ASSUME Base, Stable,
           Started \/ StartFailed \/ hardfile_open \/ WipeSlot \/ Answer
           \/ hardfile_send_disk_change \/ ChangeDone
    PROVE  Stable'
  <1>1. CASE Started
    <2>1. emu' = [emu EXCEPT !.at = emu.op] /\ emu.op \in Asks /\ emu.at = "start"
      BY <1>1, StartedBase DEF Started
    <2>2. emu'.at # "send" /\ emu'.op = emu.op /\ emu'.req = emu.req
      BY <2>1 DEF Asks, Base, EmuType
    <2>3. UNCHANGED <<requests, hold, command, at, owner, replies, d_request, d_type>>
      BY <1>1 DEF Started, others, port, table
    <2> QED  BY <2>1, <2>2, <2>3, QuietStable
  <1>2. CASE StartFailed
    <2>1. /\ UNCHANGED <<requests, hold, command, at, replies, d_request, d_type>>
          /\ emu' = Guest /\ emu.at = "start"
          /\ \/ owner' = owner
             \/ emu.op \in {"begin", "remove"} /\ owner' = [owner EXCEPT ![emu.req] = "guest"]
      BY <1>2 DEF StartFailed, Return, table
    <2>2. \A r \in Requests : /\ owner'[r] = owner[r] /\ replies'[r] = replies[r]
                              \/ /\ ~Queued(r) /\ replies'[r] <= 1
                                 /\ owner'[r] = "guest" => replies'[r] = 0
      <3>1. CASE owner' = owner
        BY <2>1, <3>1
      <3>2. CASE emu.op \in {"begin", "remove"} /\ owner' = [owner EXCEPT ![emu.req] = "guest"]
        <4>1. ~Queued(emu.req) /\ replies[emu.req] = 0
          BY <3>2 DEF Stable, Calls
        <4> QED  BY <2>1, <3>2, <4>1 DEF Base, GuestType
      <3> QED  BY <2>1, <3>1, <3>2
    <2> QED  BY <2>1, <2>2, QuietStable DEF Guest
  <1>3. CASE hardfile_open
    <2>1. /\ UNCHANGED <<requests, hold, command, at, owner, replies, d_request, d_type>>
          /\ emu' = Guest /\ emu.at = "open"
      BY <1>3 DEF hardfile_open, others, Return, port, table
    <2> QED  BY <2>1, QuietStable DEF Guest
  <1>4. CASE WipeSlot
    <2>1. /\ UNCHANGED <<requests, hold, command, at, owner, replies, d_request>>
          /\ emu.at = "wipe" /\ emu'.at # "send" /\ emu'.op \in {"none", emu.op}
          /\ emu'.op # "none" => emu'.req = emu.req
          /\ \A i \in Slot : d_type'[i] \in {d_type[i], "none"}
      BY <1>4, WipeBase DEF others, port
    <2> QED  BY <2>1, QuietStable
  <1>5. CASE Answer
    <2>1. /\ emu.op = "remove" /\ emu.req \in Requests /\ emu' = Guest /\ emu.at = "answer"
          /\ \A q \in Requests \ {emu.req} : owner'[q] = owner[q] /\ replies'[q] = replies[q]
          /\ \/ owner' = owner /\ replies' = [replies EXCEPT ![emu.req] = @ + 1]
             \/ owner' = [owner EXCEPT ![emu.req] = "guest"] /\ replies' = replies
          /\ UNCHANGED <<requests, hold, command, at, d_request, d_type>>
      BY <1>5, AnswerBase DEF Answer, table
    <2>2. owner[emu.req] = "device" /\ replies[emu.req] = 0 /\ ~Queued(emu.req)
      BY <2>1 DEF Stable, Calls
    <2>3. replies'[emu.req] <= 1 /\ (owner'[emu.req] = "guest" => replies'[emu.req] = 0)
      BY <2>1, <2>2 DEF Base, GuestType
    <2>4. \A r \in Requests : /\ owner'[r] = owner[r] /\ replies'[r] = replies[r]
                              \/ /\ ~Queued(r) /\ replies'[r] <= 1
                                 /\ owner'[r] = "guest" => replies'[r] = 0
      BY <2>1, <2>2, <2>3
    <2> QED  BY <2>1, <2>4, QuietStable DEF Guest
  <1>6. CASE hardfile_send_disk_change \/ ChangeDone
    <2>1. /\ UNCHANGED <<requests, hold, command, at, owner, replies, d_request, d_type>>
          /\ emu'.at # "send" /\ emu'.op \in {"change", "none"}
      BY <1>6, ChangeBase DEF port, table
    <2>2. emu.at # "send"
      BY <1>6 DEF hardfile_send_disk_change, ChangeDone
    <2> QED  BY <2>1, <2>2, QuietStable
  <1> QED  BY <1>1, <1>2, <1>3, <1>4, <1>5, <1>6

LEMMA CloseStable ==
    ASSUME Base, Stable, hardfile_close
    PROVE  Stable'
  <1> USE DEF Stable
  <1>1. /\ emu' = emu /\ UNCHANGED <<hold, command, at, owner, replies, d_request, d_type>>
        /\ \A r \in Requests : Queued(r)' <=> Queued(r)
    BY CloseBase DEF hardfile_close, others, port, table
  <1>2. NoDup(requests') /\ \A r \in Requests : r \in Range(requests') <=> r \in Range(requests)
    <2>1. CASE opens = 1
      <3>1. requests' = Append(requests, None) /\ Range(requests') = Range(requests) \cup {None}
        BY <2>1, CloseBase
      <3>2. requests \in Seq(Requests \cup {None}) /\ NoDup(requests) /\ None \in Requests \cup {None}
        BY DEF Base, PipeType, Places
      <3>3. NoDup(requests')
        BY <3>1, <3>2, RangeAppend
      <3> QED  BY <3>1, <3>3, Constants
    <2>2. CASE opens # 1
      BY <2>2, CloseBase DEF Places
    <2> QED  BY <2>1, <2>2
  <1>3. \A r : InHand(r)' <=> InHand(r)
    BY <1>1 DEF InHand
  <1>4. Places'
    BY <1>1, <1>2, <1>3 DEF Places
  <1>5. Calls'
    BY <1>1 DEF Calls, Base, EmuInv, EmuType
  <1>6. Table'
    BY <1>1 DEF Table, Holding
  <1>7. Marked'
    BY <1>1 DEF Marked, Base, TableType
  <1> QED  BY <1>4, <1>5, <1>6, <1>7

LEMMA BeginIOStable ==
    ASSUME Base, Stable, BeginIO
    PROVE  Stable'
  <1> USE DEF Stable
  <1> DEFINE r == emu.req
             i == SlotFor(emu.req)
  <1>1. /\ emu.op = "begin" /\ r \in Requests /\ emu.at = "begin"
        /\ emu'.at = "send" /\ emu'.op = "begin" /\ emu'.req = r /\ emu'.slot = i
        /\ UNCHANGED <<requests, hold, command, at, owner, replies, d_type>>
        /\ i \in 0 .. Slots /\ (i # 0 => d_request[i] \in {r, None})
        /\ \A j \in Slot : d_request'[j] = IF j = i THEN r ELSE d_request[j]
        /\ \A j \in Slot : d_request[j] = r => j = i
    BY BeginIOBase DEF BeginIO, others, port, sems
  <1> HIDE DEF i
  <1>2. ~Queued(r) /\ \A q : (Queued(q)' <=> Queued(q)) /\ (InHand(q)' <=> InHand(q))
    BY <1>1 DEF Calls, Queued, InHand
  <1>3. \A t \in Threads : hold[t].req # r
    BY <1>2 DEF Queued, InHand
  <1>4. Places'
    BY <1>1, <1>2 DEF Places
  <1>5. Calls'
    BY <1>1, <1>2 DEF Calls
  <1>6. Table'
    <2>1. i # 0 => d_request'[i] = r
      BY <1>1, Constants
    <2>2. ASSUME NEW t \in Threads
          PROVE  Holding(hold[t].req)' \subseteq Holding(hold[t].req)
      BY <1>1, <1>3 DEF Holding
    <2>3. \A t \in Threads : at[t] = "data" => hold[t].slot \in Slot
      BY Constants DEF Base, Hands, ThreadType, Held
    <2>4. \A t \in Threads : at[t] = "data" =>
              (d_request'[hold[t].slot] = hold[t].req => d_request[hold[t].slot] = hold[t].req)
      BY <1>1, <1>3, <2>3
    <2> QED  BY <1>1, <2>1, <2>2, <2>4 DEF Table, Holding
  <1>7. Marked'
    BY <1>1, <1>2 DEF Marked
  <1> QED  BY <1>4, <1>5, <1>6, <1>7

LEMMA SendStable ==
    ASSUME Base, Stable, SendRequest
    PROVE  Stable'
  <1> USE DEF Stable
  <1> DEFINE r == emu.req
             i == emu.slot
  <1>1. /\ emu.op = "begin" /\ r \in Requests /\ i \in 0 .. Slots /\ emu.at = "send"
        /\ emu' = Guest /\ requests' = Append(requests, r)
        /\ Range(requests') = Range(requests) \cup {r}
        /\ UNCHANGED <<hold, command, at, owner, replies, d_request>>
        /\ \A j \in Slot : d_type'[j] = IF j = i THEN "temp" ELSE d_type[j]
        /\ \A q \in Requests : Queued(q)' <=> Queued(q) \/ q = r
    BY SendBase DEF SendRequest, others, port, sems
  <1>2. owner[r] = "device" /\ replies[r] = 0 /\ ~Queued(r) /\ command[r] # "remove"
    BY <1>1 DEF Calls
  <1>3. r \notin Range(requests) /\ \A t \in Threads : hold[t].req # r
    BY <1>2 DEF Queued, InHand
  <1>4. NoDup(requests')
    <2>1. requests \in Seq(Requests \cup {None}) /\ NoDup(requests) /\ r \in Requests \cup {None}
      BY <1>1 DEF Base, PipeType, Places
    <2> QED  BY <1>1, <1>3, <2>1, RangeAppend
  <1>5. \A q : InHand(q)' <=> InHand(q)
    BY <1>1 DEF InHand
  <1>6. Places'
    <2>1. ~InHand(r)
      BY <1>3 DEF InHand
    <2>2. \A q \in Requests : ~(q \in Range(requests') /\ InHand(q)')
      BY <1>1, <1>5, <2>1 DEF Places
    <2> QED  BY <1>1, <1>2, <1>4, <2>2 DEF Places
  <1>7. Calls'
    BY <1>1 DEF Calls, Guest
  <1>8. Table'
    <2>1. i # 0 => d_request[i] = r
      BY <1>1 DEF Table
    <2>2. \A t \in Threads : at[t] = "data" => hold[t].slot \in Slot
      BY Constants DEF Base, Hands, ThreadType, Held
    <2>3. ASSUME NEW t \in Threads, at[t] = "data", d_request[hold[t].slot] = hold[t].req
          PROVE  d_type'[hold[t].slot] # "temp"
      <3>1. hold[t].slot # i
        BY <1>3, <2>1, <2>2, <2>3, Constants
      <3> QED  BY <1>1, <2>2, <2>3, <3>1 DEF Table
    <2> QED  BY <1>1, <2>3 DEF Table, Holding, Guest
  <1>9. Marked'
    <2>1. \A j \in Slot : d_request[j] # None => d_request[j] \in Requests
      BY DEF Base, TableType
    <2>2. \A j \in Slot : j = i => d_request[j] = r
      BY <1>1, Constants DEF Table
    <2> QED  BY <1>1, <2>1, <2>2 DEF Marked
  <1> QED  BY <1>6, <1>7, <1>8, <1>9

LEMMA ReleaseStable ==
    ASSUME Base, Stable, RemoveChangeInt \/ abort_async \/ AbortListed
    PROVE  Stable'
  <1> USE DEF Stable
  <1>1. /\ emu.at \in {"remove", "abort", "reset"} /\ emu'.at # "send" /\ emu'.op = emu.op /\ emu'.req = emu.req
        /\ UNCHANGED <<d_type, requests, at, hold, owner, replies, command>>
        /\ \A j \in Slot : d_request'[j] \in {d_request[j], None}
    <2>1. ASSUME NEW r \in Requests, ReleaseSlot(r), emu.at \in {"remove", "abort", "reset"},
                 emu.at # "reset" => r = emu.req, emu.at = "reset" => Holding(r) # {}
          PROVE  /\ emu'.at = "wipe" /\ emu'.op = emu.op /\ emu'.req = emu.req
                 /\ UNCHANGED <<d_type, requests, at, hold, owner, replies, command>>
                 /\ \A j \in Slot : d_request'[j] \in {d_request[j], None}
      BY <2>1, ReleaseBase DEF others, port
    <2>2. CASE RemoveChangeInt \/ abort_async
      <3>1. /\ ReleaseSlot(emu.req) /\ emu.req \in Requests /\ emu.at \in {"remove", "abort"}
        BY <2>2, ReleaseCalled
      <3> QED  BY <2>1, <3>1
    <2>3. CASE AbortListed /\ d_request[emu.slot] # None
      <3>1. /\ ReleaseSlot(d_request[emu.slot]) /\ d_request[emu.slot] \in Requests
            /\ Holding(d_request[emu.slot]) # {} /\ emu.at = "reset"
        BY <2>3, ReleaseListed1
      <3> QED  BY <2>1, <3>1
    <2>4. CASE AbortListed /\ d_request[emu.slot] = None
      BY <2>4, NextSlotBase DEF others, port, table
    <2> QED  BY <2>2, <2>3, <2>4
  <1>2. \A q : (Queued(q)' <=> Queued(q)) /\ (InHand(q)' <=> InHand(q))
    BY <1>1 DEF Queued, InHand
  <1>3. Places'
    BY <1>1, <1>2 DEF Places
  <1>4. Calls'
    BY <1>1, <1>2 DEF Calls
  <1>5. Table'
    <2>1. \A t \in Threads : at[t] \in {"add", "data", "wipe", "reply"} => hold[t].req \in Requests
      BY DEF Base, Hands, ThreadType, Held
    <2>2. \A t \in Threads : at[t] = "data" => hold[t].slot \in Slot
      BY Constants DEF Base, Hands, ThreadType, Held
    <2>3. \A t \in Threads : at[t] \in {"add", "data", "wipe", "reply"} =>
              Holding(hold[t].req)' \subseteq Holding(hold[t].req)
      BY <1>1, <2>1, Constants DEF Holding
    <2>4. \A t \in Threads : at[t] = "data" =>
              (d_request'[hold[t].slot] = hold[t].req => d_request[hold[t].slot] = hold[t].req)
      BY <1>1, <2>1, <2>2, Constants
    <2> QED  BY <1>1, <2>3, <2>4 DEF Table, Holding
  <1>6. Marked'
    BY <1>1, <1>2 DEF Marked
  <1> QED  BY <1>3, <1>4, <1>5, <1>6

(* The reset of an idle unit forgets everything. *)
LEMMA ResetStable ==
    ASSUME Base, hardfile_reset,
           \A t \in Threads : at'[t] = "off" /\ hold'[t].req = None
    PROVE  Stable'
  <1>1. /\ requests' = <<>> /\ \A i \in Slot : d_request'[i] = None /\ d_type'[i] = "none"
        /\ emu' = Guest /\ \A r \in Requests : owner'[r] = "guest" /\ replies'[r] = 0
        /\ \A t \in Threads : at'[t] = "off" /\ hold'[t].req = None
    BY ResetBase
  <1>2. \A r \in Requests : ~Queued(r)'
    <2>1. Range(requests') = {}
      BY <1>1, SeqRange
    <2> QED  BY <1>1, <2>1, Constants DEF Queued, InHand
  <1>3. Places'
    <2>1. NoDup(requests')
      BY <1>1, SeqRange
    <2>2. \A r \in Requests : ~(r \in Range(requests') /\ InHand(r)')
      BY <1>2 DEF Queued
    <2>3. \A r \in Requests : (owner'[r] = "guest" => replies'[r] = 0) /\ replies'[r] <= 1
      BY <1>1
    <2>4. \A r \in Requests :
              Queued(r)' => owner'[r] = "device" /\ replies'[r] = 0 /\ command'[r] # "remove"
      BY <1>2
    <2>5. \A t, u \in Threads : hold'[t].req = hold'[u].req /\ hold'[t].req # None => t = u
      BY <1>1
    <2> QED  BY Zenon, <2>1, <2>2, <2>3, <2>4, <2>5 DEF Places
  <1>4. Calls' /\ Table' /\ Marked'
    BY <1>1 DEF Calls, Table, Marked, Guest
  <1> QED  BY <1>3, <1>4 DEF Stable

(* The guest's calls.  A request that is not queued may change its command. *)
LEMMA CalledStable ==
    ASSUME Base, Stable, NEW op \in Asks, NEW r, Called(op, r),
           \A q \in Requests : Queued(q) => owner'[q] = owner[q] /\ command'[q] = command[q],
           \A q \in Requests : owner'[q] = "guest" => owner[q] = "guest"
    PROVE  /\ Places' /\ Table' /\ Marked' /\ \A q \in Requests : Queued(q)' => Queued(q)
           /\ emu'.op = op /\ emu'.req = r /\ replies' = replies
  <1> USE DEF Stable
  <1>1. /\ UNCHANGED <<hold, replies>> /\ emu'.at \in {op, "start"} /\ emu'.op = op /\ emu'.req = r
        /\ \A q \in Requests : Queued(q)' => Queued(q)
        /\ \A u \in Threads : at'[u] = at[u] \/ at'[u] = "born"
        /\ \/ UNCHANGED <<d_request, d_type, requests>>
           \/ requests' = <<>> /\ \A i \in Slot : d_request'[i] = None /\ d_type'[i] = "none"
    BY DEF Called, table
  <1>2. emu.at # "send" /\ emu'.at # "send"
    BY <1>1 DEF Called, Guest, Asks
  <1>3. \A q \in Requests : InHand(q)' <=> InHand(q)
    BY <1>1 DEF InHand
  <1>4. Places'
    <2>1. NoDup(requests') /\ \A q \in Requests : q \in Range(requests') => q \in Range(requests)
      BY <1>1, SeqRange DEF Places
    <2>2. \A q \in Requests : ~(q \in Range(requests') /\ InHand(q)')
      BY <1>3, <2>1 DEF Places
    <2>3. ASSUME NEW q \in Requests
          PROVE  /\ owner'[q] = "guest" => replies'[q] = 0
                 /\ replies'[q] <= 1
                 /\ Queued(q)' => owner'[q] = "device" /\ replies'[q] = 0 /\ command'[q] # "remove"
      BY <1>1 DEF Places
    <2>4. \A t, u \in Threads : hold'[t].req = hold'[u].req /\ hold'[t].req # None => t = u
      BY <1>1 DEF Places
    <2> QED  BY <2>1, <2>2, <2>3, <2>4 DEF Places
  <1>5. Table'
    <2>1. \A t \in Threads : at[t] \in {"add", "data", "wipe", "reply"} => hold[t].req \in Requests
      BY DEF Base, Hands, ThreadType, Held
    <2>2. \A t \in Threads : at[t] \in {"add", "data"} =>
              command'[hold[t].req] = "add" /\ hold[t].slot \in Slot
      BY <2>1, Constants DEF Queued, InHand, Table, Base, Hands, ThreadType, Held
    <2>3. CASE UNCHANGED <<d_request, d_type, requests>>
      BY <1>1, <1>2, <2>2, <2>3 DEF Table, Holding
    <2>4. CASE \A i \in Slot : d_request'[i] = None /\ d_type'[i] = "none"
      <3>1. \A t \in Threads : at'[t] \in {"add", "data", "wipe", "reply"} =>
                at'[t] = at[t] /\ hold'[t] = hold[t] /\ hold[t].req # None
        BY <1>1, <2>1, Constants
      <3>2. \A t \in Threads : at'[t] \in {"add", "data", "wipe", "reply"} =>
                /\ Holding(hold[t].req)' = {}
                /\ at'[t] = "data" => d_type'[hold'[t].slot] # "temp"
        BY <2>2, <2>4, <3>1 DEF Holding
      <3> QED  BY <1>2, <2>2, <3>1, <3>2 DEF Table
    <2> QED  BY <1>1, <2>3, <2>4
  <1>6. Marked'
    <2>1. CASE UNCHANGED <<d_request, d_type, requests>>
      <3>1. \A q : Queued(q)' <=> Queued(q)
        BY <1>1, <2>1 DEF Queued, InHand
      <3> QED  BY <1>2, <2>1, <3>1 DEF Marked
    <2>2. CASE \A i \in Slot : d_request'[i] = None /\ d_type'[i] = "none"
      BY <2>2 DEF Marked
    <2> QED  BY <1>1, <2>1, <2>2
  <1> QED  BY <1>1, <1>4, <1>5, <1>6

LEMMA GuestStable ==
    ASSUME Base, Stable, NEW r \in Requests, Polite',
           (\E c \in {"io", "add"} : Begin(r, c)) \/ Remove(r) \/ AbortIO(r)
    PROVE  Stable'
  <1> USE DEF Stable
  <1>1. CASE \E c \in {"io", "add"} : Begin(r, c)
    <2>1. PICK c \in {"io", "add"} : Begin(r, c)
      BY <1>1
    <2>2. /\ Called("begin", r) /\ owner[r] = "guest" /\ owner'[r] = "device" /\ command'[r] = c
          /\ \A q \in Requests \ {r} : owner'[q] = owner[q] /\ command'[q] = command[q]
      BY <2>1, BeginBase
    <2>3. ~Queued(r) /\ replies[r] = 0
      BY <2>2 DEF Places
    <2>4. /\ Places' /\ Table' /\ Marked' /\ \A q \in Requests : Queued(q)' => Queued(q)
          /\ emu'.op = "begin" /\ emu'.req = r /\ replies' = replies
      BY <2>2, <2>3, CalledStable DEF Asks
    <2>5. Calls'
      BY <2>2, <2>3, <2>4 DEF Calls
    <2> QED  BY <2>4, <2>5
  <1>2. CASE Remove(r)
    <2>1. /\ Called("remove", r) /\ owner' = owner /\ command'[r] = "remove" /\ r \in Registered
          /\ \A q \in Requests \ {r} : command'[q] = command[q]
      BY <1>2, RemoveBase DEF Polite
    <2>2. ~Queued(r) /\ replies[r] = 0 /\ owner[r] = "device"
      BY <2>1 DEF Registered
    <2>3. /\ Places' /\ Table' /\ Marked' /\ \A q \in Requests : Queued(q)' => Queued(q)
          /\ emu'.op = "remove" /\ emu'.req = r /\ replies' = replies
      BY <2>1, <2>2, CalledStable DEF Asks
    <2>4. Calls'
      BY <2>1, <2>2, <2>3 DEF Calls
    <2> QED  BY <2>3, <2>4
  <1>3. CASE AbortIO(r)
    <2>1. Called("abort", r) /\ UNCHANGED <<owner, command>>
      BY <1>3, AbortIOBase
    <2>2. Places' /\ Table' /\ Marked' /\ emu'.op = "abort"
      BY <2>1, CalledStable DEF Asks
    <2> QED  BY <2>2 DEF Calls
  <1> QED  BY <1>1, <1>2, <1>3

LEMMA OpenStable ==
    ASSUME Base, Stable, OpenDevice
    PROVE  Stable'
  <1>1. Called("open", None) /\ UNCHANGED <<owner, command>>
    BY OpenDeviceBase
  <1>2. Places' /\ Table' /\ Marked' /\ emu'.op = "open"
    BY <1>1, CalledStable DEF Asks
  <1> QED  BY <1>2 DEF Calls, Stable

LEMMA ReceiveStable ==
    ASSUME Base, Stable, NEW r \in Requests, Receive(r)
    PROVE  Stable'
  <1>1. /\ emu = Guest /\ replies[r] > 0
        /\ UNCHANGED <<d_request, d_type, requests, emu, at, hold, command>>
        /\ owner' = [owner EXCEPT ![r] = "guest"] /\ replies' = [replies EXCEPT ![r] = @ - 1]
    BY ReceiveBase DEF table
  <1>2. replies[r] = 1 /\ ~Queued(r)
    BY <1>1 DEF Stable, Places, Base, GuestType
  <1>3. \A q \in Requests : /\ owner'[q] = owner[q] /\ replies'[q] = replies[q]
                            \/ /\ ~Queued(q) /\ replies'[q] <= 1
                               /\ owner'[q] = "guest" => replies'[q] = 0
    BY <1>1, <1>2 DEF Base, GuestType
  <1> QED  BY <1>1, <1>3, QuietStable DEF Guest

LEMMA EventStable ==
    ASSUME Base, Stable, NEW op \in {"change", "reset"}, HostEvent(op)
    PROVE  Stable'
  <1>1. /\ emu = Guest /\ emu'.at = op /\ emu'.op = op
        /\ UNCHANGED <<d_request, d_type, requests, at, hold, owner, replies, command>>
    BY EventBase DEF table
  <1> QED  BY <1>1, QuietStable DEF Guest

(* The threads. *)

LEMMA IdleStable ==
    ASSUME Base, Stable, NEW t \in Threads, Born(t) \/ Stop(t) \/ Bye(t) \/ PostChange(t)
    PROVE  Stable'
  <1>1. /\ UNCHANGED <<d_request, d_type, requests, hold, emu, owner, replies, command>>
        /\ at'[t] \in {"read", "bye", "off"} /\ \A u \in Threads \ {t} : at'[u] = at[u]
    <2>1. CASE Born(t)
      BY <2>1, BornBase DEF Born, table, emulation, port
    <2>2. CASE Stop(t)
      BY <2>2, StopBase DEF table, port
    <2>3. CASE Bye(t)
      BY <2>3, ByeBase DEF table, port
    <2>4. CASE PostChange(t)
      BY <2>4, PostChangeBase DEF PostChange, Works, emulation, port
    <2> QED  BY <2>1, <2>2, <2>3, <2>4
  <1> USE DEF Stable
  <1>2. \A q : (Queued(q)' <=> Queued(q)) /\ (InHand(q)' <=> InHand(q))
    BY <1>1 DEF Queued, InHand
  <1>3. Places' /\ Calls'
    BY <1>1, <1>2 DEF Places, Calls
  <1>4. Table'
    BY <1>1 DEF Table, Holding
  <1>5. Marked'
    BY <1>1, <1>2 DEF Marked
  <1> QED  BY <1>3, <1>4, <1>5

LEMMA ReadStable ==
    ASSUME Base, Stable, NEW t \in Threads, ReadRequest(t)
    PROVE  Stable'
  <1> USE DEF Stable
  <1> DEFINE q == Head(requests)
  <1>1. /\ at[t] = "read" /\ at'[t] = "got" /\ hold[t].req = None /\ requests # <<>>
        /\ hold'[t].req = q /\ requests' = Tail(requests)
        /\ requests \in Seq(Requests \cup {None})
        /\ \A u \in Threads \ {t} : at'[u] = at[u] /\ hold'[u] = hold[u]
        /\ \A r \in Requests : Queued(r)' <=> Queued(r)
        /\ UNCHANGED <<d_request, d_type, emu, owner, replies, command>>
    BY ReadBase DEF ReadRequest, table, emulation, port
  <1>2. /\ Range(requests) = Range(Tail(requests)) \cup {q} /\ q \in Requests \cup {None}
        /\ NoDup(Tail(requests)) /\ (q # None => q \notin Range(Tail(requests)))
    BY <1>1, RangeTail DEF Places
  <1> HIDE DEF q
  <1>3. \A u \in Threads : u # t /\ q # None => hold[u].req # q
    <2>1. q # None => ~InHand(q)
      BY <1>2 DEF Places
    <2> QED  BY <2>1 DEF InHand
  <1>4. \A r \in Requests : InHand(r)' <=> InHand(r) \/ r = q
    BY <1>1, Constants DEF InHand
  <1>5. Places'
    <2>1. \A r \in Requests : ~(r \in Range(requests') /\ InHand(r)')
      BY <1>1, <1>2, <1>4, Constants DEF Places
    <2>2. \A u, v \in Threads : hold'[u].req = hold'[v].req /\ hold'[u].req # None => u = v
      BY <1>1, <1>3 DEF Places
    <2> QED  BY <1>1, <1>2, <2>1, <2>2 DEF Places
  <1>6. Calls'
    BY <1>1 DEF Calls, Base, EmuInv, EmuType
  <1>7. Table'
    BY <1>1 DEF Table, Holding
  <1>8. Marked'
    BY <1>1 DEF Marked, Base, TableType
  <1> QED  BY <1>5, <1>6, <1>7, <1>8

(* Nobody else has, or lists, what a thread has in hand. *)
LEMMA InHandOf ==
    ASSUME Base, Stable, NEW t \in Threads, hold[t].req \in Requests
    PROVE  /\ Queued(hold[t].req) /\ owner[hold[t].req] = "device" /\ replies[hold[t].req] = 0
           /\ hold[t].req \notin Range(requests)
           /\ \A u \in Threads \ {t} : hold[u].req # hold[t].req
           /\ emu.op \in {"begin", "remove"} => emu.req # hold[t].req
  <1>1. InHand(hold[t].req) /\ Queued(hold[t].req)
    BY DEF InHand, Queued
  <1> QED  BY <1>1, Constants DEF Stable, Places, Calls

(* A thread at work keeps the request in hand. *)
LEMMA WorkStable ==
    ASSUME Base, Stable, NEW t \in Threads, Works(t), replies' = replies, hold'[t].req = hold[t].req
    PROVE  /\ Places' /\ Calls' /\ emu' = emu
           /\ \A q : (Queued(q)' <=> Queued(q)) /\ (InHand(q)' <=> InHand(q))
  <1> USE DEF Stable
  <1>1. \A u \in Threads : hold'[u].req = hold[u].req
    BY DEF Works
  <1>2. \A q : (Queued(q)' <=> Queued(q)) /\ (InHand(q)' <=> InHand(q))
    BY <1>1 DEF Queued, InHand, Works
  <1>3. Places'
    BY <1>1, <1>2 DEF Places, Works
  <1>4. Calls'
    BY <1>2 DEF Calls, Works
  <1> QED  BY <1>2, <1>3, <1>4 DEF Works

LEMMA DoIOStable ==
    ASSUME Base, Stable, NEW t \in Threads, hardfile_do_io(t)
    PROVE  Stable'
  <1> USE DEF Stable
  <1> DEFINE r == hold[t].req
             i == hold'[t].slot
  <1>1. /\ Works(t) /\ replies' = replies /\ r \in Requests /\ at[t] = "got" /\ hold'[t].req = r
        /\ UNCHANGED <<d_type, d_data>>
        /\ \A j \in Slot : d_request[j] # r =>
                 \/ d_request'[j] = d_request[j]
                 \/ d_request[j] = None /\ d_request'[j] = r
        /\ \A j \in Slot : d_request[j] = r => d_request'[j] \in {r, None}
        /\ \/ /\ at'[t] = "add" /\ command[r] = "add"
              /\ \A j \in Slot : d_request'[j] = r <=> j = i
           \/ at'[t] = "wipe" /\ \A j \in Slot : d_request'[j] # r
    BY DoIOBase
  <1>2. /\ Queued(r) /\ \A u \in Threads \ {t} : hold[u].req # r
        /\ emu.op \in {"begin", "remove"} => emu.req # r
    BY <1>1, InHandOf
  <1>3. /\ Places' /\ Calls' /\ emu' = emu
        /\ \A q : (Queued(q)' <=> Queued(q)) /\ (InHand(q)' <=> InHand(q))
    BY <1>1, WorkStable
  <1>4. /\ command' = command /\ \A u \in Threads \ {t} : at'[u] = at[u] /\ hold'[u] = hold[u]
    BY <1>1 DEF Works
  <1> HIDE DEF i
  <1>5. Table'
    <2>1. emu.at = "send" /\ emu.slot # 0 => d_request'[emu.slot] = emu.req
      <3>1. emu.at = "send" /\ emu.slot # 0 => emu.op = "begin" /\ emu.slot \in Slot /\ emu.req # None
        BY Constants DEF Base, EmuInv
      <3> QED  BY <1>1, <1>2, <3>1 DEF Table
    <2>2. ASSUME NEW u \in Threads, u # t, at[u] \in {"add", "data", "wipe", "reply"}
          PROVE  \A j \in Slot : d_request'[j] = hold[u].req <=> d_request[j] = hold[u].req
      <3>1. hold[u].req # None /\ hold[u].req # r
        BY <1>2, <2>2 DEF Base, Hands
      <3> QED  BY <1>1, <3>1
    <2>3. \A u \in Threads : at[u] = "data" => hold[u].slot \in Slot
      BY Constants DEF Base, Hands, ThreadType, Held
    <2>4. ASSUME NEW u \in Threads, u # t
          PROVE  /\ at'[u] \in {"add", "data"} =>
                      command[hold'[u].req] = "add" /\ Holding(hold[u].req)' \subseteq {hold'[u].slot}
                 /\ at'[u] = "data" =>
                      (d_request'[hold'[u].slot] = hold'[u].req => d_type[hold'[u].slot] # "temp")
                 /\ at'[u] \in {"wipe", "reply"} => Holding(hold[u].req)' = {}
      BY <1>4, <2>2, <2>3, <2>4 DEF Table, Holding
    <2>5. /\ at'[t] # "data" /\ at'[t] # "reply"
          /\ at'[t] = "add" => command[r] = "add" /\ Holding(hold[t].req)' \subseteq {i}
          /\ at'[t] = "wipe" => Holding(hold[t].req)' = {}
      BY <1>1 DEF Holding
    <2> QED  BY <1>1, <1>3, <1>4, <2>1, <2>4, <2>5 DEF Table, i
  <1>6. Marked'
    <2>1. \A j \in Slot : d_request'[j] # None => d_request'[j] = d_request[j] \/ d_request'[j] = r
      BY <1>1
    <2> QED  BY <1>1, <1>2, <1>3, <2>1 DEF Marked
  <1> QED  BY <1>3, <1>5, <1>6

LEMMA AddTypeStable ==
    ASSUME Base, Stable, NEW t \in Threads, AddType(t)
    PROVE  Stable'
  <1> USE DEF Stable
  <1>1. /\ Works(t) /\ at[t] = "add" /\ at'[t] = "data" /\ hold[t].slot \in Slot
        /\ UNCHANGED <<d_request, hold, replies>>
        /\ \A j \in Slot : d_type'[j] = IF j = hold[t].slot THEN "changeint" ELSE d_type[j]
    BY AddTypeBase
  <1>2. /\ Places' /\ Calls' /\ emu' = emu
        /\ \A q : (Queued(q)' <=> Queued(q)) /\ (InHand(q)' <=> InHand(q))
    BY <1>1, WorkStable
  <1>3. /\ command' = command /\ \A u \in Threads \ {t} : at'[u] = at[u]
    BY <1>1 DEF Works
  <1>4. \A u \in Threads : at[u] = "data" => hold[u].slot \in Slot
    BY Constants DEF Base, Hands, ThreadType, Held
  <1>5. Table'
    BY <1>1, <1>2, <1>3, <1>4 DEF Table, Holding
  <1>6. Marked'
    BY <1>1, <1>2 DEF Marked
  <1> QED  BY <1>2, <1>5, <1>6

LEMMA ReleaseDoneStable ==
    ASSUME Base, Stable, NEW t \in Threads, ReleaseDone(t)
    PROVE  Stable'
  <1> USE DEF Stable
  <1>1. /\ Works(t) /\ at[t] = "wipe" /\ at'[t] = "reply" /\ hold[t].slot \in 0 .. Slots
        /\ UNCHANGED <<d_request, hold, replies>>
        /\ \A j \in Slot : d_type'[j] = IF j = hold[t].slot THEN "none" ELSE d_type[j]
    BY ReleaseDoneBase
  <1>2. /\ Places' /\ Calls' /\ emu' = emu
        /\ \A q : (Queued(q)' <=> Queued(q)) /\ (InHand(q)' <=> InHand(q))
    BY <1>1, WorkStable
  <1>3. /\ command' = command /\ \A u \in Threads \ {t} : at'[u] = at[u]
    BY <1>1 DEF Works
  <1>4. \A u \in Threads : at[u] = "data" => hold[u].slot \in Slot
    BY Constants DEF Base, Hands, ThreadType, Held
  <1>5. Table'
    BY <1>1, <1>2, <1>3, <1>4 DEF Table, Holding
  <1>6. Marked'
    BY <1>1, <1>2 DEF Marked
  <1> QED  BY <1>2, <1>5, <1>6

(* A thread that is done with a request lets go of it. *)
LEMMA LetGoStable ==
    ASSUME Base, Stable, NEW t \in Threads, Works(t), hold[t].req \in Requests, hold'[t].req = None,
           at'[t] = "post", UNCHANGED <<d_request, d_type>>,
           \A j \in Slot : d_request[j] = hold[t].req => d_type[j] # "temp",
           replies' = replies \/ replies' = [replies EXCEPT ![hold[t].req] = @ + 1]
    PROVE  Stable'
  <1> USE DEF Stable
  <1> DEFINE r == hold[t].req
  <1>1. /\ Queued(r) /\ owner[r] = "device" /\ replies[r] = 0 /\ r \notin Range(requests)
        /\ \A u \in Threads \ {t} : hold[u].req # r
        /\ emu.op \in {"begin", "remove"} => emu.req # r
    BY InHandOf
  <1>2. /\ UNCHANGED <<requests, emu, owner, command>>
        /\ \A u \in Threads \ {t} : at'[u] = at[u] /\ hold'[u] = hold[u]
    BY DEF Works
  <1>3. \A q \in Requests : InHand(q)' <=> InHand(q) /\ q # r
    BY <1>1, <1>2, Constants DEF InHand
  <1>4. \A q \in Requests : Queued(q)' <=> Queued(q) /\ q # r
    BY <1>1, <1>2, <1>3 DEF Queued
  <1>5. \A q \in Requests : replies'[q] = IF q = r THEN replies'[r] ELSE replies[q]
    BY DEF Base, GuestType
  <1>6. replies'[r] \in {0, 1}
    BY <1>1 DEF Base, GuestType
  <1>7. Places'
    <2>1. \A q \in Requests : ~(q \in Range(requests') /\ InHand(q)')
      BY <1>2, <1>3 DEF Places
    <2>2. \A u, v \in Threads : hold'[u].req = hold'[v].req /\ hold'[u].req # None => u = v
      BY <1>2 DEF Places
    <2>3. ASSUME NEW q \in Requests
          PROVE  /\ owner'[q] = "guest" => replies'[q] = 0
                 /\ replies'[q] <= 1
                 /\ Queued(q)' => owner'[q] = "device" /\ replies'[q] = 0 /\ command'[q] # "remove"
      BY <1>1, <1>2, <1>4, <1>5, <1>6 DEF Places
    <2> HIDE DEF r
    <2> QED  BY <1>2, <2>1, <2>2, <2>3 DEF Places
  <1>8. Calls'
    <2>1. emu.op \in {"begin", "remove"} => emu.req \in Requests /\ emu.req # r
      BY <1>1 DEF Base, EmuInv, EmuType
    <2> HIDE DEF r
    <2> QED  BY <1>2, <1>4, <1>5, <2>1 DEF Calls
  <1>9. Table'
    BY <1>2 DEF Table, Holding
  <1>10. Marked'
    <2>1. \A j \in Slot : d_request[j] # None => d_request[j] \in Requests
      BY DEF Base, TableType
    <2> QED  BY <1>2, <1>4, <2>1 DEF Marked
  <1> QED  BY <1>7, <1>8, <1>9, <1>10

LEMMA AddDataStable ==
    ASSUME Base, Stable, NEW t \in Threads, AddData(t)
    PROVE  Stable'
  <1>1. /\ Works(t) /\ at[t] = "data" /\ at'[t] = "post" /\ hold[t].req \in Requests /\ hold'[t].req = None
        /\ UNCHANGED <<d_request, d_type>> /\ replies' = replies
    BY AddDataBase
  <1>2. \A j \in Slot : d_request[j] = hold[t].req => d_type[j] # "temp"
    <2>1. /\ Holding(hold[t].req) \subseteq {hold[t].slot}
          /\ d_request[hold[t].slot] = hold[t].req => d_type[hold[t].slot] # "temp"
      BY <1>1 DEF Stable, Table
    <2> QED  BY <2>1 DEF Holding
  <1> QED  BY <1>1, <1>2, LetGoStable

LEMMA ReplyDoneStable ==
    ASSUME Base, Stable, NEW t \in Threads, ReplyDone(t)
    PROVE  Stable'
  <1>1. /\ Works(t) /\ at[t] = "reply" /\ at'[t] = "post" /\ hold[t].req \in Requests /\ hold'[t].req = None
        /\ UNCHANGED <<d_request, d_type>> /\ replies' = [replies EXCEPT ![hold[t].req] = @ + 1]
    BY ReplyDoneBase
  <1>2. \A j \in Slot : d_request[j] # hold[t].req
    BY <1>1 DEF Stable, Table, Holding
  <1> QED  BY <1>1, <1>2, LetGoStable

LEMMA ThreadStable ==
    ASSUME Base, Stable, NEW t \in Threads, ThreadStep(t)
    PROVE  Stable'
  BY IdleStable, ReadStable, DoIOStable, AddTypeStable, AddDataStable, ReleaseDoneStable,
     ReplyDoneStable DEF ThreadStep

----------------------------------------------------------------------------
(* While the device is not opened again too early each step keeps Orderly. *)

LEMMA LeavingIs ==
    /\ Leaving <=> None \in Range(requests) \/ Ended
    /\ Leaving' <=> None \in Range(requests') \/ Ended'
  BY DEF Leaving, Ended

(* Steps of the emulation thread and the guest that leave the threads and the pipe alone. *)
LEMMA QuietOrderly ==
    ASSUME Orderly, UNCHANGED <<requests, at, hold, thread_running, opens>>,
           emu'.op \in Asks => emu.op \in Asks, emu'.at # "start",
           emu.at # "start" \/ thread_running
    PROVE  Orderly'
  <1>1. (Leaving' <=> Leaving) /\ (Ended' <=> Ended) /\ (Running' <=> Running)
    BY DEF Leaving, Ended, Running
  <1>2. NoneLast(requests') <=> NoneLast(requests)
    OBVIOUS
  <1> QED  BY <1>1, <1>2 DEF Orderly, InUse

LEMMA EmuOrderly ==
    ASSUME Base, Orderly, EmuStep \/ hardfile_close
    PROVE  Orderly'
  <1> USE DEF Orderly
  <1>1. CASE Started
    <2>1. /\ UNCHANGED <<requests, at, hold, thread_running, opens>> /\ thread_running
          /\ emu'.at # "start" /\ emu.op \in Asks
      BY <1>1, StartedBase DEF Started, others, Asks, Base, EmuType
    <2> QED  BY <2>1, QuietOrderly
  <1>2. CASE StartFailed
    BY <1>2 DEF StartFailed, Base, FlagsType
  <1>3. CASE hardfile_open
    <2>1. /\ UNCHANGED <<requests, at, hold, thread_running>> /\ emu' = Guest /\ emu.op = "open"
          /\ emu.at = "open"
      BY <1>3 DEF hardfile_open, others, Return, Base, EmuInv, Asks
    <2>2. thread_running /\ ~Leaving
      BY <2>1 DEF InUse, Asks
    <2>3. (Leaving' <=> Leaving) /\ (Ended' <=> Ended) /\ (Running' <=> Running)
      BY <2>1 DEF Leaving, Ended, Running
    <2>4. NoneLast(requests') <=> NoneLast(requests)
      BY <2>1
    <2> QED  BY <2>1, <2>2, <2>3, <2>4 DEF InUse, Guest
  <1>4. CASE hardfile_close
    <2>1. /\ emu = Guest /\ opens \in Nat /\ opens' \in Nat /\ opens > 0 /\ opens' = opens - 1
          /\ UNCHANGED <<at, hold, thread_running, emu>>
          /\ opens = 1 => /\ requests' = Append(requests, None)
                          /\ Range(requests') = Range(requests) \cup {None}
          /\ opens # 1 => requests' = requests
      BY <1>4, CloseBase DEF hardfile_close, others
    <2>2. ~Leaving /\ thread_running /\ Running
      BY <2>1 DEF InUse, Base, Owned
    <2>3. ~Ended /\ None \notin Range(requests)
      BY <2>2, LeavingIs
    <2>4. ~Ended' /\ Running'
      BY <2>1, <2>2, <2>3 DEF Ended, Running
    <2>5. CASE opens = 1
      <3>1. requests \in Seq(Requests \cup {None}) /\ None \in Requests \cup {None}
        BY DEF Base, PipeType
      <3>2. NoneLast(requests')
        <4>1. NoneLast(Append(requests, None))
          BY <2>3, <3>1, RangeAppend
        <4> QED  BY <2>1, <2>5, <4>1
      <3>3. ~InUse'
        BY <2>1, <2>5 DEF InUse, Guest, Asks
      <3>4. opens' = 0 /\ emu'.op \notin Asks /\ emu'.at # "start"
        BY <2>1, <2>5 DEF Guest, Asks
      <3> QED  BY <2>4, <3>2, <3>3, <3>4
    <2>6. CASE opens # 1
      <3>1. ~Leaving' /\ NoneLast(requests')
        BY <2>1, <2>3, <2>4, <2>6, LeavingIs
      <3> QED  BY <2>1, <2>2, <2>4, <2>6, <3>1 DEF Guest
    <2> QED  BY <2>5, <2>6
  <1>5. CASE BeginIO
    <2>1. /\ UNCHANGED <<requests, at, hold, thread_running, opens>> /\ emu.at = "begin"
          /\ emu'.at # "start" /\ emu.op \in Asks
      BY <1>5, BeginIOBase DEF BeginIO, others, Asks
    <2> QED  BY <2>1, QuietOrderly
  <1>6. CASE SendRequest
    <2>1. /\ emu.op = "begin" /\ emu.req \in Requests /\ emu.at = "send"
          /\ emu' = Guest /\ requests' = Append(requests, emu.req)
          /\ Range(requests') = Range(requests) \cup {emu.req}
          /\ UNCHANGED <<at, hold, thread_running, opens>>
      BY <1>6, SendBase DEF SendRequest, others
    <2>2. ~Leaving /\ thread_running /\ Running
      BY <2>1 DEF InUse, Base, Owned, Asks
    <2>3. ~Ended /\ None \notin Range(requests)
      BY <2>2, LeavingIs
    <2>4. ~Ended' /\ Running' /\ None \notin Range(requests')
      BY <2>1, <2>2, <2>3, Constants DEF Ended, Running
    <2>5. NoneLast(requests')
      <3>1. requests \in Seq(Requests \cup {None}) /\ emu.req \in Requests \cup {None}
        BY <2>1 DEF Base, PipeType
      <3> QED  BY <2>1, <2>3, <3>1, RangeAppend
    <2>6. ~Leaving'
      BY <2>4, LeavingIs
    <2> QED  BY <2>1, <2>2, <2>4, <2>5, <2>6 DEF Guest
  <1>7. CASE RemoveChangeInt \/ abort_async \/ AbortListed
    <2>1. ASSUME NEW r \in Requests, ReleaseSlot(r), emu.at \in {"remove", "abort", "reset"},
                 emu.at # "reset" => r = emu.req, emu.at = "reset" => Holding(r) # {}
          PROVE  /\ emu'.at # "start" /\ emu'.op = emu.op
                 /\ UNCHANGED <<requests, at, hold, thread_running, opens>>
      BY <2>1, ReleaseBase DEF others
    <2>2. /\ emu'.at # "start" /\ emu'.op = emu.op /\ emu.at \in {"remove", "abort", "reset"}
          /\ UNCHANGED <<requests, at, hold, thread_running, opens>>
      <3>1. CASE RemoveChangeInt \/ abort_async
        <4>1. /\ ReleaseSlot(emu.req) /\ emu.req \in Requests /\ emu.at \in {"remove", "abort"}
          BY <3>1, ReleaseCalled
        <4> QED  BY <2>1, <4>1
      <3>2. CASE AbortListed /\ d_request[emu.slot] # None
        <4>1. /\ ReleaseSlot(d_request[emu.slot]) /\ d_request[emu.slot] \in Requests
              /\ Holding(d_request[emu.slot]) # {} /\ emu.at = "reset"
          BY <3>2, ReleaseListed1
        <4> QED  BY <2>1, <4>1
      <3>3. CASE AbortListed /\ d_request[emu.slot] = None
        BY <3>3, NextSlotBase DEF others
      <3> QED  BY <1>7, <3>1, <3>2, <3>3
    <2> QED  BY <2>2, QuietOrderly
  <1>8. CASE WipeSlot
    <2>1. /\ UNCHANGED <<requests, at, hold, thread_running, opens>> /\ emu.at = "wipe"
          /\ emu'.at # "start" /\ emu'.op \in {"none", emu.op}
      BY <1>8, WipeBase DEF others
    <2> QED  BY <2>1, QuietOrderly DEF Asks
  <1>9. CASE Answer
    <2>1. /\ UNCHANGED <<requests, at, hold, thread_running, opens>> /\ emu.at = "answer" /\ emu' = Guest
      BY <1>9, AnswerBase DEF Answer
    <2> QED  BY <2>1, QuietOrderly DEF Asks, Guest
  <1>10. CASE hardfile_send_disk_change \/ ChangeDone
    <2>1. /\ UNCHANGED <<requests, at, hold, thread_running, opens>>
          /\ emu'.at # "start" /\ emu'.op \in {"change", "none"}
      BY <1>10, ChangeBase
    <2>2. emu.at # "start"
      BY <1>10 DEF hardfile_send_disk_change, ChangeDone
    <2> QED  BY <2>1, <2>2, QuietOrderly DEF Asks
  <1>11. CASE hardfile_reset
    <2>1. requests' = <<>> /\ opens' = 0 /\ emu' = Guest
      BY <1>11, ResetBase
    <2>2. NoneLast(requests')
      BY <2>1, SeqRange
    <2> QED  BY <2>1, <2>2 DEF InUse, Guest, Asks
  <1> QED  BY <1>1, <1>2, <1>3, <1>4, <1>5, <1>6, <1>7, <1>8, <1>9, <1>10, <1>11 DEF EmuStep

LEMMA GuestOrderly ==
    ASSUME Base, Orderly, ~Reopened',
           \/ OpenDevice \/ \E r \in Requests : Remove(r) \/ AbortIO(r) \/ Receive(r)
           \/ \E r \in Requests, c \in {"io", "add"} : Begin(r, c)
           \/ \E op \in {"change", "reset"} : HostEvent(op)
    PROVE  Orderly'
  <1> USE DEF Orderly
  <1>1. ASSUME NEW op \in Asks, NEW q, Called(op, q), thread_running, ~Leaving
        PROVE  Orderly'
    <2>1. /\ UNCHANGED <<requests, at, hold, opens>> /\ thread_running' = thread_running
          /\ emu'.at # "start"
      BY <1>1 DEF Called, Asks
    <2>2. (Leaving' <=> Leaving) /\ (Ended' <=> Ended) /\ (Running' <=> Running)
      BY <2>1 DEF Leaving, Ended, Running
    <2>3. NoneLast(requests') <=> NoneLast(requests)
      BY <2>1
    <2> QED  BY <1>1, <2>1, <2>2, <2>3
  <1>2. ASSUME NEW op \in Asks, NEW q, Called(op, q), opens > 0
        PROVE  Orderly'
    <2>1. thread_running /\ ~Leaving
      BY <1>2 DEF InUse
    <2> QED  BY <1>1, <1>2, <2>1
  <1>3. CASE \E r \in Requests, c \in {"io", "add"} : Begin(r, c)
    BY <1>2, <1>3, BeginBase DEF Asks
  <1>4. CASE \E r \in Requests : Remove(r)
    BY <1>2, <1>4, RemoveBase DEF Asks
  <1>5. CASE \E r \in Requests : AbortIO(r)
    BY <1>2, <1>5, AbortIOBase DEF Asks
  <1>6. CASE OpenDevice
    <2>1. Called("open", None) /\ ~Leaving
      BY <1>6, OpenDeviceBase
    <2>2. CASE thread_running
      BY <1>1, <2>1, <2>2 DEF Asks
    <2>3. CASE ~thread_running
      <3>1. /\ UNCHANGED <<hold, opens>> /\ requests' = <<>> /\ sync_sem' = 0 /\ emu'.at = "start"
            /\ \A u \in Threads : at'[u] = at[u] \/ (at[u] = "off" /\ at'[u] = "born")
        BY <2>1, <2>3 DEF Called
      <3>2. ~(opens > 0)
        BY <2>3
      <3>3. ~Ended'
        BY <2>1, <3>1, LeavingIs DEF Ended
      <3>4. Range(requests') = {} /\ NoneLast(requests')
        BY <3>1, SeqRange
      <3>5. ~Leaving'
        BY <3>3, <3>4, LeavingIs
      <3> QED  BY <3>1, <3>2, <3>4, <3>5
    <2> QED  BY <2>2, <2>3
  <1>7. CASE \E r \in Requests : Receive(r)
    <2>1. emu = Guest /\ UNCHANGED <<requests, at, hold, thread_running, opens, emu>>
      BY <1>7, ReceiveBase
    <2> QED  BY <2>1, QuietOrderly DEF Guest
  <1>8. CASE \E op \in {"change", "reset"} : HostEvent(op)
    <2>1. PICK op \in {"change", "reset"} : HostEvent(op)
      BY <1>8
    <2>2. /\ emu = Guest /\ emu'.at = op /\ emu'.op = op
          /\ UNCHANGED <<requests, at, hold, thread_running, opens>>
      BY <2>1, EventBase
    <2> QED  BY <2>2, QuietOrderly DEF Guest, Asks
  <1> QED  BY <1>3, <1>4, <1>5, <1>6, <1>7, <1>8

LEMMA WorkOrderly ==
    ASSUME Base, Orderly, NEW t \in Threads, Works(t)
    PROVE  Orderly'
  <1>1. /\ UNCHANGED <<requests, thread_running, sync_sem, opens, emu>>
        /\ at[t] \in Alive /\ at'[t] \in Alive \ {"got"}
        /\ \A u \in Threads \ {t} : at'[u] = at[u] /\ hold'[u] = hold[u]
    BY DEF Works
  <1>2. (Ended' => Ended) /\ Running'
    BY <1>1 DEF Ended, Running, Alive
  <1>3. Leaving' => Leaving
    BY <1>1, <1>2, LeavingIs
  <1>4. NoneLast(requests') <=> NoneLast(requests)
    BY <1>1
  <1> QED  BY <1>1, <1>2, <1>3, <1>4 DEF Orderly, InUse

LEMMA ThreadOrderly ==
    ASSUME Base, Orderly, NEW t \in Threads, ThreadStep(t)
    PROVE  Orderly'
  <1> USE DEF Orderly
  <1>1. CASE Born(t)
    <2>1. /\ at[t] = "born" /\ at'[t] = "read" /\ thread_running' = TRUE
          /\ \A u \in Threads \ {t} : at'[u] = at[u]
          /\ UNCHANGED <<requests, hold, opens, emu>>
      BY <1>1, BornBase DEF Born, emulation
    <2>2. (Ended' <=> Ended) /\ (Leaving' <=> Leaving) /\ Running'
      BY <2>1 DEF Ended, Leaving, Running, Alive
    <2>3. NoneLast(requests') <=> NoneLast(requests)
      BY <2>1
    <2> QED  BY <2>1, <2>2, <2>3 DEF InUse
  <1>2. CASE ReadRequest(t)
    <2> DEFINE q == Head(requests)
    <2>1. /\ at[t] = "read" /\ at'[t] = "got" /\ requests # <<>>
          /\ hold'[t].req = q /\ requests' = Tail(requests)
          /\ requests \in Seq(Requests \cup {None})
          /\ \A u \in Threads \ {t} : at'[u] = at[u] /\ hold'[u] = hold[u]
          /\ UNCHANGED <<thread_running, sync_sem, opens, emu>>
      BY <1>2, ReadBase DEF ReadRequest, emulation, sems
    <2>2. /\ Range(requests) = Range(Tail(requests)) \cup {q}
          /\ NoneLast(Tail(requests)) /\ (q = None => Tail(requests) = <<>>)
      BY <2>1, RangeTail
    <2> HIDE DEF q
    <2>3. ~Ended
      BY <2>1
    <2>4. Ended' => q = None
      BY <2>1, <2>3 DEF Ended
    <2>5. Leaving' => Leaving
      BY <2>1, <2>2, <2>4, LeavingIs
    <2>6. Running'
      BY <2>1 DEF Running, Alive
    <2> QED  BY <2>1, <2>2, <2>4, <2>5, <2>6 DEF InUse
  <1>3. CASE Stop(t) \/ Bye(t)
    <2>1. /\ at[t] = "bye" \/ (at[t] = "got" /\ hold[t].req = None)
          /\ UNCHANGED <<requests, hold, opens, emu>>
      BY <1>3, StopBase, ByeBase
    <2>2. Ended
      BY <2>1 DEF Ended
    <2>3. ~InUse /\ requests = <<>>
      BY <2>2, LeavingIs
    <2>4. ~(opens > 0) /\ emu.op \notin Asks /\ emu.at # "start"
      BY <2>3 DEF InUse, Base, EmuInv
    <2>5. ~InUse' /\ NoneLast(requests')
      BY <2>1, <2>3 DEF InUse
    <2> QED  BY <2>1, <2>3, <2>4, <2>5
  <1>4. CASE hardfile_do_io(t) \/ AddType(t) \/ AddData(t) \/ ReleaseDone(t) \/ ReplyDone(t) \/ PostChange(t)
    <2>1. Works(t)
      BY <1>4, DoIOBase, AddTypeBase, AddDataBase, ReleaseDoneBase, ReplyDoneBase, PostChangeBase
    <2> QED  BY <2>1, WorkOrderly
  <1> QED  BY <1>1, <1>2, <1>3, <1>4 DEF ThreadStep

----------------------------------------------------------------------------
(* The invariant. *)

LEMMA InitInv == HardfileInit => Inv
  <1> SUFFICES ASSUME HardfileInit
               PROVE  Inv
    OBVIOUS
  <1> USE DEF HardfileInit
  <1>1. Range(requests) = {} /\ Len(requests) = 0 /\ NoDup(requests) /\ NoneLast(requests)
        /\ requests \in Seq(Requests \cup {None}) /\ strayed \in Seq(Strays)
    BY SeqRange, EmptySeq
  <1>2. \A t \in Threads : at[t] = "off" /\ hold[t].req = None
    BY DEF Empty
  <1>3. \A i \in Slot : d_request[i] = None /\ d_type[i] = "none"
    BY DEF Cleared
  <1>4. TableType /\ PipeType /\ FlagsType /\ EmuType
    <2>1. TableType
      BY DEF TableType, Cleared
    <2>2. PipeType
      BY <1>1, Constants DEF PipeType
    <2>3. FlagsType
      <3>1. thread_running \in BOOLEAN
        OBVIOUS
      <3>2. sync_sem \in Nat /\ change_sem \in {0, 1} /\ opens \in 0 .. MaxOpens
        BY Constants
      <3> QED  BY <3>1, <3>2 DEF FlagsType
    <2>4. EmuType
      BY Constants DEF EmuType, Guest
    <2> QED  BY <2>1, <2>2, <2>3, <2>4
  <1>5. ThreadType /\ GuestType
    <2>1. at \in [Threads -> Label]
      BY DEF Label
    <2>2. hold \in [Threads -> Held]
      BY Constants DEF Held, Empty
    <2>3. GuestType
      BY <1>1 DEF GuestType
    <2> QED  BY <2>1, <2>2, <2>3 DEF ThreadType
  <1>6. Mutex /\ EmuInv /\ Hands /\ OneSlot /\ Owned
    BY <1>2, <1>3 DEF Mutex, EmuInv, Hands, OneSlot, Owned, Inside, Guest, Asks
  <1>7. Stable
    <2>1. \A r \in Requests : ~Queued(r) /\ replies[r] = 0 /\ ~InHand(r)
      BY <1>1, <1>2, Constants DEF Queued, InHand
    <2>2. Places
      BY <1>1, <1>2, <2>1 DEF Places
    <2>3. Calls /\ Table /\ Marked
      BY <1>2, <1>3 DEF Calls, Table, Marked, Guest
    <2> QED  BY <2>2, <2>3 DEF Stable
  <1>8. Orderly
    <2>1. ~Ended
      BY <1>2 DEF Ended
    <2>2. ~Leaving
      BY <1>1, <2>1, LeavingIs
    <2> QED  BY <1>1, <2>1, <2>2 DEF Orderly, Guest, Asks, InUse
  <1> QED  BY <1>4, <1>5, <1>6, <1>7, <1>8 DEF Inv, Base

(* What has happened stays in the log, until the reset of an idle unit. *)
LEMMA LogGrows ==
    ASSUME Base, [HardfileNext]_vars, ~hardfile_reset, NEW e, Happened(e)
    PROVE  Happened(e)'
  <1>1. CASE \E r \in Requests : Remove(r) \/ AbortIO(r)
    BY <1>1, RemoveBase, AbortIOBase DEF Happened
  <1>2. CASE OpenDevice
    BY <1>2, OpenDeviceBase
  <1>3. CASE strayed' = strayed
    BY <1>3, NothingHappened
  <1>4. CASE hardfile_close
    BY <1>3, <1>4 DEF hardfile_close, others
  <1>5. CASE EmuStep
    <2>1. CASE Started \/ hardfile_open \/ BeginIO \/ SendRequest
      BY <1>3, <2>1 DEF Started, hardfile_open, BeginIO, SendRequest, others
    <2>2. CASE StartFailed \/ WipeSlot \/ Answer \/ hardfile_send_disk_change \/ ChangeDone
      BY <1>3, <2>2 DEF StartFailed, WipeSlot, Answer, hardfile_send_disk_change, ChangeDone, others
    <2>3. CASE RemoveChangeInt \/ abort_async \/ AbortListed
      BY <1>3, <2>3 DEF RemoveChangeInt, abort_async, AbortListed, ReleaseSlot, others
    <2> QED  BY <1>5, <2>1, <2>2, <2>3 DEF EmuStep
  <1>6. CASE \E r \in Requests : Receive(r)
    BY <1>3, <1>6 DEF Receive
  <1>7. CASE \E r \in Requests, c \in {"io", "add"} : Begin(r, c)
    BY <1>3, <1>7 DEF Begin
  <1>8. CASE \E op \in {"change", "reset"} : HostEvent(op)
    BY <1>3, <1>8 DEF HostEvent
  <1>9. CASE \E t \in Threads : ThreadStep(t)
    <2> SUFFICES ASSUME NEW t \in Threads, ThreadStep(t)
                 PROVE  strayed' = strayed
      BY <1>3, <1>9
    <2> USE DEF emulation
    <2>1. CASE Born(t) \/ ReadRequest(t) \/ Stop(t) \/ Bye(t) \/ hardfile_do_io(t)
      BY <2>1 DEF Born, ReadRequest, Stop, Bye, hardfile_do_io
    <2>2. CASE AddType(t) \/ AddData(t) \/ ReleaseDone(t) \/ ReplyDone(t) \/ PostChange(t)
      BY <2>2 DEF AddType, AddData, ReleaseDone, ReplyDone, PostChange
    <2> QED  BY <2>1, <2>2 DEF ThreadStep
  <1>10. CASE UNCHANGED vars
    <2>1. strayed' = strayed
      BY <1>10 DEF vars
    <2> QED  BY <1>3, <2>1
  <1> QED  BY <1>1, <1>2, <1>4, <1>5, <1>6, <1>7, <1>8, <1>9, <1>10 DEF HardfileNext

LEMMA NextBase == Base /\ [HardfileNext]_vars => Base'
  <1> SUFFICES ASSUME Base, [HardfileNext]_vars
               PROVE  Base'
    OBVIOUS
  <1>1. CASE OpenDevice \/ hardfile_close
    BY <1>1, OpenDeviceBase, CloseBase
  <1>2. CASE EmuStep
    BY <1>2, StartedBase, StartFailedBase, OpenBase, BeginIOBase, SendBase, ReleaseCalled, ReleaseBase,
       ListedBase, WipeBase, AnswerBase, ChangeBase, ResetBase DEF EmuStep
  <1>3. CASE \E r \in Requests : Remove(r) \/ AbortIO(r) \/ Receive(r)
    BY <1>3, RemoveBase, AbortIOBase, ReceiveBase
  <1>4. CASE \E r \in Requests, c \in {"io", "add"} : Begin(r, c)
    BY <1>4, BeginBase
  <1>5. CASE \E op \in {"change", "reset"} : HostEvent(op)
    BY <1>5, EventBase
  <1>6. CASE \E t \in Threads : ThreadStep(t)
    BY <1>6, BornBase, ReadBase, StopBase, ByeBase, DoIOBase, AddTypeBase, AddDataBase, ReleaseDoneBase,
       ReplyDoneBase, PostChangeBase DEF ThreadStep
  <1>7. CASE UNCHANGED vars
    <2>1. /\ UNCHANGED <<d_request, d_type, d_data, requests, thread_running, sync_sem, change_sem>>
          /\ UNCHANGED <<opens, emu, at, hold, owner, replies, command, caused, strayed>>
      BY <1>7 DEF vars, table, sems, port
    <2>2. TableType' /\ PipeType' /\ FlagsType' /\ EmuType' /\ ThreadType' /\ GuestType'
      BY <2>1 DEF Base, TableType, PipeType, FlagsType, EmuType, ThreadType, GuestType
    <2>3. Mutex' /\ EmuInv' /\ Hands' /\ OneSlot' /\ Owned'
      BY <2>1 DEF Base, Mutex, EmuInv, Hands, OneSlot, Owned, Running
    <2> QED  BY <2>2, <2>3 DEF Base
  <1> QED  BY <1>1, <1>2, <1>3, <1>4, <1>5, <1>6, <1>7 DEF HardfileNext

LEMMA NextStable ==
    ASSUME Base, Polite => Stable, Polite', [HardfileNext]_vars
    PROVE  Stable'
  <1>1. CASE hardfile_reset
    <2>1. ~Happened("reset busy")'
      BY DEF Polite
    <2>2. \A t \in Threads : at'[t] = "off" /\ hold'[t].req = None
      BY Zenon, <1>1, <2>1, ResetBase
    <2> QED  BY Zenon, <1>1, <2>2, ResetStable
  <1>2. CASE ~hardfile_reset
    <2>1. Stable
      BY <1>2, LogGrows DEF Polite
    <2>2. CASE OpenDevice \/ \E r \in Requests : Remove(r) \/ AbortIO(r)
      BY <2>1, <2>2, OpenStable, GuestStable
    <2>3. CASE \E r \in Requests, c \in {"io", "add"} : Begin(r, c)
      BY <2>1, <2>3, GuestStable
    <2>4. CASE hardfile_close \/ EmuStep
      BY <1>2, <2>1, <2>4, CloseStable, EmuStable, BeginIOStable, SendStable, ReleaseStable DEF EmuStep
    <2>5. CASE \E r \in Requests : Receive(r)
      BY <2>1, <2>5, ReceiveStable
    <2>6. CASE \E op \in {"change", "reset"} : HostEvent(op)
      BY <2>1, <2>6, EventStable
    <2>7. CASE \E t \in Threads : ThreadStep(t)
      BY <2>1, <2>7, ThreadStable
    <2>8. CASE UNCHANGED vars
      <3>1. /\ UNCHANGED <<d_request, d_type, requests, emu, at, hold, owner, replies, command>>
        BY <2>8 DEF vars, table, port
      <3>2. \A q : (Queued(q)' <=> Queued(q)) /\ (InHand(q)' <=> InHand(q))
        BY <3>1 DEF Queued, InHand
      <3>3. Places' /\ Calls'
        BY <2>1, <3>1, <3>2 DEF Stable, Places, Calls
      <3>4. Table'
        BY <2>1, <3>1 DEF Stable, Table, Holding
      <3>5. Marked'
        BY <2>1, <3>1, <3>2 DEF Stable, Marked
      <3> QED  BY <3>3, <3>4, <3>5 DEF Stable
    <2> QED  BY <2>2, <2>3, <2>4, <2>5, <2>6, <2>7, <2>8 DEF HardfileNext
  <1> QED  BY <1>1, <1>2

LEMMA NextOrderly ==
    ASSUME Base, ~Reopened => Orderly, ~Reopened', [HardfileNext]_vars
    PROVE  Orderly'
  <1>1. CASE hardfile_reset
    <2>1. requests' = <<>> /\ opens' = 0 /\ emu' = Guest
      BY <1>1, ResetBase
    <2>2. NoneLast(requests')
      BY <2>1, SeqRange
    <2> QED  BY <2>1, <2>2 DEF Orderly, InUse, Guest, Asks
  <1>2. CASE ~hardfile_reset
    <2>1. Orderly
      BY <1>2, LogGrows DEF Reopened
    <2>2. CASE hardfile_close \/ EmuStep
      BY <2>1, <2>2, EmuOrderly
    <2>3. CASE \E r \in Requests : Remove(r) \/ AbortIO(r) \/ Receive(r)
      BY <2>1, <2>3, GuestOrderly
    <2>4. CASE \E r \in Requests, c \in {"io", "add"} : Begin(r, c)
      BY <2>1, <2>4, GuestOrderly
    <2>5. CASE OpenDevice \/ \E op \in {"change", "reset"} : HostEvent(op)
      BY <2>1, <2>5, GuestOrderly
    <2>6. CASE \E t \in Threads : ThreadStep(t)
      BY <2>1, <2>6, ThreadOrderly
    <2>7. CASE UNCHANGED vars
      <3>1. UNCHANGED <<requests, at, hold, thread_running, sync_sem, opens, emu>>
        BY <2>7 DEF vars, sems
      <3>2. (Leaving' <=> Leaving) /\ (Ended' <=> Ended) /\ (Running' <=> Running)
        BY <3>1 DEF Leaving, Ended, Running
      <3>3. NoneLast(requests') <=> NoneLast(requests)
        BY <3>1
      <3> QED  BY <2>1, <3>1, <3>2, <3>3 DEF Orderly, InUse
    <2> QED  BY <2>2, <2>3, <2>4, <2>5, <2>6, <2>7 DEF HardfileNext
  <1> QED  BY <1>1, <1>2

THEOREM HardfileInvariant == HardfileSpec => []Inv
  <1>1. Inv /\ [HardfileNext]_vars => Inv'
    <2> SUFFICES ASSUME Inv, [HardfileNext]_vars
                 PROVE  Inv'
      OBVIOUS
    <2>1. Base'
      BY NextBase DEF Inv
    <2>2. Polite' => Stable'
      BY NextStable DEF Inv
    <2>3. ~Reopened' => Orderly'
      BY NextOrderly DEF Inv
    <2> QED  BY <2>1, <2>2, <2>3 DEF Inv
  <1> QED  BY <1>1, InitInv, PTL DEF HardfileSpec

(* The types need no hypothesis at all.  change_sem stays binary whatever happens. *)
THEOREM HardfileTyping == HardfileSpec => []TypeOK
  <1>1. Inv => TypeOK
    BY DEF Inv, Base, TypeOK, TableType, PipeType, FlagsType, EmuType, ThreadType, GuestType, Label, Held
  <1> QED  BY <1>1, HardfileInvariant, PTL

(* A request that is marked as being processed is in the pipe or in the hands of a thread, and a
   thread runs, as long as exec's rules are kept: through AbortIO of whatever the guest likes, a
   last CloseDevice and an OpenDevice before the thread has ended.  After the latter the pipe may
   have lost its thread; thread_running is off then, so the next call clears the table. *)
THEOREM MarkedIsProcessed == HardfileSpec => [](Polite => TempIsProcessed)
  <1>1. Inv => (Polite => TempIsProcessed)
    <2> SUFFICES ASSUME Inv, Polite, NEW i \in Slot, d_type[i] = "temp", d_request[i] # None,
                        ~(emu.at = "send" /\ emu.slot = i)
                 PROVE  Queued(d_request[i]) /\ (Running \/ (~thread_running /\ Happened("reopen")))
      BY DEF TempIsProcessed
    <2>1. Queued(d_request[i])
      BY DEF Inv, Stable, Marked
    <2>2. CASE Reopened
      BY <2>1, <2>2 DEF Inv, Base, Owned, Reopened
    <2>3. CASE ~Reopened
      <3>1. CASE d_request[i] \in Range(requests)
        <4>1. requests # <<>>
          BY <3>1, SeqRange
        <4> QED  BY <2>1, <2>3, <4>1 DEF Inv, Orderly
      <3>2. CASE InHand(d_request[i])
        <4>1. PICK t \in Threads : hold[t].req = d_request[i]
          BY <3>2 DEF InHand
        <4>2. at[t] \in Alive
          BY <4>1 DEF Inv, Base, Hands, ThreadType, Label, Alive
        <4> QED  BY <2>1, <4>2 DEF Running
      <3> QED  BY <2>1, <3>1, <3>2 DEF Queued
    <2> QED  BY <2>2, <2>3
  <1> QED  BY <1>1, HardfileInvariant, PTL

----------------------------------------------------------------------------
(* Exec's contract: how many answers the device owes to a request. *)

InPipe(r) == Cardinality({i \in DOMAIN requests : requests[i] = r})
InHands(r) == Cardinality({t \in Threads : hold[t].req = r})
OnCall(r) == IF emu.op \in {"begin", "remove"} /\ emu.req = r THEN 1 ELSE 0

LEMMA OwedIs ==
    ASSUME Base, NEW r
    PROVE  /\ Owed(r) = InPipe(r) + InHands(r) + OnCall(r)
           /\ InPipe(r) \in Nat /\ InHands(r) \in Nat /\ OnCall(r) \in {0, 1}
  <1>1. IsFiniteSet(Threads)
    BY HardfileAssumption
  <1>2. IsFiniteSet({t \in Threads : hold[t].req = r})
    BY <1>1, FS_Subset
  <1>3. DOMAIN requests = 1 .. Len(requests) /\ Len(requests) \in Nat
    BY LenProperties DEF Base, PipeType
  <1>4. IsFiniteSet(1 .. Len(requests))
    BY <1>3, FS_Interval
  <1>5. IsFiniteSet({i \in DOMAIN requests : requests[i] = r})
    <2>1. {i \in DOMAIN requests : requests[i] = r} \in SUBSET (1 .. Len(requests))
      BY <1>3
    <2> QED  BY <1>4, <2>1, FS_Subset
  <1>6. InPipe(r) \in Nat /\ InHands(r) \in Nat
    BY <1>2, <1>5, FS_CardinalityType DEF InPipe, InHands
  <1> QED  BY <1>6 DEF Owed, InPipe, InHands, OnCall

LEMMA OwedNext ==
    ASSUME Base', NEW r
    PROVE  /\ Owed(r)' = InPipe(r)' + InHands(r)' + OnCall(r)'
           /\ InPipe(r)' \in Nat /\ InHands(r)' \in Nat /\ OnCall(r)' \in {0, 1}
  <1>1. IsFiniteSet(Threads)
    BY HardfileAssumption
  <1>2. IsFiniteSet({t \in Threads : hold'[t].req = r})
    BY <1>1, FS_Subset
  <1>3. DOMAIN requests' = 1 .. Len(requests') /\ Len(requests') \in Nat
    BY LenProperties DEF Base, PipeType
  <1>4. IsFiniteSet(1 .. Len(requests'))
    BY <1>3, FS_Interval
  <1>5. IsFiniteSet({i \in DOMAIN requests' : requests'[i] = r})
    <2>1. {i \in DOMAIN requests' : requests'[i] = r} \in SUBSET (1 .. Len(requests'))
      BY <1>3
    <2> QED  BY <1>4, <2>1, FS_Subset
  <1>6. InPipe(r)' \in Nat /\ InHands(r)' \in Nat
    BY <1>2, <1>5, FS_CardinalityType DEF InPipe, InHands
  <1> QED  BY <1>6 DEF Owed, InPipe, InHands, OnCall

LEMMA PipeGains ==
    ASSUME Base, NEW e \in Requests \cup {None}, requests' = Append(requests, e), NEW r
    PROVE  InPipe(r)' = InPipe(r) + (IF e = r THEN 1 ELSE 0)
  <1> DEFINE S == {i \in DOMAIN requests : requests[i] = r}
             T == {i \in DOMAIN requests' : requests'[i] = r}
             n == Len(requests) + 1
  <1>1. requests \in Seq(Requests \cup {None})
    BY DEF Base, PipeType
  <1>2. /\ n \in Nat /\ DOMAIN requests = 1 .. n - 1 /\ DOMAIN requests' = 1 .. n
        /\ requests'[n] = e /\ \A i \in 1 .. n - 1 : requests'[i] = requests[i]
    BY <1>1, AppendProperties, LenProperties
  <1>3. IsFiniteSet(S) /\ Cardinality(S) \in Nat
    <2>1. IsFiniteSet(1 .. n - 1) /\ S \in SUBSET (1 .. n - 1)
      BY <1>2, FS_Interval
    <2> QED  BY <2>1, FS_Subset, FS_CardinalityType
  <1>4. n \notin S /\ T = IF e = r THEN S \cup {n} ELSE S
    <2> HIDE DEF n
    <2> QED  BY <1>2
  <1>5. Cardinality(S \cup {n}) = Cardinality(S) + 1
    <2> HIDE DEF S, n
    <2> QED  BY <1>3, <1>4, FS_AddElement
  <1>6. Cardinality(T) = Cardinality(S) + (IF e = r THEN 1 ELSE 0)
    <2> HIDE DEF S, T, n
    <2> QED  BY <1>3, <1>4, <1>5
  <1> QED  BY <1>6 DEF InPipe

LEMMA PipeLoses ==
    ASSUME Base, requests # <<>>, requests' = Tail(requests), NEW r
    PROVE  InPipe(r)' <= InPipe(r) - (IF Head(requests) = r THEN 1 ELSE 0)
  <1> DEFINE S == {i \in DOMAIN requests : requests[i] = r}
             T == {i \in DOMAIN requests' : requests'[i] = r}
             n == Len(requests)
             f == [i \in T |-> i + 1]
  <1>1. requests \in Seq(Requests \cup {None})
    BY DEF Base, PipeType
  <1>2. /\ n \in Nat \ {0} /\ Head(requests) = requests[1] /\ Tail(requests) \in Seq(Requests \cup {None})
        /\ Len(Tail(requests)) = n - 1 /\ \A i \in 1 .. Len(Tail(requests)) : Tail(requests)[i] = requests[i + 1]
    BY <1>1, HeadTailProperties, LenProperties, EmptySeq
  <1>3. /\ DOMAIN requests = 1 .. n /\ DOMAIN requests' = 1 .. n - 1
        /\ \A i \in 1 .. n - 1 : requests'[i] = requests[i + 1]
    <2>1. DOMAIN requests = 1 .. n /\ DOMAIN Tail(requests) = 1 .. n - 1
      BY <1>1, <1>2, LenProperties
    <2>2. 1 .. Len(Tail(requests)) = 1 .. n - 1
      BY <1>2
    <2> QED  BY <1>2, <2>1, <2>2
  <1>4. IsFiniteSet(S) /\ Cardinality(S) \in Nat
    <2>1. IsFiniteSet(1 .. n) /\ S \in SUBSET (1 .. n)
      BY <1>2, <1>3, FS_Interval
    <2> QED  BY <2>1, FS_Subset, FS_CardinalityType
  <1>5. IsFiniteSet(S \ {1}) /\ Cardinality(S \ {1}) = IF 1 \in S THEN Cardinality(S) - 1 ELSE Cardinality(S)
    BY <1>4, FS_RemoveElement
  <1>6. 1 \in S <=> Head(requests) = r
    BY <1>2, <1>3
  <1>7. f \in Injection(T, S \ {1})
    <2>1. \A i \in T : i + 1 \in S \ {1}
      <3> SUFFICES ASSUME NEW i \in T
                   PROVE  i + 1 \in S \ {1}
        OBVIOUS
      <3>1. i \in 1 .. n - 1 /\ requests'[i] = r
        BY <1>3
      <3>2. i + 1 \in 1 .. n /\ i + 1 # 1 /\ requests[i + 1] = r
        BY <1>2, <1>3, <3>1
      <3> QED  BY <1>3, <3>2
    <2>2. T \subseteq Nat
      BY <1>2, <1>3
    <2> HIDE DEF S, T
    <2>3. f \in [T -> S \ {1}]
      BY <2>1
    <2>4. \A a, b \in T : f[a] = f[b] => a = b
      BY <2>2
    <2> HIDE DEF f
    <2>5. DOMAIN f = T
      BY <2>3
    <2>6. IsInjective(f)
      BY <2>4, <2>5, Zenon DEF IsInjective
    <2> QED  BY <2>3, <2>6, Zenon DEF Injection
  <1>8. Cardinality(T) <= Cardinality(S \ {1})
    <2> HIDE DEF S, T, f
    <2> QED  BY <1>5, <1>7, FS_Injection
  <1>9. Cardinality(T) <= Cardinality(S) - (IF Head(requests) = r THEN 1 ELSE 0)
    <2> HIDE DEF S, T, f
    <2>1. Cardinality(S \ {1}) = Cardinality(S) - (IF Head(requests) = r THEN 1 ELSE 0)
      BY <1>4, <1>5, <1>6
    <2> QED  BY <1>8, <2>1
  <1> QED  BY <1>9 DEF InPipe

LEMMA PipeEmpty ==
    ASSUME requests' = <<>>, NEW r
    PROVE  InPipe(r)' = 0
  <1>1. DOMAIN <<>> = {}
    OBVIOUS
  <1>2. {i \in DOMAIN requests' : requests'[i] = r} = {}
    BY <1>1
  <1> QED  BY <1>2, FS_EmptySet DEF InPipe

LEMMA HandsChange ==
    ASSUME Base, NEW t \in Threads, \A u \in Threads \ {t} : hold'[u] = hold[u], NEW r
    PROVE  InHands(r)' = InHands(r) + (IF hold'[t].req = r THEN 1 ELSE 0)
                                    - (IF hold[t].req = r THEN 1 ELSE 0)
  <1> DEFINE S == {u \in Threads : hold[u].req = r}
             T == {u \in Threads : hold'[u].req = r}
  <1>1. IsFiniteSet(S) /\ IsFiniteSet(T) /\ Cardinality(S) \in Nat /\ Cardinality(T) \in Nat
    <2>1. IsFiniteSet(Threads) /\ S \in SUBSET Threads /\ T \in SUBSET Threads
      BY HardfileAssumption
    <2> QED  BY <2>1, FS_Subset, FS_CardinalityType
  <1>2. S \ {t} = T \ {t} /\ (t \in S <=> hold[t].req = r) /\ (t \in T <=> hold'[t].req = r)
    OBVIOUS
  <1> HIDE DEF S, T
  <1>3. /\ Cardinality(S \ {t}) = IF t \in S THEN Cardinality(S) - 1 ELSE Cardinality(S)
        /\ Cardinality(T \ {t}) = IF t \in T THEN Cardinality(T) - 1 ELSE Cardinality(T)
    BY <1>1, FS_RemoveElement
  <1>4. Cardinality(T) = Cardinality(S) + (IF hold'[t].req = r THEN 1 ELSE 0)
                                        - (IF hold[t].req = r THEN 1 ELSE 0)
    <2>1. Cardinality(S \ {t}) = Cardinality(T \ {t})
      BY <1>2
    <2>2. CASE t \in S /\ t \in T
      BY <1>1, <1>2, <1>3, <2>1, <2>2
    <2>3. CASE t \in S /\ t \notin T
      BY <1>1, <1>2, <1>3, <2>1, <2>3
    <2>4. CASE t \notin S /\ t \in T
      BY <1>1, <1>2, <1>3, <2>1, <2>4
    <2>5. CASE t \notin S /\ t \notin T
      BY <1>1, <1>2, <1>3, <2>1, <2>5
    <2> QED  BY <2>2, <2>3, <2>4, <2>5
  <1> QED  BY <1>4 DEF InHands, S, T

(* What a step is, in the terms of the contract. *)
Drops == \A r \in Requests : Owed(r)' <= Owed(r)
DropsBut(q) == \A r \in Requests \ {q} : Owed(r)' <= Owed(r)

LEMMA IOSteps ==
    /\ UNCHANGED <<owner, replies>> /\ Drops => Device!IONext
    /\ owner' = [r \in Requests |-> "guest"] /\ replies' = [r \in Requests |-> 0] /\ Drops
           => Device!IONext
    /\ \A r \in Requests :
          /\ owner' = [owner EXCEPT ![r] = "device"] /\ UNCHANGED replies
             /\ Owed(r)' <= Owed(r) + 1 /\ DropsBut(r) => Device!IONext
          /\ replies' = [replies EXCEPT ![r] = @ + 1] /\ UNCHANGED owner
             /\ Owed(r)' < Owed(r) /\ DropsBut(r) => Device!IONext
          /\ replies[r] > 0 /\ replies' = [replies EXCEPT ![r] = @ - 1]
             /\ owner' = [owner EXCEPT ![r] = "guest"] /\ Drops => Device!IONext
          /\ owner' = [owner EXCEPT ![r] = "guest"] /\ UNCHANGED replies
             /\ Owed(r)' < Owed(r) /\ DropsBut(r) => Device!IONext
  <1>1. UNCHANGED <<owner, replies>> /\ Drops => Device!IONext
    BY DEF Device!IONext, Device!Dropped, Device!Lose, Drops
  <1>2. owner' = [r \in Requests |-> "guest"] /\ replies' = [r \in Requests |-> 0] /\ Drops
           => Device!IONext
    BY DEF Device!IONext, Device!Forgotten, Device!Lose, Drops
  <1>3. ASSUME NEW r \in Requests
        PROVE  /\ owner' = [owner EXCEPT ![r] = "device"] /\ UNCHANGED replies
                  /\ Owed(r)' <= Owed(r) + 1 /\ DropsBut(r) => Device!IONext
               /\ replies' = [replies EXCEPT ![r] = @ + 1] /\ UNCHANGED owner
                  /\ Owed(r)' < Owed(r) /\ DropsBut(r) => Device!IONext
               /\ replies[r] > 0 /\ replies' = [replies EXCEPT ![r] = @ - 1]
                  /\ owner' = [owner EXCEPT ![r] = "guest"] /\ Drops => Device!IONext
               /\ owner' = [owner EXCEPT ![r] = "guest"] /\ UNCHANGED replies
                  /\ Owed(r)' < Owed(r) /\ DropsBut(r) => Device!IONext
    BY DEF Device!IONext, Device!Begun, Device!Replied, Device!Taken, Device!DoneQuick,
           Device!Lose, Drops, DropsBut
  <1> QED  BY <1>1, <1>2, <1>3

LEMMA OwedMoves ==
    ASSUME Base, Base', UNCHANGED requests, \A t \in Threads : hold'[t].req = hold[t].req, NEW r
    PROVE  Owed(r)' = Owed(r) - OnCall(r) + OnCall(r)'
  <1>1. InPipe(r)' = InPipe(r)
    BY DEF InPipe
  <1>2. InHands(r)' = InHands(r)
    <2>1. {t \in Threads : hold'[t].req = r} = {t \in Threads : hold[t].req = r}
      OBVIOUS
    <2> QED  BY <2>1 DEF InHands
  <1> HIDE DEF InPipe, InHands, OnCall
  <1> QED  BY <1>1, <1>2, OwedIs, OwedNext

LEMMA QuietContract ==
    ASSUME Base, Base', UNCHANGED <<requests, owner, replies>>,
           \A t \in Threads : hold'[t].req = hold[t].req,
           emu'.op \in {"begin", "remove"} => emu'.op = emu.op /\ emu'.req = emu.req
    PROVE  Device!IONext
  <1>1. ASSUME NEW r \in Requests
        PROVE  Owed(r)' <= Owed(r)
    <2>1. OnCall(r)' <= OnCall(r) /\ OnCall(r)' \in {0, 1} /\ OnCall(r) \in {0, 1}
      BY DEF OnCall
    <2>2. Owed(r)' = Owed(r) - OnCall(r) + OnCall(r)' /\ Owed(r) \in Nat
      BY OwedMoves, OwedIs
    <2> QED  BY <2>1, <2>2
  <1>2. Drops
    BY <1>1 DEF Drops
  <1> QED  BY <1>2, IOSteps

(* A call that the emulation thread answers itself. *)
LEMMA AnsweredContract ==
    ASSUME Base, Base', UNCHANGED <<requests, hold>>, emu' = Guest,
           emu.op \in {"begin", "remove"}, emu.req \in Requests,
           \/ UNCHANGED owner /\ replies' = [replies EXCEPT ![emu.req] = @ + 1]
           \/ UNCHANGED replies /\ owner' = [owner EXCEPT ![emu.req] = "guest"]
    PROVE  Device!IONext
  <1>1. ASSUME NEW r \in Requests
        PROVE  Owed(r)' = Owed(r) - (IF r = emu.req THEN 1 ELSE 0) /\ Owed(r) \in Nat
    <2>1. OnCall(r)' = 0 /\ OnCall(r) = IF r = emu.req THEN 1 ELSE 0
      BY DEF OnCall, Guest
    <2>2. Owed(r)' = Owed(r) - OnCall(r) + OnCall(r)' /\ Owed(r) \in Nat
      BY OwedMoves, OwedIs
    <2> QED  BY <2>1, <2>2
  <1>2. PICK q \in Requests : q = emu.req
    OBVIOUS
  <1>3. /\ \A r \in Requests : Owed(r)' = Owed(r) - (IF r = q THEN 1 ELSE 0) /\ Owed(r) \in Nat
        /\ \/ UNCHANGED owner /\ replies' = [replies EXCEPT ![q] = @ + 1]
           \/ UNCHANGED replies /\ owner' = [owner EXCEPT ![q] = "guest"]
    BY <1>1, <1>2
  <1>4. Owed(q)' < Owed(q) /\ DropsBut(q)
    BY <1>3 DEF DropsBut
  <1> QED  BY <1>3, <1>4, IOSteps

LEMMA EmuContract ==
    ASSUME Base, Base', EmuStep \/ hardfile_close
    PROVE  Device!IONext
  <1>1. CASE Started
    <2>1. emu' = [emu EXCEPT !.at = emu.op]
      BY <1>1, StartedBase
    <2>2. emu'.op = emu.op /\ emu'.req = emu.req /\ UNCHANGED <<requests, owner, replies, hold>>
      BY <1>1, <2>1 DEF Started, others, port, Base, EmuType
    <2> QED  BY <2>2, QuietContract
  <1>2. CASE StartFailed
    <2>1. UNCHANGED <<requests, hold, replies>> /\ emu' = Guest
      BY <1>2 DEF StartFailed, Return
    <2>2. CASE owner' = owner
      BY <2>1, <2>2, QuietContract DEF Guest
    <2>3. CASE owner' # owner
      <3>1. emu.op \in {"begin", "remove"} /\ owner' = [owner EXCEPT ![emu.req] = "guest"]
        BY <1>2, <2>3 DEF StartFailed
      <3>2. emu.req \in Requests
        BY <3>1 DEF Base, EmuInv, EmuType
      <3> QED  BY <2>1, <3>1, <3>2, AnsweredContract
    <2> QED  BY <2>2, <2>3
  <1>3. CASE hardfile_open
    <2>1. UNCHANGED <<requests, hold, owner, replies>> /\ emu' = Guest
      BY <1>3 DEF hardfile_open, Return, others, port
    <2> QED  BY <2>1, QuietContract DEF Guest
  <1>4. CASE hardfile_close
    <2>1. UNCHANGED <<hold, owner, replies, emu>>
      BY <1>4 DEF hardfile_close, others, port
    <2>2. CASE opens = 1
      <3>1. requests' = Append(requests, None)
        BY <1>4, <2>2 DEF hardfile_close
      <3>2. ASSUME NEW r \in Requests
            PROVE  Owed(r)' = Owed(r) /\ Owed(r) \in Nat
        <4>1. InPipe(r)' = InPipe(r)
          <5>1. r # None /\ InPipe(r) \in Nat
            BY Constants, OwedIs
          <5> QED  BY <3>1, <5>1, PipeGains
        <4>2. InHands(r)' = InHands(r) /\ OnCall(r)' = OnCall(r)
          BY <2>1 DEF InHands, OnCall
        <4> QED  BY <4>1, <4>2, OwedIs, OwedNext
      <3>3. Drops
        BY <3>2 DEF Drops
      <3> QED  BY <2>1, <3>3, IOSteps
    <2>3. CASE opens # 1
      <3>1. UNCHANGED requests
        BY <1>4, <2>3 DEF hardfile_close
      <3> QED  BY <2>1, <3>1, QuietContract
    <2> QED  BY <2>2, <2>3
  <1>5. CASE BeginIO
    <2>1. /\ emu.op = "begin" /\ emu'.op = "begin" /\ emu'.req = emu.req
          /\ UNCHANGED <<requests, hold, owner, replies>>
      BY <1>5, BeginIOBase DEF BeginIO, others, port
    <2> QED  BY <2>1, QuietContract
  <1>6. CASE SendRequest
    <2>1. /\ emu.op = "begin" /\ emu.req \in Requests /\ emu' = Guest
          /\ requests' = Append(requests, emu.req)
          /\ UNCHANGED <<hold, owner, replies>>
      BY <1>6, SendBase DEF SendRequest, others, port
    <2>2. ASSUME NEW r \in Requests
          PROVE  Owed(r)' = Owed(r) /\ Owed(r) \in Nat
      <3>1. InPipe(r)' = InPipe(r) + (IF emu.req = r THEN 1 ELSE 0)
        BY <2>1, PipeGains
      <3>2. InHands(r)' = InHands(r)
        BY <2>1 DEF InHands
      <3>3. OnCall(r) = (IF emu.req = r THEN 1 ELSE 0) /\ OnCall(r)' = 0
        BY <2>1 DEF OnCall, Guest
      <3> QED  BY <3>1, <3>2, <3>3, OwedIs, OwedNext
    <2>3. Drops
      BY <2>2 DEF Drops
    <2> QED  BY <2>1, <2>3, IOSteps
  <1>7. CASE RemoveChangeInt \/ abort_async \/ AbortListed
    <2>1. ASSUME NEW r \in Requests, ReleaseSlot(r), emu.at \in {"remove", "abort", "reset"},
                 emu.at # "reset" => r = emu.req, emu.at = "reset" => Holding(r) # {}
          PROVE  emu'.op = emu.op /\ emu'.req = emu.req /\ UNCHANGED <<requests, hold, owner, replies>>
      BY <2>1, ReleaseBase DEF others, port
    <2>2. emu'.op = emu.op /\ emu'.req = emu.req /\ UNCHANGED <<requests, hold, owner, replies>>
      <3>1. CASE RemoveChangeInt \/ abort_async
        <4>1. /\ ReleaseSlot(emu.req) /\ emu.req \in Requests /\ emu.at \in {"remove", "abort"}
          BY <3>1, ReleaseCalled
        <4> QED  BY <2>1, <4>1
      <3>2. CASE AbortListed /\ d_request[emu.slot] # None
        <4>1. /\ ReleaseSlot(d_request[emu.slot]) /\ d_request[emu.slot] \in Requests
              /\ Holding(d_request[emu.slot]) # {} /\ emu.at = "reset"
          BY <3>2, ReleaseListed1
        <4> QED  BY <2>1, <4>1
      <3>3. CASE AbortListed /\ d_request[emu.slot] = None
        BY <3>3, NextSlotBase DEF others, port
      <3> QED  BY <1>7, <3>1, <3>2, <3>3
    <2> QED  BY <2>2, QuietContract
  <1>8. CASE WipeSlot
    <2>1. /\ emu'.op \in {"none", emu.op} /\ (emu'.op # "none" => emu'.req = emu.req)
          /\ UNCHANGED <<requests, hold, owner, replies>>
      BY <1>8, WipeBase DEF others, port
    <2> QED  BY <2>1, QuietContract
  <1>9. CASE Answer
    <2>1. /\ emu.op = "remove" /\ emu.req \in Requests /\ emu' = Guest /\ UNCHANGED <<requests, hold>>
          /\ \/ owner' = owner /\ replies' = [replies EXCEPT ![emu.req] = @ + 1]
             \/ owner' = [owner EXCEPT ![emu.req] = "guest"] /\ replies' = replies
      BY <1>9, AnswerBase DEF Answer
    <2> QED  BY <2>1, AnsweredContract
  <1>10. CASE hardfile_send_disk_change \/ ChangeDone
    <2>1. emu'.op \in {"change", "none"} /\ UNCHANGED <<requests, hold, owner, replies>>
      BY <1>10, ChangeBase DEF port
    <2> QED  BY <2>1, QuietContract
  <1>11. CASE hardfile_reset
    <2>1. /\ requests' = <<>> /\ emu' = Guest /\ hold' = hold
          /\ owner' = [r \in Requests |-> "guest"] /\ replies' = [r \in Requests |-> 0]
      BY <1>11 DEF hardfile_reset, Return
    <2>2. ASSUME NEW r \in Requests
          PROVE  Owed(r)' <= Owed(r)
      <3>1. InPipe(r)' = 0
        BY <2>1, PipeEmpty
      <3>2. InHands(r)' = InHands(r) /\ OnCall(r)' = 0
        BY <2>1 DEF InHands, OnCall, Guest
      <3> QED  BY <3>1, <3>2, OwedIs, OwedNext
    <2>3. Drops
      BY <2>2 DEF Drops
    <2> QED  BY <2>1, <2>3, IOSteps
  <1> QED  BY <1>1, <1>2, <1>3, <1>4, <1>5, <1>6, <1>7, <1>8, <1>9, <1>10, <1>11 DEF EmuStep

LEMMA OwedCalled ==
    ASSUME Base, Base', NEW op \in Asks, NEW r, Called(op, r), NEW q \in Requests
    PROVE  Owed(q)' <= Owed(q) + (IF op \in {"begin", "remove"} /\ q = r THEN 1 ELSE 0)
           /\ Owed(q) \in Nat /\ Owed(q)' \in Nat
  <1>1. /\ emu = Guest /\ hold' = hold /\ emu'.op = op /\ emu'.req = r
        /\ requests' = requests \/ requests' = <<>>
    BY DEF Called
  <1>2. InPipe(q)' <= InPipe(q)
    <2>1. CASE requests' = requests
      <3>1. InPipe(q)' = InPipe(q)
        BY <2>1 DEF InPipe
      <3> QED  BY <3>1, OwedIs
    <2>2. CASE requests' = <<>>
      BY <2>2, PipeEmpty, OwedIs
    <2> QED  BY <1>1, <2>1, <2>2
  <1>3. InHands(q)' = InHands(q)
    BY <1>1 DEF InHands
  <1>4. OnCall(q) = 0 /\ OnCall(q)' = IF op \in {"begin", "remove"} /\ q = r THEN 1 ELSE 0
    BY <1>1 DEF OnCall, Guest
  <1> QED  BY <1>2, <1>3, <1>4, OwedIs, OwedNext

LEMMA GuestContract ==
    ASSUME Base, Base',
           \/ OpenDevice \/ \E r \in Requests : Remove(r) \/ AbortIO(r) \/ Receive(r)
           \/ \E r \in Requests, c \in {"io", "add"} : Begin(r, c)
           \/ \E op \in {"change", "reset"} : HostEvent(op)
    PROVE  Device!IONext
  <1>1. CASE \E r \in Requests, c \in {"io", "add"} : Begin(r, c)
    <2>1. PICK r \in Requests, c \in {"io", "add"} : Begin(r, c)
      BY <1>1
    <2>2. Called("begin", r) /\ owner' = [owner EXCEPT ![r] = "device"] /\ replies' = replies
      BY <2>1, BeginBase DEF Begin, Called
    <2>3. Owed(r)' <= Owed(r) + 1 /\ DropsBut(r)
      <3>1. \A q \in Requests : Owed(q)' <= Owed(q) + (IF q = r THEN 1 ELSE 0) /\ Owed(q) \in Nat /\ Owed(q)' \in Nat
        BY <2>2, OwedCalled DEF Asks
      <3> QED  BY <3>1 DEF DropsBut
    <2> QED  BY <2>2, <2>3, IOSteps
  <1>2. CASE \E r \in Requests : Remove(r)
    <2>1. PICK r \in Requests : Remove(r)
      BY <1>2
    <2>2. Called("remove", r) /\ owner' = owner /\ owner[r] = "device" /\ replies' = replies
      BY <2>1, RemoveBase DEF Called
    <2>3. Owed(r)' <= Owed(r) + 1 /\ DropsBut(r)
      <3>1. \A q \in Requests : Owed(q)' <= Owed(q) + (IF q = r THEN 1 ELSE 0) /\ Owed(q) \in Nat /\ Owed(q)' \in Nat
        BY <2>2, OwedCalled DEF Asks
      <3> QED  BY <3>1 DEF DropsBut
    <2>4. owner' = [owner EXCEPT ![r] = "device"]
      BY <2>2 DEF Base, GuestType
    <2> QED  BY <2>2, <2>3, <2>4, IOSteps
  <1>3. CASE OpenDevice \/ \E r \in Requests : AbortIO(r)
    <2>1. PICK op \in {"open", "abort"}, r \in Requests \cup {None} : Called(op, r)
      BY <1>3, OpenDeviceBase, AbortIOBase
    <2>2. UNCHANGED <<owner, replies>>
      BY <1>3, <2>1, OpenDeviceBase, AbortIOBase DEF Called
    <2>3. \A q \in Requests : Owed(q)' <= Owed(q)
      <3>1. \A q \in Requests : Owed(q)' <= Owed(q) + 0 /\ Owed(q) \in Nat /\ Owed(q)' \in Nat
        BY <2>1, OwedCalled DEF Asks
      <3> QED  BY <3>1
    <2>4. Drops
      BY <2>3 DEF Drops
    <2> QED  BY <2>2, <2>4, IOSteps
  <1>4. CASE \E r \in Requests : Receive(r)
    <2>1. PICK r \in Requests : Receive(r)
      BY <1>4
    <2>2. /\ replies[r] > 0 /\ UNCHANGED <<requests, emu, hold>>
          /\ owner' = [owner EXCEPT ![r] = "guest"] /\ replies' = [replies EXCEPT ![r] = @ - 1]
      BY <2>1, ReceiveBase
    <2>3. ASSUME NEW q \in Requests
          PROVE  Owed(q)' <= Owed(q)
      <3>1. OnCall(q)' = OnCall(q) /\ OnCall(q) \in {0, 1}
        BY <2>2 DEF OnCall
      <3> QED  BY <2>2, <3>1, OwedMoves, OwedIs
    <2>4. Drops
      BY <2>3 DEF Drops
    <2> QED  BY <2>2, <2>4, IOSteps
  <1>5. CASE \E op \in {"change", "reset"} : HostEvent(op)
    <2>1. PICK op \in {"change", "reset"} : HostEvent(op)
      BY <1>5
    <2>2. emu'.op = op /\ UNCHANGED <<requests, hold, owner, replies>>
      BY <2>1, EventBase
    <2> QED  BY <2>2, QuietContract
  <1> QED  BY <1>1, <1>2, <1>3, <1>4, <1>5

LEMMA ThreadContract ==
    ASSUME Base, Base', NEW t \in Threads, ThreadStep(t)
    PROVE  Device!IONext
  <1>1. CASE Born(t) \/ Stop(t) \/ Bye(t)
    <2>1. UNCHANGED <<requests, emu, owner, replies, hold>>
      BY <1>1, StopBase, ByeBase DEF Born, emulation, port
    <2> QED  BY <2>1, QuietContract
  <1>2. CASE hardfile_do_io(t) \/ AddType(t) \/ ReleaseDone(t) \/ PostChange(t)
    <2>1. Works(t) /\ replies' = replies /\ hold'[t].req = hold[t].req
      BY <1>2, DoIOBase, AddTypeBase, ReleaseDoneBase, PostChangeBase
    <2>2. UNCHANGED <<requests, emu, owner, replies>> /\ \A u \in Threads : hold'[u].req = hold[u].req
      BY <2>1 DEF Works
    <2> QED  BY <2>2, QuietContract
  <1>3. CASE ReadRequest(t)
    <2>1. /\ hold[t].req = None /\ hold'[t].req = Head(requests) /\ requests # <<>> /\ requests' = Tail(requests)
          /\ \A u \in Threads \ {t} : hold'[u] = hold[u]
          /\ UNCHANGED <<emu, owner, replies>>
      BY <1>3, ReadBase DEF ReadRequest, emulation, port
    <2>2. ASSUME NEW r \in Requests
          PROVE  Owed(r)' <= Owed(r)
      <3>1. InPipe(r)' <= InPipe(r) - (IF Head(requests) = r THEN 1 ELSE 0)
        BY <2>1, PipeLoses
      <3>2. InHands(r)' = InHands(r) + (IF Head(requests) = r THEN 1 ELSE 0)
        <4>1. InHands(r)' = InHands(r) + (IF Head(requests) = r THEN 1 ELSE 0) - (IF None = r THEN 1 ELSE 0)
          BY <2>1, HandsChange
        <4>2. r # None /\ InHands(r) \in Nat
          BY Constants, OwedIs
        <4> QED  BY <4>1, <4>2
      <3>3. OnCall(r)' = OnCall(r)
        BY <2>1 DEF OnCall
      <3> QED  BY <3>1, <3>2, <3>3, OwedIs, OwedNext
    <2>3. Drops
      BY <2>2 DEF Drops
    <2> QED  BY <2>1, <2>3, IOSteps
  <1>4. CASE AddData(t) \/ ReplyDone(t)
    <2>1. PICK r \in Requests : r = hold[t].req
      BY <1>4, AddDataBase, ReplyDoneBase
    <2>2. /\ hold'[t].req = None /\ Works(t)
          /\ replies' = replies \/ replies' = [replies EXCEPT ![r] = @ + 1]
      BY <1>4, <2>1, AddDataBase, ReplyDoneBase
    <2>3. UNCHANGED <<requests, emu, owner>> /\ \A u \in Threads \ {t} : hold'[u] = hold[u]
      BY <2>2 DEF Works
    <2>4. ASSUME NEW q \in Requests
          PROVE  Owed(q)' = Owed(q) - (IF q = r THEN 1 ELSE 0) /\ Owed(q) \in Nat
      <3>1. InHands(q)' = InHands(q) - (IF q = r THEN 1 ELSE 0)
        <4>1. InHands(q)' = InHands(q) + (IF None = q THEN 1 ELSE 0) - (IF r = q THEN 1 ELSE 0)
          BY <2>1, <2>2, <2>3, HandsChange
        <4>2. q # None /\ InHands(q) \in Nat
          BY Constants, OwedIs
        <4> QED  BY <4>1, <4>2
      <3>2. OnCall(q)' = OnCall(q) /\ InPipe(q)' = InPipe(q)
        BY <2>3 DEF OnCall, InPipe
      <3> QED  BY <3>1, <3>2, OwedIs, OwedNext
    <2>5. Owed(r)' < Owed(r) /\ DropsBut(r) /\ Drops
      BY <2>4 DEF DropsBut, Drops
    <2> QED  BY <2>2, <2>3, <2>5, IOSteps
  <1> QED  BY <1>1, <1>2, <1>3, <1>4 DEF ThreadStep

LEMMA NextContract == Base /\ [HardfileNext]_vars => [Device!IONext]_(Device!ioVars)
  <1> SUFFICES ASSUME Base, [HardfileNext]_vars
               PROVE  [Device!IONext]_(Device!ioVars)
    OBVIOUS
  <1>1. Base'
    BY NextBase
  <1>2. CASE EmuStep \/ hardfile_close
    BY <1>1, <1>2, EmuContract
  <1>3. CASE OpenDevice \/ \E r \in Requests : Remove(r) \/ AbortIO(r) \/ Receive(r)
    BY <1>1, <1>3, GuestContract
  <1>4. CASE \E r \in Requests, c \in {"io", "add"} : Begin(r, c)
    BY <1>1, <1>4, GuestContract
  <1>5. CASE \E op \in {"change", "reset"} : HostEvent(op)
    BY <1>1, <1>5, GuestContract
  <1>6. CASE \E t \in Threads : ThreadStep(t)
    BY <1>1, <1>6, ThreadContract
  <1>7. CASE UNCHANGED vars
    <2>1. UNCHANGED <<requests, emu, owner, replies, hold>>
      BY <1>7 DEF vars, port
    <2> QED  BY <1>1, <2>1, QuietContract
  <1> QED  BY <1>2, <1>3, <1>4, <1>5, <1>6, <1>7 DEF HardfileNext

(* One answer to a request that is the device's. *)
LEMMA NextOneAnswer ==
    ASSUME Inv, [HardfileNext]_vars, Polite'
    PROVE  [Device!OneAnswerNext]_<<owner, replies>>
  <1>1. CASE hardfile_reset
    BY <1>1 DEF hardfile_reset, Device!OneAnswerNext
  <1>2. CASE ~hardfile_reset
    <2>1. Base /\ Stable
      BY <1>2, LogGrows DEF Polite, Inv
    <2>2. ASSUME UNCHANGED <<owner, replies>>
          PROVE  [Device!OneAnswerNext]_<<owner, replies>>
      BY <2>2
    <2>3. ASSUME NEW r \in Requests,
                 \/ /\ owner[r] = "guest" /\ replies[r] = 0
                    /\ owner' = [owner EXCEPT ![r] = "device"] /\ UNCHANGED replies
                 \/ /\ owner[r] = "device" /\ replies[r] = 0
                    /\ replies' = [replies EXCEPT ![r] = 1] /\ UNCHANGED owner
                 \/ /\ replies[r] = 1 /\ replies' = [replies EXCEPT ![r] = 0]
                    /\ owner' = [owner EXCEPT ![r] = "guest"]
                 \/ /\ owner[r] = "device" /\ replies[r] = 0
                    /\ owner' = [owner EXCEPT ![r] = "guest"] /\ UNCHANGED replies
          PROVE  [Device!OneAnswerNext]_<<owner, replies>>
      BY <2>3 DEF Device!OneAnswerNext
    <2>4. CASE StartFailed \/ Answer
      <3>1. /\ owner' = owner \/ emu.op \in {"begin", "remove"}
            /\ \/ UNCHANGED <<owner, replies>>
               \/ owner' = owner /\ replies' = [replies EXCEPT ![emu.req] = @ + 1] /\ emu.op = "remove"
               \/ owner' = [owner EXCEPT ![emu.req] = "guest"] /\ replies' = replies
        BY <2>1, <2>4, AnswerBase DEF StartFailed
      <3>2. CASE UNCHANGED <<owner, replies>>
        BY <2>2, <3>2
      <3>3. CASE ~UNCHANGED <<owner, replies>>
        <4>1. emu.op \in {"begin", "remove"}
          BY <3>1, <3>3
        <4>2. owner[emu.req] = "device" /\ replies[emu.req] = 0 /\ emu.req \in Requests
          BY <2>1, <4>1 DEF Stable, Calls, Base, EmuInv, EmuType
        <4>3. replies' = [replies EXCEPT ![emu.req] = @ + 1] => replies' = [replies EXCEPT ![emu.req] = 1]
          BY <4>2
        <4> QED  BY <2>3, <3>1, <3>3, <4>2, <4>3
      <3> QED  BY <3>2, <3>3
    <2>5. CASE \E r \in Requests : Receive(r)
      <3>1. PICK r \in Requests : Receive(r)
        BY <2>5
      <3>2. /\ replies[r] > 0
            /\ owner' = [owner EXCEPT ![r] = "guest"] /\ replies' = [replies EXCEPT ![r] = @ - 1]
        BY <2>1, <3>1, ReceiveBase
      <3>3. replies[r] = 1
        BY <2>1, <3>2 DEF Stable, Places, Base, GuestType
      <3>4. replies' = [replies EXCEPT ![r] = 0]
        BY <3>2, <3>3
      <3> QED  BY <2>3, <3>2, <3>3, <3>4
    <2>6. CASE \E r \in Requests, c \in {"io", "add"} : Begin(r, c)
      <3>1. PICK r \in Requests, c \in {"io", "add"} : Begin(r, c)
        BY <2>6
      <3>2. owner[r] = "guest" /\ owner' = [owner EXCEPT ![r] = "device"] /\ replies' = replies
        BY <3>1 DEF Begin, still
      <3>3. replies[r] = 0
        BY <2>1, <3>2 DEF Stable, Places
      <3> QED  BY <2>3, <3>2, <3>3
    <2>7. CASE OpenDevice \/ \E r \in Requests : Remove(r) \/ AbortIO(r)
      <3>1. UNCHANGED <<owner, replies>>
        BY <2>7 DEF OpenDevice, Remove, AbortIO, still
      <3> QED  BY <2>2, <3>1
    <2>8. CASE \E op \in {"change", "reset"} : HostEvent(op)
      <3>1. UNCHANGED <<owner, replies>>
        BY <2>8 DEF HostEvent, still
      <3> QED  BY <2>2, <3>1
    <2>9. CASE \E t \in Threads : ThreadStep(t)
      <3>1. PICK t \in Threads : ThreadStep(t)
        BY <2>9
      <3>2. CASE ReplyDone(t)
        <4>1. hold[t].req \in Requests /\ replies' = [replies EXCEPT ![hold[t].req] = @ + 1] /\ owner' = owner
          BY <2>1, <3>2, ReplyDoneBase DEF Works
        <4>2. owner[hold[t].req] = "device" /\ replies[hold[t].req] = 0
          BY <2>1, <4>1, InHandOf
        <4>3. replies' = [replies EXCEPT ![hold[t].req] = 1]
          BY <4>1, <4>2
        <4> QED  BY <2>3, <4>1, <4>2, <4>3
      <3>3. CASE ~ReplyDone(t)
        <4>1. UNCHANGED <<owner, replies>>
          BY <3>1, <3>3 DEF ThreadStep, Born, ReadRequest, Stop, Bye, hardfile_do_io, AddType, AddData,
                           ReleaseDone, PostChange, emulation, port
        <4> QED  BY <2>2, <4>1
      <3> QED  BY <3>2, <3>3
    <2>10. CASE hardfile_close \/ (EmuStep /\ ~StartFailed /\ ~Answer)
      <3>1. UNCHANGED <<owner, replies>>
        BY <1>2, <2>10 DEF hardfile_close, EmuStep, Started, hardfile_open, BeginIO, SendRequest,
                           RemoveChangeInt, abort_async, AbortListed, ReleaseSlot, WipeSlot,
                           hardfile_send_disk_change, ChangeDone, others, port
      <3> QED  BY <2>2, <3>1
    <2>11. CASE UNCHANGED vars
      <3>1. UNCHANGED <<owner, replies>>
        BY <2>11 DEF vars, port
      <3> QED  BY <2>2, <3>1
    <2> QED  BY <2>4, <2>5, <2>6, <2>7, <2>8, <2>9, <2>10, <2>11 DEF HardfileNext
  <1> QED  BY <1>1, <1>2

LEMMA InitContract == HardfileInit => Device!IOInit
  <1> SUFFICES ASSUME HardfileInit
               PROVE  Device!IOInit
    OBVIOUS
  <1>1. ASSUME NEW r \in Requests
        PROVE  Owed(r) = 0
    <2>1. InPipe(r) = 0
      <3>1. {i \in DOMAIN requests : requests[i] = r} = {}
        BY DEF HardfileInit
      <3> QED  BY <3>1, FS_EmptySet DEF InPipe
    <2>2. InHands(r) = 0
      <3>1. {t \in Threads : hold[t].req = r} = {}
        BY Constants DEF HardfileInit, Empty
      <3> QED  BY <3>1, FS_EmptySet DEF InHands
    <2>3. OnCall(r) = 0
      BY DEF OnCall, HardfileInit, Guest
    <2> QED  BY <2>1, <2>2, <2>3 DEF Owed, InPipe, InHands, OnCall
  <1> QED  BY <1>1 DEF HardfileInit, Device!IOInit

(* uaehf.device sends no more replies than BeginIO was called, whatever the guest and the host
   do; and while exec's rules are kept one to each request, through AbortIO of whatever the guest
   likes, closing and opening the device and the reset of an idle unit. *)
THEOREM ContractKept == HardfileSpec => KeepsContract
  <1>1. Inv /\ [HardfileNext]_vars => [Device!IONext]_(Device!ioVars)
    BY NextContract DEF Inv
  <1>2. Inv /\ [HardfileNext]_vars => [Polite' => Device!OneAnswerNext]_<<owner, replies>>
    BY NextOneAnswer
  <1> QED  BY <1>1, <1>2, HardfileInvariant, InitContract, PTL
           DEF HardfileSpec, KeepsContract, Device!IOSpec, Device!OneAnswer

----------------------------------------------------------------------------
(* Change interrupts.  All of this holds while nothing has happened that the unit is not made for. *)

(* The table has a slot for every request that can be under way. *)
Roomy == Cardinality(Requests) <= Slots

Calm == strayed = <<>> /\ Base /\ Stable /\ Orderly

(* A change interrupt has its slot from BeginIO on. *)
Adding(r) == command[r] = "add" /\ (Queued(r) \/ (emu.at = "send" /\ emu.req = r))
HasSlot == \A r \in Requests : Adding(r) => \E i \in Slot : d_request[i] = r

(* The thread enters a change interrupt into its own slot, answers other requests only, and does
   not overwrite the mark of a change interrupt. *)
NotErased ==
    \A t \in Threads :
       /\ at[t] \in {"add", "data"} => d_request[hold[t].slot] = hold[t].req
       /\ at[t] = "data" => d_type[hold[t].slot] = "changeint"
       /\ at[t] \in {"wipe", "reply"} => command[hold[t].req] = "io"
       /\ at[t] = "wipe" /\ hold[t].slot # 0 => d_type[hold[t].slot] # "changeint"

(* The slot that the emulation thread wipes stays free until then. *)
Freed == emu.at = "wipe" /\ emu.slot # 0 => d_request[emu.slot] = None

(* The slots that say "change interrupt": registered ones, the one that the thread enters and the
   one that the guest removes. *)
Entered(i) ==
    \/ d_request[i] \in Registered /\ d_data[i] = d_request[i]
    \/ \E t \in Threads : at[t] = "data" /\ hold[t].slot = i /\ hold[t].req = d_request[i]
    \/ emu.at = "remove" /\ emu.req = d_request[i]
    \/ emu.at = "wipe" /\ emu.slot = i

AllEntered == \A i \in Slot : d_type[i] = "changeint" => Entered(i)

Listed ==
    \A r \in Registered : \E i \in Slot :
        d_request[i] = r /\ d_type[i] = "changeint" /\ d_data[i] = r

Aborts == emu.op = "abort" => command[emu.req] = "io"

ChangeInv ==
    /\ Aborts
    /\ emu.op # "reset" => HasSlot /\ NotErased /\ Freed /\ AllEntered /\ Listed

LEMMA CalmIs ==
    /\ Inv /\ strayed = <<>> => Calm
    /\ Inv' /\ strayed' = <<>> => Calm'
  <1>1. strayed = <<>> => Polite /\ ~Reopened
    BY NothingHappened DEF Polite, Reopened
  <1>2. strayed' = <<>> => Polite' /\ ~Reopened'
    BY NothingHappened DEF Polite, Reopened
  <1> QED  BY <1>1, <1>2 DEF Calm, Inv

(* Only one thread is at work on the table. *)
LEMMA Alone ==
    ASSUME Calm, NEW t \in Threads, at[t] \in Inside \/ change_sem > 0
    PROVE  \A u \in Threads \ {t} : at[u] \notin Inside
  BY DEF Calm, Base, Mutex, FlagsType

LEMMA AtWork ==
    ASSUME Calm, NEW t \in Threads, at[t] \in {"add", "data", "wipe", "reply"}
    PROVE  /\ hold[t].req \in Requests /\ Queued(hold[t].req)
           /\ owner[hold[t].req] = "device" /\ replies[hold[t].req] = 0
           /\ at[t] \in {"add", "data"} => hold[t].slot \in Slot /\ command[hold[t].req] = "add"
           /\ at[t] \in {"wipe", "reply"} => \A j \in Slot : d_request[j] # hold[t].req
  <1> USE DEF Calm
  <1>1. hold[t].req \in Requests /\ hold[t].slot \in 0 .. Slots
    BY DEF Base, Hands, ThreadType, Held
  <1>2. at[t] \in {"add", "data"} => hold[t].slot \in Slot /\ command[hold[t].req] = "add"
    BY <1>1, Constants DEF Base, Stable, Hands, Table
  <1>3. at[t] \in {"wipe", "reply"} => \A j \in Slot : d_request[j] # hold[t].req
    BY DEF Stable, Table, Holding
  <1> QED  BY <1>1, <1>2, <1>3, InHandOf

(* While a request has no slot, some slot is free. *)
LEMMA FreeSlot ==
    ASSUME Roomy, Calm, NEW r \in Requests, \A i \in Slot : d_request[i] # r
    PROVE  \E i \in Slot : d_request[i] = None
  <1> SUFFICES ASSUME \A i \in Slot : d_request[i] # None
               PROVE  FALSE
    OBVIOUS
  <1>1. IsFiniteSet(Requests) /\ Slots \in Nat
    BY HardfileAssumption
  <1>2. /\ IsFiniteSet(Requests \ {r}) /\ Cardinality(Requests \ {r}) = Cardinality(Requests) - 1
        /\ Cardinality(Requests) \in Nat
    BY <1>1, FS_RemoveElement, FS_CardinalityType
  <1>3. IsFiniteSet(Slot) /\ Cardinality(Slot) = Slots
    BY FS_Interval, Constants
  <1>4. d_request \in [Slot -> Requests \ {r}]
    BY DEF Calm, Base, Stable, TableType
  <1>5. Cardinality(Requests \ {r}) < Cardinality(Slot)
    BY <1>1, <1>2, <1>3 DEF Roomy
  <1>6. \E i, k \in Slot : i # k /\ d_request[i] = d_request[k]
    BY <1>2, <1>3, <1>4, <1>5, FS_PigeonHole
  <1> QED  BY <1>6 DEF Calm, Base, OneSlot

LEMMA SlotThere ==
    ASSUME Calm, NEW r \in Requests, Roomy \/ \E i \in Slot : d_request[i] = r
    PROVE  SlotFor(r) \in Slot
  <1>1. CASE \E i \in Slot : d_request[i] = r
    <2>1. Holding(r) # {} /\ Holding(r) \in SUBSET Slot
      BY <1>1 DEF Holding
    <2> QED  BY <2>1, LowestIs DEF SlotFor
  <1>2. CASE Roomy /\ \A i \in Slot : d_request[i] # r
    <2>1. Holding(r) = {} /\ Holding(None) # {} /\ Holding(None) \in SUBSET Slot
      BY <1>2, FreeSlot DEF Holding
    <2> QED  BY <2>1, LowestIs DEF SlotFor
  <1> QED  BY <1>1, <1>2

(* A slot that says "change interrupt" is not that of another request which somebody has. *)
LEMMA NotOthers ==
    ASSUME Calm, ChangeInv, emu.op # "reset", NEW i \in Slot, d_type[i] = "changeint",
           ~(emu.at = "wipe" /\ emu.slot = i), NEW r \in Requests,
           \/ emu.op = "begin" /\ emu.req = r
           \/ Queued(r) /\ \A t \in Threads : at[t] # "data"
    PROVE  d_request[i] # r /\ d_request[i] \in Requests
  <1>1. Entered(i)
    BY DEF ChangeInv, AllEntered
  <1>2. CASE d_request[i] \in Registered
    BY <1>2 DEF Registered
  <1>3. CASE \E t \in Threads : at[t] = "data" /\ hold[t].slot = i /\ hold[t].req = d_request[i]
    <2>1. PICK t \in Threads : at[t] = "data" /\ hold[t].req = d_request[i]
      BY <1>3
    <2>2. Queued(d_request[i]) /\ d_request[i] \in Requests
      BY <2>1, AtWork
    <2> QED  BY <2>1, <2>2 DEF Calm, Base, Stable, Calls
  <1>4. CASE emu.at = "remove" /\ emu.req = d_request[i]
    <2>1. emu.op = "remove" /\ emu.req \in Requests /\ ~Queued(emu.req)
      BY <1>4 DEF Calm, Base, Stable, EmuInv, EmuType, Asks, Calls
    <2> QED  BY <1>4, <2>1
  <1> QED  BY <1>1, <1>2, <1>3, <1>4 DEF Entered

(* Steps that leave the table alone, and register and remove no change interrupt. *)
LEMMA ChangeFrame ==
    ASSUME Calm, Calm', ChangeInv, UNCHANGED table, emu'.op # "reset" => emu.op # "reset",
           Registered' \subseteq Registered,
           \A r \in Registered \ Registered' : emu'.at = "remove" /\ emu'.req = r,
           \A r \in Requests : Adding(r)' => Adding(r),
           \A t \in Threads : at[t] = "data" => at'[t] = "data",
           emu'.op = "abort" => command'[emu'.req] = "io",
           \A t \in Threads : at'[t] \in {"add", "data", "wipe", "reply"} =>
               at'[t] = at[t] /\ hold'[t] = hold[t] /\ command'[hold[t].req] = command[hold[t].req],
           emu.at = "remove" => emu'.at = "remove" /\ emu'.req = emu.req,
           (emu.at = "wipe" \/ emu'.at = "wipe") => emu'.at = emu.at /\ emu'.slot = emu.slot
    PROVE  ChangeInv'
  <1> SUFFICES ASSUME emu'.op # "reset"
               PROVE  HasSlot' /\ NotErased' /\ Freed' /\ AllEntered' /\ Listed'
    BY DEF ChangeInv, Aborts
  <1>1. HasSlot /\ NotErased /\ Freed /\ AllEntered /\ Listed /\ emu.op # "reset"
    BY DEF ChangeInv
  <1>2. HasSlot'
    BY <1>1 DEF HasSlot, table
  <1>3. NotErased' /\ Freed'
    BY <1>1 DEF NotErased, Freed, table
  <1>4. AllEntered'
    <2> SUFFICES ASSUME NEW i \in Slot, d_type'[i] = "changeint"
                 PROVE  Entered(i)'
      BY DEF AllEntered
    <2>1. Entered(i) /\ UNCHANGED <<d_request, d_data>>
      BY <1>1 DEF AllEntered, table
    <2>2. CASE d_request[i] \in Registered /\ d_data[i] = d_request[i]
      BY <2>1, <2>2 DEF Entered
    <2>3. CASE \E t \in Threads : at[t] = "data" /\ hold[t].slot = i /\ hold[t].req = d_request[i]
      <3>1. PICK t \in Threads : at[t] = "data" /\ hold[t].slot = i /\ hold[t].req = d_request[i]
        BY <2>3
      <3>2. at'[t] = "data" /\ hold'[t] = hold[t]
        BY <3>1
      <3> QED  BY <2>1, <3>1, <3>2 DEF Entered
    <2>4. CASE \/ emu.at = "remove" /\ emu.req = d_request[i]
               \/ emu.at = "wipe" /\ emu.slot = i
      BY <2>1, <2>4 DEF Entered
    <2> QED  BY <2>1, <2>2, <2>3, <2>4 DEF Entered
  <1>5. Listed'
    BY <1>1 DEF Listed, table
  <1> QED  BY <1>2, <1>3, <1>4, <1>5


(* The steps of the emulation thread that do not write to the table. *)
LEMMA EmuQuiet ==
    ASSUME Calm, Calm', ChangeInv,
           Started \/ StartFailed \/ hardfile_open \/ hardfile_close
           \/ hardfile_send_disk_change \/ ChangeDone \/ Answer
    PROVE  ChangeInv'
  <1> USE DEF Calm, Base, Stable
  <1>0. ~StartFailed
    BY DEF StartFailed, Orderly
  <1>1. /\ UNCHANGED <<table, at, hold, command>>
        /\ \A r \in Requests : emu.op # "remove" => owner'[r] = owner[r] /\ replies'[r] = replies[r]
        /\ \A r \in Requests : r # emu.req => owner'[r] = owner[r] /\ replies'[r] = replies[r]
    <2>1. CASE Answer
      <3>1. UNCHANGED <<table, at, hold, command>>
        BY <2>1 DEF Answer
      <3>2. /\ emu.op = "remove"
            /\ \A q \in Requests \ {emu.req} : owner'[q] = owner[q] /\ replies'[q] = replies[q]
        BY <2>1, AnswerBase
      <3> QED  BY <3>1, <3>2
    <2>2. CASE ~Answer
      BY <1>0, <2>2 DEF Started, hardfile_open, hardfile_close, hardfile_send_disk_change, ChangeDone,
                        others, port
    <2> QED  BY <2>1, <2>2
  <1>2. /\ emu.at \notin {"remove", "wipe"} /\ emu'.at \notin {"wipe", "send"} /\ emu'.op # "reset"
        /\ emu.op # "reset"
        /\ emu'.req = emu.req \/ (emu'.req = None /\ emu.op # "abort")
        /\ emu'.at = "remove" => emu'.req = emu.req /\ emu.op = "remove"
        /\ emu'.op = "abort" => emu.op = "abort" /\ emu'.req = emu.req
    BY <1>0 DEF Started, hardfile_open, hardfile_close, hardfile_send_disk_change, ChangeDone, Answer,
           EmuInv, EmuType, Go, Return, Guest, Asks
  <1>3. \A r \in Requests : Queued(r)' <=> Queued(r)
    <2>1. CASE hardfile_close
      BY <2>1, CloseBase
    <2>2. CASE ~hardfile_close
      <3>1. requests' = requests
        BY <1>0, <2>2 DEF Started, hardfile_open, hardfile_send_disk_change, ChangeDone, Answer
      <3> QED  BY <1>1, <3>1 DEF Queued, InHand
    <2> QED  BY <2>1, <2>2
  <1>4. Registered' = Registered
    <2>1. ASSUME NEW r \in Requests, r # emu.req
          PROVE  r \in Registered' <=> r \in Registered
      BY <1>1, <1>2, <1>3, <2>1, Constants DEF Registered
    <2>2. ASSUME NEW r \in Requests, r = emu.req
          PROVE  r \notin Registered /\ r \notin Registered'
      <3>1. CASE emu'.req = r
        BY <2>2, <3>1 DEF Registered
      <3>2. CASE emu'.req # r
        <4>1. emu.op \in {"begin", "remove"} /\ ~Started
          BY <1>2, <2>2, <3>2, Constants DEF EmuInv, Started, Go, Return, EmuType
        <4>2. Answer
          BY <1>0, <4>1 DEF EmuInv, hardfile_open, hardfile_close, hardfile_send_disk_change, ChangeDone,
                            Guest, Asks
        <4>3. command'[r] = "remove"
          BY <1>1, <2>2, <4>2 DEF Answer, EmuInv, Calls
        <4> QED  BY <1>1, <2>2, <4>3 DEF Registered
      <3> QED  BY <3>1, <3>2
    <2> QED  BY <2>1, <2>2 DEF Registered
  <1>5. \A r \in Requests : Adding(r)' => Adding(r)
    BY <1>1, <1>2, <1>3 DEF Adding
  <1>6. emu'.op = "abort" => command'[emu'.req] = "io"
    BY <1>1, <1>2 DEF ChangeInv, Aborts
  <1> QED  BY <1>1, <1>2, <1>4, <1>5, <1>6, ChangeFrame

LEMMA BeginIOLists ==
    ASSUME Roomy, Calm, Calm', ChangeInv, BeginIO
    PROVE  ChangeInv'
  <1> DEFINE r == emu.req
             i == SlotFor(emu.req)
  <1>1. /\ emu.at = "begin" /\ emu.op = "begin" /\ r \in Requests /\ Put(i, r)
        /\ emu' = [emu EXCEPT !.at = "send", !.slot = i]
        /\ UNCHANGED <<d_type, d_data, requests, at, hold, port, command>>
    BY DEF Calm, Base, Stable, BeginIO, EmuInv, EmuType, Asks, others
  <1>2. /\ HasSlot /\ NotErased /\ AllEntered /\ Listed
    BY <1>1 DEF ChangeInv
  <1>3. i \in Slot
    BY <1>1, SlotThere
  <1> HIDE DEF i
  <1>4. /\ d_request[i] \in {r, None}
        /\ \A j \in Slot : d_request'[j] = IF j = i THEN r ELSE d_request[j]
        /\ \A j \in Slot : d_request[j] = r => j = i
    <2>1. TableType /\ OneSlot /\ i = SlotFor(r) /\ Put(i, r) /\ i # 0
      BY <1>1, <1>3, Constants DEF i, Calm, Base
    <2> QED  BY <1>1, <1>3, <2>1, Given
  <1>5. emu'.at = "send" /\ emu'.op = "begin" /\ emu'.req = r
    BY <1>1 DEF Calm, Base, Stable, EmuType
  <1>6. \A q \in Requests : Queued(q)' <=> Queued(q)
    BY <1>1 DEF Queued, InHand
  <1>7. Registered' = Registered
    BY <1>1, <1>5, <1>6 DEF Registered, port
  <1>8. d_type[i] # "changeint"
    BY <1>1, <1>2, <1>3, <1>4, NotOthers, Constants
  <1>9. HasSlot'
    <2> SUFFICES ASSUME NEW q \in Requests, Adding(q)'
                 PROVE  \E j \in Slot : d_request'[j] = q
      BY DEF HasSlot
    <2>1. CASE q = r
      BY <1>3, <1>4, <2>1
    <2>2. CASE q # r
      <3>1. Adding(q)
        BY <1>1, <1>5, <1>6, <2>2 DEF Adding
      <3>2. PICK j \in Slot : d_request[j] = q
        BY <1>2, <3>1 DEF HasSlot
      <3> QED  BY <1>4, <2>2, <3>2, Constants
    <2> QED  BY <2>1, <2>2
  <1>10. NotErased' /\ Freed'
    <2>1. ASSUME NEW t \in Threads, at[t] \in {"add", "data"}
          PROVE  d_request'[hold[t].slot] = hold[t].req
      <3>1. hold[t].slot \in Slot /\ d_request[hold[t].slot] = hold[t].req /\ hold[t].req \in Requests
        BY <1>2, <2>1, AtWork DEF NotErased
      <3>2. d_request[i] # hold[t].req
        <4>1. hold[t].req # r
          BY <1>1, <3>1, InHandOf DEF Calm
        <4> QED  BY <1>4, <3>1, <4>1, Constants
      <3> QED  BY <1>4, <3>1, <3>2
    <2> QED  BY <1>1, <1>2, <1>5, <2>1 DEF NotErased, Freed
  <1>11. AllEntered'
    <2> SUFFICES ASSUME NEW j \in Slot, d_type[j] = "changeint"
                 PROVE  Entered(j)'
      BY <1>1 DEF AllEntered
    <2>1. Entered(j) /\ j # i /\ d_request'[j] = d_request[j] /\ d_data'[j] = d_data[j]
      BY <1>1, <1>2, <1>4, <1>8 DEF AllEntered
    <2> QED  BY <1>1, <1>7, <2>1 DEF Entered
  <1>12. Listed'
    <2> SUFFICES ASSUME NEW q \in Registered
                 PROVE  \E j \in Slot : d_request'[j] = q /\ d_type'[j] = "changeint" /\ d_data'[j] = q
      BY <1>7 DEF Listed
    <2>1. PICK j \in Slot : d_request[j] = q /\ d_type[j] = "changeint" /\ d_data[j] = q
      BY <1>1, <1>2 DEF Listed
    <2> QED  BY <1>1, <1>4, <1>8, <2>1
  <1>13. Aborts'
    BY <1>5 DEF Aborts
  <1> QED  BY <1>9, <1>10, <1>11, <1>12, <1>13 DEF ChangeInv

LEMMA SendLists ==
    ASSUME Calm, Calm', ChangeInv, SendRequest
    PROVE  ChangeInv'
  <1> DEFINE r == emu.req
             i == emu.slot
  <1>1. /\ emu.at = "send" /\ emu.op = "begin" /\ r \in Requests /\ i \in 0 .. Slots
        /\ Mark(i, "temp", None) /\ emu' = Guest /\ requests' = Append(requests, r)
        /\ UNCHANGED <<at, hold, port, command>>
    BY DEF Calm, Base, Stable, SendRequest, EmuInv, EmuType, others, Return
  <1>2. HasSlot /\ NotErased /\ AllEntered /\ Listed
    BY <1>1 DEF ChangeInv
  <1>3. /\ d_request' = d_request
        /\ \A j \in Slot : d_type'[j] = IF j = i THEN "temp" ELSE d_type[j]
        /\ \A j \in Slot : d_data'[j] = IF j = i THEN None ELSE d_data[j]
    BY <1>1, Marks DEF Calm, Base, Stable
  <1>4. \A j \in Slot : j = i => d_request[j] = r /\ d_type[j] # "changeint"
    <2>1. \A j \in Slot : j = i => d_request[j] = r
      BY <1>1, Constants DEF Calm, Base, Stable, Table
    <2> QED  BY <1>1, <2>1, NotOthers
  <1>5. \A q \in Requests : Queued(q)' <=> Queued(q) \/ q = r
    <2>1. requests \in Seq(Requests \cup {None}) /\ r \in Requests \cup {None}
      BY <1>1 DEF Calm, Base, Stable, PipeType
    <2>2. Range(requests') = Range(requests) \cup {r}
      BY <1>1, <2>1, RangeAppend
    <2> QED  BY <1>1, <2>2 DEF Queued, InHand
  <1>6. Registered' = Registered
    <2>1. emu'.req = None /\ owner' = owner /\ replies' = replies
      BY <1>1 DEF Guest, port
    <2> QED  BY <1>1, <1>5, <2>1, Constants DEF Registered
  <1>7. HasSlot'
    BY <1>1, <1>2, <1>3, <1>5 DEF HasSlot, Adding, Guest
  <1>8. NotErased' /\ Freed'
    <2>1. ASSUME NEW t \in Threads, at[t] = "data"
          PROVE  hold[t].slot # i /\ hold[t].slot \in Slot
      <3>1. hold[t].slot \in Slot /\ d_type[hold[t].slot] = "changeint"
        BY <1>2, <2>1, AtWork DEF NotErased
      <3> QED  BY <1>4, <3>1
    <2>2. ASSUME NEW t \in Threads, at[t] = "wipe", hold[t].slot # 0
          PROVE  d_type'[hold[t].slot] # "changeint"
      <3>1. hold[t].slot \in Slot
        BY <2>2, Constants DEF Calm, Base, Stable, ThreadType, Held, Held
      <3> QED  BY <1>2, <1>3, <2>2, <3>1 DEF NotErased
    <2> QED  BY <1>1, <1>2, <1>3, <2>1, <2>2 DEF NotErased, Freed, Guest
  <1>9. AllEntered'
    <2> SUFFICES ASSUME NEW j \in Slot, d_type'[j] = "changeint"
                 PROVE  Entered(j)'
      BY DEF AllEntered
    <2>1. Entered(j) /\ j # i /\ d_request'[j] = d_request[j] /\ d_data'[j] = d_data[j]
      BY <1>2, <1>3 DEF AllEntered
    <2> QED  BY <1>1, <1>6, <2>1 DEF Entered
  <1>10. Listed'
    <2> SUFFICES ASSUME NEW q \in Registered
                 PROVE  \E j \in Slot : d_request'[j] = q /\ d_type'[j] = "changeint" /\ d_data'[j] = q
      BY <1>6 DEF Listed
    <2>1. PICK j \in Slot : d_request[j] = q /\ d_type[j] = "changeint" /\ d_data[j] = q
      BY <1>1, <1>2 DEF Listed
    <2> QED  BY <1>3, <1>4, <2>1
  <1>11. Aborts'
    BY <1>1 DEF Aborts, Guest
  <1> QED  BY <1>7, <1>8, <1>9, <1>10, <1>11 DEF ChangeInv

(* A request that is aborted or removed gives its slot back, and no other changes. *)
LEMMA ReleaseLists ==
    ASSUME Calm, Calm', ChangeInv, RemoveChangeInt \/ abort_async
    PROVE  ChangeInv'
  <1> DEFINE r == emu.req
             i == IF Holding(r) = {} THEN 0 ELSE Lowest(Holding(r))
  <1>1. /\ emu.at \in {"remove", "abort"} /\ emu.op = emu.at /\ r \in Requests /\ Put(i, None)
        /\ emu' = [emu EXCEPT !.at = "wipe", !.slot = i]
        /\ UNCHANGED <<d_type, d_data, requests, at, hold, port, command>>
    BY DEF Calm, Base, Stable, RemoveChangeInt, abort_async, ReleaseSlot, EmuInv, EmuType, Asks, others
  <1>2. HasSlot /\ NotErased /\ AllEntered /\ Listed
    BY <1>1 DEF ChangeInv
  <1>3. /\ \A j \in Slot : d_request'[j] = IF d_request[j] = r THEN None ELSE d_request[j]
        /\ i # 0 => i \in Slot /\ d_request'[i] = None
        /\ \A j \in Slot : d_request[j] = r => i = j
    <2>1. TableType /\ OneSlot
      BY DEF Calm, Base
    <2>2. i = (IF Holding(r) = {} THEN 0 ELSE Lowest(Holding(r)))
      OBVIOUS
    <2>3. /\ \A j \in Slot : d_request'[j] = IF d_request[j] = r THEN None ELSE d_request[j]
          /\ i # 0 => i \in Slot /\ d_request[i] = r /\ d_request'[i] = None
      BY <1>1, <2>1, <2>2, Released
    <2>4. ASSUME NEW j \in Slot, d_request[j] = r
          PROVE  i = j
      <3>1. Holding(r) # {} /\ Holding(r) \in SUBSET Slot
        BY <2>4 DEF Holding
      <3>2. i \in Holding(r)
        BY <3>1, LowestIs
      <3>3. i \in Slot /\ d_request[i] = r
        BY <3>2 DEF Holding
      <3> QED  BY <1>1, <2>1, <2>4, <3>3, Constants DEF OneSlot
    <2> HIDE DEF i
    <2> QED  BY <2>3, <2>4
  <1> HIDE DEF i
  <1>4. emu'.at = "wipe" /\ emu'.op = emu.op /\ emu'.req = r /\ emu'.slot = i
    BY <1>1 DEF Calm, Base, Stable, EmuType
  <1>5. \A q \in Requests : Queued(q)' <=> Queued(q)
    BY <1>1 DEF Queued, InHand
  <1>6a. emu.op = "abort" => command[r] = "io"
    BY DEF ChangeInv, Aborts
  <1>6b. Queued(r) => command[r] = "io"
    BY <1>1, <1>6a DEF Calm, Stable, Calls
  <1>6. Registered' = Registered /\ r \notin Registered
    BY <1>1, <1>4, <1>5 DEF Registered, port
  <1>7. HasSlot'
    <2> SUFFICES ASSUME NEW q \in Requests, Adding(q)'
                 PROVE  \E j \in Slot : d_request'[j] = q
      BY DEF HasSlot
    <2>1. Queued(q) /\ command[q] = "add"
      BY <1>1, <1>4, <1>5 DEF Adding
    <2>2. q # r
      BY <1>6b, <2>1
    <2>3. PICK j \in Slot : d_request[j] = q
      BY <1>2, <2>1 DEF HasSlot, Adding
    <2> QED  BY <1>3, <2>2, <2>3
  <1>8. NotErased' /\ Freed'
    <2>1. ASSUME NEW t \in Threads, at[t] \in {"add", "data"}
          PROVE  d_request'[hold[t].slot] = hold[t].req
      <3>1. /\ hold[t].slot \in Slot /\ d_request[hold[t].slot] = hold[t].req
            /\ Queued(hold[t].req) /\ command[hold[t].req] = "add"
        BY <1>2, <2>1, AtWork DEF NotErased
      <3>2. hold[t].req # r
        BY <1>6b, <3>1
      <3> QED  BY <1>3, <3>1, <3>2
    <2> QED  BY <1>1, <1>2, <1>3, <1>4, <2>1 DEF NotErased, Freed
  <1>9. AllEntered'
    <2> SUFFICES ASSUME NEW j \in Slot, d_type[j] = "changeint"
                 PROVE  Entered(j)'
      BY <1>1 DEF AllEntered
    <2>1. CASE j = i
      BY <1>4, <2>1 DEF Entered
    <2>2. CASE j # i
      <3>1. Entered(j) /\ d_request[j] # r /\ d_request'[j] = d_request[j] /\ d_data'[j] = d_data[j]
        BY <1>1, <1>2, <1>3, <2>2 DEF AllEntered
      <3> QED  BY <1>1, <1>6, <3>1 DEF Entered
    <2> QED  BY <2>1, <2>2
  <1>10. Listed'
    <2> SUFFICES ASSUME NEW q \in Registered
                 PROVE  \E j \in Slot : d_request'[j] = q /\ d_type'[j] = "changeint" /\ d_data'[j] = q
      BY <1>6 DEF Listed
    <2>1. PICK j \in Slot : d_request[j] = q /\ d_type[j] = "changeint" /\ d_data[j] = q
      BY <1>1, <1>2 DEF Listed
    <2> QED  BY <1>1, <1>3, <1>6, <2>1
  <1>11. Aborts'
    BY <1>1, <1>4, <1>6a DEF Aborts
  <1> QED  BY <1>7, <1>8, <1>9, <1>10, <1>11 DEF ChangeInv

LEMMA WipeLists ==
    ASSUME Calm, Calm', ChangeInv, WipeSlot, emu.op # "reset"
    PROVE  ChangeInv'
  <1> DEFINE i == emu.slot
  <1>1. /\ emu.at = "wipe" /\ emu.op \in {"remove", "abort"} /\ i \in 0 .. Slots
        /\ Mark(i, "none", None)
        /\ UNCHANGED <<requests, at, hold, port, command>>
    BY DEF Calm, Base, Stable, WipeSlot, EmuInv, others
  <1>2. HasSlot /\ NotErased /\ Freed /\ AllEntered /\ Listed
    BY <1>1 DEF ChangeInv
  <1>3. /\ d_request' = d_request
        /\ \A j \in Slot : d_type'[j] = IF j = i THEN "none" ELSE d_type[j]
        /\ \A j \in Slot : d_data'[j] = IF j = i THEN None ELSE d_data[j]
    BY <1>1, Marks DEF Calm, Base, Stable
  <1>4. \A j \in Slot : j = i => d_request[j] = None
    BY <1>2, <1>1, Constants DEF Freed
  <1>5. emu'.at \in {"guest", "answer"} /\ emu'.req \in {None, emu.req} /\ emu.req \in Requests
    <2>1. emu.req \in Requests
      BY <1>1 DEF Calm, Base, Stable, EmuType, EmuInv
    <2>2. CASE emu.op = "abort"
      BY <1>1, <2>1, <2>2 DEF WipeSlot, Return, Guest
    <2>3. CASE emu.op = "remove"
      BY <1>1, <2>1, <2>3 DEF Calm, Base, Stable, EmuType, WipeSlot, Go
    <2> QED  BY <1>1, <2>2, <2>3
  <1>6. \A q \in Requests : Queued(q)' <=> Queued(q)
    BY <1>1 DEF Queued, InHand
  <1>7. command[emu.req] # "add"
    BY <1>1 DEF Calm, Stable, Calls, ChangeInv, Aborts
  <1>8. Registered' = Registered
    BY <1>1, <1>5, <1>6, <1>7, Constants DEF Registered, port
  <1>9. HasSlot'
    BY <1>1, <1>2, <1>3, <1>5, <1>6 DEF HasSlot, Adding
  <1>10. NotErased' /\ Freed'
    <2>1. ASSUME NEW t \in Threads, at[t] = "data"
          PROVE  hold[t].slot # i /\ hold[t].slot \in Slot
      <3>1. hold[t].slot \in Slot /\ d_request[hold[t].slot] = hold[t].req /\ hold[t].req # None
        BY <1>2, <2>1, AtWork, Constants DEF NotErased
      <3> QED  BY <1>4, <3>1
    <2>2. ASSUME NEW t \in Threads, at[t] = "wipe", hold[t].slot # 0
          PROVE  d_type'[hold[t].slot] # "changeint"
      <3>1. hold[t].slot \in Slot
        BY <2>2, Constants DEF Calm, Base, Stable, ThreadType, Held, Held
      <3> QED  BY <1>2, <1>3, <2>2, <3>1 DEF NotErased
    <2> QED  BY <1>1, <1>2, <1>3, <1>5, <2>1, <2>2 DEF NotErased, Freed
  <1>11. AllEntered'
    <2> SUFFICES ASSUME NEW j \in Slot, d_type'[j] = "changeint"
                 PROVE  Entered(j)'
      BY DEF AllEntered
    <2>1. Entered(j) /\ j # i /\ d_request'[j] = d_request[j] /\ d_data'[j] = d_data[j]
      BY <1>2, <1>3 DEF AllEntered
    <2> QED  BY <1>1, <1>8, <2>1 DEF Entered
  <1>12. Listed'
    <2> SUFFICES ASSUME NEW q \in Registered
                 PROVE  \E j \in Slot : d_request'[j] = q /\ d_type'[j] = "changeint" /\ d_data'[j] = q
      BY <1>8 DEF Listed
    <2>1. PICK j \in Slot : d_request[j] = q /\ d_type[j] = "changeint" /\ d_data[j] = q
      BY <1>1, <1>2 DEF Listed
    <2>2. q # None
      BY Constants DEF Registered
    <2> QED  BY <1>3, <1>4, <2>1, <2>2
  <1>13. Aborts'
    <2>1. emu'.op # "abort"
      <3>1. CASE emu.op = "abort"
        BY <1>1, <3>1 DEF WipeSlot, Return, Guest
      <3>2. CASE emu.op = "remove"
        BY <1>1, <3>2 DEF WipeSlot, Go, Calm, Base, EmuType
      <3> QED  BY <1>1, <3>1, <3>2
    <2> QED  BY <2>1 DEF Aborts
  <1> QED  BY <1>9, <1>10, <1>11, <1>12, <1>13 DEF ChangeInv

(* A machine that was reset, or a device that is opened anew, has no change interrupt. *)
LEMMA NothingListed ==
    ASSUME Calm', \A i \in Slot : d_type'[i] = "none", \A r \in Requests : owner'[r] = "guest",
           \A t \in Threads : at'[t] \notin {"add", "data", "wipe", "reply"},
           emu'.at \notin {"send", "wipe"}, emu'.op # "abort"
    PROVE  ChangeInv'
  <1>1. \A r \in Requests : ~Queued(r)'
    BY DEF Calm, Stable, Places
  <1>2. Registered' = {}
    BY DEF Registered
  <1>3. HasSlot' /\ NotErased' /\ Freed' /\ AllEntered' /\ Listed'
    BY <1>1, <1>2 DEF HasSlot, Adding, NotErased, Freed, AllEntered, Listed
  <1> QED  BY <1>3 DEF ChangeInv, Aborts

LEMMA ResetLists ==
    ASSUME Base, Calm', hardfile_reset
    PROVE  ChangeInv'
  <1>1. strayed' = <<>>
    BY DEF Calm
  <1>2. \A i \in Slot : d_type'[i] = "none"
    BY ResetBase
  <1>3. \A t \in Threads : at'[t] = "off"
    BY <1>1, ResetBase
  <1>4. emu' = Guest /\ \A r \in Requests : owner'[r] = "guest"
    BY ResetBase
  <1> QED  BY <1>2, <1>3, <1>4, NothingListed DEF Guest

(* A call finds the table as it is, since its thread runs. *)
LEMMA CallFinds ==
    ASSUME Calm, NEW op \in Asks, NEW r, Called(op, r), thread_running
    PROVE  /\ emu = Guest /\ UNCHANGED <<table, requests, at, hold, replies>>
           /\ emu'.at = op /\ emu'.op = op /\ emu'.req = r
           /\ \A q \in Requests : Queued(q)' <=> Queued(q)
  <1>1. /\ emu = Guest /\ UNCHANGED <<table, requests, at, hold, replies>>
        /\ emu'.at = op /\ emu'.op = op /\ emu'.req = r
    BY DEF Called
  <1> QED  BY <1>1 DEF Queued, InHand

LEMMA OpenDeviceLists ==
    ASSUME Calm, Calm', ChangeInv, OpenDevice
    PROVE  ChangeInv'
  <1>1. Called("open", None) /\ UNCHANGED <<owner, command>> /\ "open" \in Asks
    BY OpenDeviceBase DEF Calm, Asks
  <1>2. CASE thread_running
    <2>1. /\ emu = Guest /\ UNCHANGED <<table, requests, at, hold, replies>>
          /\ emu'.at = "open" /\ emu'.op = "open" /\ emu'.req = None
          /\ \A q \in Requests : Queued(q)' <=> Queued(q)
      BY <1>1, <1>2, CallFinds
    <2>2. Registered' = Registered
      BY <1>1, <2>1 DEF Registered, Guest
    <2>3. \A r \in Requests : Adding(r)' => Adding(r)
      BY <1>1, <2>1 DEF Adding
    <2> QED  BY <1>1, <2>1, <2>2, <2>3, ChangeFrame DEF Guest
  <1>3. CASE ~thread_running
    <2>1. /\ \A i \in Slot : d_type'[i] = "none"
          /\ \A u \in Threads : at'[u] = at[u] \/ at'[u] = "born"
          /\ emu'.at = "start" /\ emu'.op = "open"
      BY <1>1, <1>3 DEF Called
    <2>2. \A r \in Requests : owner[r] = "guest" /\ owner'[r] = "guest"
      BY <1>1, <1>3 DEF Calm, Orderly, Base, Owned, FlagsType
    <2>3. \A r \in Requests : ~Queued(r)
      BY <2>2 DEF Calm, Stable, Places
    <2>4. \A u \in Threads : at[u] \notin {"add", "data", "wipe", "reply"}
      BY <2>3, AtWork
    <2>5. \A u \in Threads : at'[u] \notin {"add", "data", "wipe", "reply"}
      BY <2>1, <2>4
    <2> QED  BY <2>1, <2>2, <2>5, NothingListed
  <1> QED  BY <1>2, <1>3

(* The guest's calls about a request. *)
LEMMA CallLists ==
    ASSUME Calm, Calm', ChangeInv, NEW r \in Requests,
           Remove(r) \/ AbortIO(r) \/ \E c \in {"io", "add"} : Begin(r, c)
    PROVE  ChangeInv'
  <1>1. PICK op \in {"begin", "remove", "abort"} :
           /\ Called(op, r) /\ opens > 0
           /\ op = "remove" => r \in Registered /\ owner' = owner
           /\ op = "begin" => owner[r] = "guest"
           /\ op = "abort" => owner' = owner /\ command' = command /\ command[r] = "io"
           /\ \A q \in Requests \ {r} : owner'[q] = owner[q] /\ command'[q] = command[q]
    <2>1. CASE Remove(r)
      <3>1. ~Happened("remove queued")'
        BY NothingHappened DEF Calm
      <3> QED  BY <2>1, <3>1, RemoveBase DEF Calm
    <2>2. CASE AbortIO(r)
      BY <2>2, AbortIOBase DEF Calm
    <2>3. CASE \E c \in {"io", "add"} : Begin(r, c)
      BY <2>3, BeginBase DEF Calm
    <2> QED  BY <2>1, <2>2, <2>3
  <1>2. thread_running /\ op \in Asks
    BY <1>1 DEF Calm, Orderly, Asks
  <1>3. /\ emu = Guest /\ UNCHANGED <<table, requests, at, hold, replies>>
        /\ emu'.at = op /\ emu'.op = op /\ emu'.req = r
        /\ \A q \in Requests : Queued(q)' <=> Queued(q)
    BY <1>1, <1>2, CallFinds
  <1>4. op # "abort" => ~Queued(r)
    BY <1>1 DEF Registered, Calm, Stable, Places
  <1>5. Registered' \subseteq Registered /\ \A q \in Registered \ Registered' : op = "remove" /\ q = r
    <2>1. ASSUME NEW q \in Requests \ {r}
          PROVE  q \in Registered' <=> q \in Registered
      BY <1>1, <1>3, Constants DEF Registered, Guest
    <2>2. r \notin Registered'
      BY <1>3 DEF Registered
    <2>3. r \in Registered => op = "remove"
      BY <1>1 DEF Registered
    <2> QED  BY <2>1, <2>2, <2>3 DEF Registered
  <1>6. \A q \in Requests : Queued(q) => command'[q] = command[q]
    BY <1>1, <1>4
  <1>7. \A q \in Requests : Adding(q)' => Adding(q)
    BY <1>1, <1>3, <1>6 DEF Adding
  <1>8. ASSUME NEW t \in Threads, at[t] \in {"add", "data", "wipe", "reply"}
        PROVE  command'[hold[t].req] = command[hold[t].req]
    <2>1. hold[t].req \in Requests /\ Queued(hold[t].req)
      BY <1>8, AtWork
    <2> QED  BY <1>6, <2>1
  <1>9. emu'.op = "abort" => command'[emu'.req] = "io"
    BY <1>1, <1>3
  <1> QED  BY <1>3, <1>5, <1>7, <1>8, <1>9, ChangeFrame DEF Guest

LEMMA ReceiveLists ==
    ASSUME Calm, Calm', ChangeInv, NEW r \in Requests, Receive(r)
    PROVE  ChangeInv'
  <1>1. /\ UNCHANGED <<table, requests, emu, at, hold, command>> /\ emu = Guest
        /\ replies[r] # 0 /\ owner'[r] = "guest"
        /\ \A q \in Requests \ {r} : owner'[q] = owner[q] /\ replies'[q] = replies[q]
    BY ReceiveBase DEF Calm, Base, GuestType
  <1>2. \A q \in Requests : Queued(q)' <=> Queued(q)
    BY <1>1 DEF Queued, InHand
  <1>3. Registered' = Registered
    BY <1>1, <1>2 DEF Registered
  <1>4. \A q \in Requests : Adding(q)' => Adding(q)
    BY <1>1, <1>2 DEF Adding
  <1> QED  BY <1>1, <1>3, <1>4, ChangeFrame DEF Guest

LEMMA EventLists ==
    ASSUME Calm, Calm', ChangeInv, NEW op \in {"change", "reset"}, HostEvent(op)
    PROVE  ChangeInv'
  <1>1. /\ UNCHANGED <<table, requests, at, hold, owner, replies, command>> /\ emu = Guest
        /\ emu'.at = op /\ emu'.op = op /\ emu'.req = None
    BY EventBase DEF Calm
  <1>2. \A q \in Requests : Queued(q)' <=> Queued(q)
    BY <1>1 DEF Queued, InHand
  <1>3. Registered' = Registered
    BY <1>1, <1>2 DEF Registered, Guest
  <1>4. \A q \in Requests : Adding(q)' => Adding(q)
    BY <1>1, <1>2 DEF Adding
  <1> QED  BY <1>1, <1>3, <1>4, ChangeFrame DEF Guest

(* The steps of the thread that do not write to the table. *)
LEMMA ThreadQuiet ==
    ASSUME Calm, Calm', ChangeInv, NEW t \in Threads,
           Born(t) \/ ReadRequest(t) \/ Stop(t) \/ Bye(t) \/ ReplyDone(t) \/ PostChange(t)
    PROVE  ChangeInv'
  <1>1. /\ UNCHANGED <<table, emu, owner, command>>
        /\ at[t] \in {"born", "read", "got", "bye", "reply", "post"}
        /\ at'[t] \in {"read", "got", "bye", "off", "post"}
        /\ \A u \in Threads \ {t} : at'[u] = at[u] /\ hold'[u] = hold[u]
    BY DEF Calm, Base, Born, ReadRequest, Stop, Bye, ReplyDone, PostChange, Jump, emulation, port, ThreadType,
           Label, ReplyMsg
  <1>2. emu.op = "abort" => command'[emu.req] = "io"
    BY <1>1 DEF ChangeInv, Aborts
  <1>3. CASE ReplyDone(t)
    <2>1. /\ at[t] = "reply" /\ hold[t].req \in Requests /\ hold'[t].req = None
          /\ requests' = requests /\ replies' = [replies EXCEPT ![hold[t].req] = @ + 1]
      BY <1>3, ReplyDoneBase DEF Calm, Works
    <2>2. \A q \in Requests : q # hold[t].req => (Queued(q)' <=> Queued(q)) /\ replies'[q] = replies[q]
      BY <1>1, <2>1, Constants DEF Queued, InHand, Calm, Base, GuestType
    <2>3. ASSUME NEW q \in Requests, q = hold[t].req
          PROVE  ~Queued(q)' /\ Queued(q)
      <3>1. Queued(q) /\ q \notin Range(requests) /\ \A u \in Threads \ {t} : hold[u].req # q
        BY <2>3, InHandOf DEF Calm
      <3>2. \A u \in Threads : hold'[u].req # q
        BY <1>1, <2>1, <3>1, Constants
      <3> QED  BY <2>1, <3>1, <3>2 DEF Queued, InHand
    <2>4. emu.op # "reset" => Registered' = Registered
      <3>1. emu.op # "reset" => command[hold[t].req] = "io"
        BY <2>1 DEF ChangeInv, NotErased
      <3> QED  BY <1>1, <2>1, <2>2, <3>1 DEF Registered
    <2>5. \A q \in Requests : Adding(q)' => Adding(q)
      BY <1>1, <2>2, <2>3 DEF Adding
    <2>6. CASE emu.op = "reset"
      BY <1>1, <2>6 DEF ChangeInv, Aborts
    <2>7. CASE emu.op # "reset"
      BY <1>1, <1>2, <2>4, <2>5, <2>7, ChangeFrame
    <2> QED  BY <2>6, <2>7
  <1>4. CASE ~ReplyDone(t)
    <2>1. replies' = replies
      BY <1>4 DEF Born, ReadRequest, Stop, Bye, PostChange, emulation, port
    <2>2. \A q \in Requests : Queued(q)' <=> Queued(q)
      <3>1. CASE ReadRequest(t)
        BY <3>1, ReadBase DEF Calm
      <3>2. CASE ~ReadRequest(t)
        BY <1>4, <3>2 DEF Queued, InHand, Born, Stop, Bye, PostChange, emulation
      <3> QED  BY <3>1, <3>2
    <2>3. Registered' = Registered
      BY <1>1, <2>1, <2>2 DEF Registered
    <2>4. \A q \in Requests : Adding(q)' => Adding(q)
      BY <1>1, <2>2 DEF Adding
    <2> QED  BY <1>1, <1>2, <2>3, <2>4, ChangeFrame
  <1> QED  BY <1>3, <1>4

LEMMA DoIOLists ==
    ASSUME Calm, Calm', ChangeInv, NEW t \in Threads, hardfile_do_io(t), emu.op # "reset"
    PROVE  ChangeInv'
  <1> DEFINE r == hold[t].req
             i == hold'[t].slot
  <1>1. /\ Works(t) /\ replies' = replies /\ r \in Requests /\ at[t] = "got" /\ hold'[t].req = r
        /\ UNCHANGED <<d_type, d_data>>
        /\ \A j \in Slot : d_request[j] # r =>
                 \/ d_request'[j] = d_request[j]
                 \/ d_request[j] = None /\ d_request'[j] = r /\ at'[t] = "add" /\ j = i
        /\ \A j \in Slot : d_request[j] = r =>
                 IF at'[t] = "add" THEN d_request'[j] = d_request[j] ELSE d_request'[j] = None
        /\ \/ /\ at'[t] = "add" /\ command[r] = "add" /\ i \in Slot
              /\ \A j \in Slot : d_request'[j] = r <=> j = i
           \/ /\ at'[t] = "wipe"
              /\ ~(command[r] = "add" /\ SlotFor(r) # 0)
              /\ i \in 0 .. Slots
              /\ i # 0 => d_request[i] = r
    BY DoIOBase DEF Calm
  <1>2. /\ UNCHANGED <<emu, owner, command, requests>>
        /\ \A u \in Threads \ {t} : at'[u] = at[u] /\ hold'[u] = hold[u]
    BY <1>1 DEF Works
  <1>3. HasSlot /\ NotErased /\ Freed /\ AllEntered /\ Listed /\ Aborts
    BY DEF ChangeInv
  <1>4. \A u \in Threads : at[u] \notin Inside
    BY <1>1, Alone DEF hardfile_do_io, Inside
  <1>5. Queued(r) /\ command[r] \in {"io", "add"}
    BY <1>1, InHandOf DEF Calm, Stable, Places, Base, GuestType
  <1>6. command[r] = "add" => at'[t] = "add" /\ \E j \in Slot : d_request[j] = r
    <2> SUFFICES ASSUME command[r] = "add"
                 PROVE  at'[t] = "add" /\ \E j \in Slot : d_request[j] = r
      OBVIOUS
    <2>1. \E j \in Slot : d_request[j] = r
      BY <1>1, <1>3, <1>5 DEF HasSlot, Adding
    <2>2. SlotFor(r) \in Slot /\ SlotFor(r) # 0
      BY <1>1, <2>1, SlotThere, Constants
    <2> QED  BY <1>1, <2>1, <2>2
  <1> HIDE DEF r, i
  <1>7. \A j \in Slot : d_request[j] # r => d_request'[j] = d_request[j]
    <2> SUFFICES ASSUME NEW j \in Slot, d_request[j] # r, d_request'[j] # d_request[j]
                 PROVE  FALSE
      OBVIOUS
    <2>1. at'[t] = "add" /\ j = i /\ command[r] = "add"
      BY <1>1
    <2>2. PICK k \in Slot : d_request[k] = r
      BY <1>6, <2>1
    <2>3. d_request'[k] = r
      BY <1>1, <2>1, <2>2
    <2> QED  BY <1>1, <2>1, <2>2, <2>3
  <1>8. \A q : (Queued(q)' <=> Queued(q))
    <2>1. \A u \in Threads : hold'[u].req = hold[u].req
      BY <1>1, <1>2 DEF r
    <2> QED  BY <1>2, <2>1 DEF Queued, InHand
  <1>9. Registered' = Registered
    BY <1>1, <1>2, <1>8 DEF Registered
  <1>10. \A j \in Slot : d_type[j] = "changeint" => d_request'[j] = d_request[j]
    <2> SUFFICES ASSUME NEW j \in Slot, d_type[j] = "changeint"
                 PROVE  d_request'[j] = d_request[j]
      OBVIOUS
    <2>1. CASE emu.at = "wipe" /\ emu.slot = j
      <3>1. d_request[j] = None
        BY <1>3, <2>1, Constants DEF Freed
      <3> QED  BY <1>1, <1>7, <3>1, Constants
    <2>2. CASE ~(emu.at = "wipe" /\ emu.slot = j)
      <3>1. \A u \in Threads : at[u] # "data"
        BY <1>4 DEF Inside
      <3>2. d_request[j] # r
        BY <1>1, <1>5, <2>2, <3>1, NotOthers
      <3> QED  BY <1>7, <3>2
    <2> QED  BY <2>1, <2>2
  <1>11. HasSlot'
    <2> SUFFICES ASSUME NEW q \in Requests, Adding(q)'
                 PROVE  \E j \in Slot : d_request'[j] = q
      BY DEF HasSlot
    <2>1. Adding(q) /\ command[q] = "add"
      BY <1>2, <1>8 DEF Adding
    <2>2. PICK j \in Slot : d_request[j] = q
      BY <1>3, <2>1 DEF HasSlot
    <2>3. CASE q = r
      BY <1>1, <1>6, <2>1, <2>2, <2>3
    <2>4. CASE q # r
      BY <1>7, <2>2, <2>4
    <2> QED  BY <2>3, <2>4
  <1>12. NotErased'
    <2>1. ASSUME NEW u \in Threads \ {t}
          PROVE  at'[u] \notin {"add", "data", "wipe", "reply"}
      BY <1>2, <1>4, <2>1 DEF Inside
    <2>2. CASE at'[t] = "add"
      <3>1. d_request'[i] = r
        BY <1>1, <2>2
      <3> QED  BY <1>1, <2>1, <2>2, <3>1 DEF NotErased, i, r
    <2>3. CASE at'[t] = "wipe"
      <3>1. command'[r] = "io"
        BY <1>2, <1>5, <1>6, <2>3
      <3>2. i # 0 => i \in Slot /\ d_request[i] = r /\ d_request'[i] = None
        BY <1>1, <2>3, Constants
      <3>3. i # 0 => d_type'[i] # "changeint"
        BY <1>1, <1>10, <3>2, Constants
      <3> QED  BY <1>1, <2>1, <2>3, <3>1, <3>3 DEF NotErased, i, r
    <2> QED  BY <1>1, <2>2, <2>3
  <1>13. Freed'
    <2> SUFFICES ASSUME emu.at = "wipe", emu.slot # 0
                 PROVE  d_request'[emu.slot] = None
      BY <1>2 DEF Freed
    <2>1. emu.slot \in Slot /\ d_request[emu.slot] = None
      BY <1>3, Constants DEF Freed, Calm, Base, EmuInv
    <2> QED  BY <1>1, <1>7, <2>1, Constants
  <1>14. AllEntered'
    <2> SUFFICES ASSUME NEW j \in Slot, d_type[j] = "changeint"
                 PROVE  Entered(j)'
      BY <1>1 DEF AllEntered
    <2>1. Entered(j) /\ d_request'[j] = d_request[j] /\ d_data'[j] = d_data[j]
      BY <1>1, <1>3, <1>10 DEF AllEntered
    <2>2. \A u \in Threads : at[u] # "data"
      BY <1>4 DEF Inside
    <2> QED  BY <1>2, <1>9, <2>1, <2>2 DEF Entered
  <1>15. Listed'
    <2> SUFFICES ASSUME NEW q \in Registered
                 PROVE  \E j \in Slot : d_request'[j] = q /\ d_type'[j] = "changeint" /\ d_data'[j] = q
      BY <1>9 DEF Listed
    <2>1. PICK j \in Slot : d_request[j] = q /\ d_type[j] = "changeint" /\ d_data[j] = q
      BY <1>3 DEF Listed
    <2> QED  BY <1>1, <1>10, <2>1
  <1>16. Aborts'
    BY <1>2, <1>3 DEF Aborts
  <1> QED  BY <1>11, <1>12, <1>13, <1>14, <1>15, <1>16 DEF ChangeInv

LEMMA AddTypeLists ==
    ASSUME Calm, Calm', ChangeInv, NEW t \in Threads, AddType(t), emu.op # "reset"
    PROVE  ChangeInv'
  <1> DEFINE i == hold[t].slot
  <1>1. /\ at[t] = "add" /\ at'[t] = "data" /\ i \in Slot
        /\ UNCHANGED <<d_request, d_data, hold, replies>>
        /\ UNCHANGED <<requests, emu, owner, command>>
        /\ \A u \in Threads \ {t} : at'[u] = at[u] /\ hold'[u] = hold[u]
        /\ \A j \in Slot : d_type'[j] = IF j = i THEN "changeint" ELSE d_type[j]
    BY AddTypeBase DEF Calm, Works
  <1>2. HasSlot /\ NotErased /\ Freed /\ AllEntered /\ Listed /\ Aborts
    BY DEF ChangeInv
  <1>3. d_request[i] = hold[t].req /\ hold[t].req \in Requests
    BY <1>1, <1>2, AtWork DEF NotErased
  <1>4. \A u \in Threads \ {t} : at[u] \notin Inside /\ at'[u] \notin Inside
    BY <1>1, Alone DEF Inside
  <1>5. Registered' = Registered /\ \A q : Queued(q)' <=> Queued(q)
    BY <1>1 DEF Registered, Queued, InHand
  <1>6. HasSlot' /\ NotErased' /\ Freed' /\ Listed' /\ Aborts'
    <2>1. HasSlot'
      BY <1>1, <1>2, <1>5 DEF HasSlot, Adding
    <2>2. NotErased' /\ Freed'
      BY <1>1, <1>2, <1>3, <1>4 DEF NotErased, Freed, Inside
    <2>3. Listed'
      BY <1>1, <1>2, <1>5 DEF Listed
    <2>4. Aborts'
      BY <1>1, <1>2 DEF Aborts
    <2> QED  BY <2>1, <2>2, <2>3, <2>4
  <1>7. AllEntered'
    <2> SUFFICES ASSUME NEW j \in Slot, d_type'[j] = "changeint"
                 PROVE  Entered(j)'
      BY DEF AllEntered
    <2>1. CASE j = i
      BY <1>1, <1>3, <2>1 DEF Entered
    <2>2. CASE j # i
      <3>1. Entered(j) /\ \A u \in Threads : at[u] # "data"
        BY <1>1, <1>2, <1>4, <2>2 DEF AllEntered, Inside
      <3> QED  BY <1>1, <1>5, <3>1 DEF Entered
    <2> QED  BY <2>1, <2>2
  <1> QED  BY <1>6, <1>7 DEF ChangeInv

LEMMA AddDataLists ==
    ASSUME Calm, Calm', ChangeInv, NEW t \in Threads, AddData(t), emu.op # "reset"
    PROVE  ChangeInv'
  <1> DEFINE i == hold[t].slot
             r == hold[t].req
  <1>1. /\ at[t] = "data" /\ at'[t] = "post" /\ i \in Slot /\ r \in Requests /\ hold'[t].req = None
        /\ UNCHANGED <<d_request, d_type, replies, requests, emu, owner, command>>
        /\ \A u \in Threads \ {t} : at'[u] = at[u] /\ hold'[u] = hold[u]
        /\ \A j \in Slot : d_data'[j] = IF j = i THEN r ELSE d_data[j]
    BY AddDataBase DEF Calm, Works
  <1>2. HasSlot /\ NotErased /\ Freed /\ AllEntered /\ Listed /\ Aborts
    BY DEF ChangeInv
  <1>3. /\ d_request[i] = r /\ d_type[i] = "changeint"
        /\ Queued(r) /\ command[r] = "add" /\ owner[r] = "device" /\ replies[r] = 0
    BY <1>1, <1>2, AtWork DEF NotErased
  <1>4. \A u \in Threads \ {t} : at[u] \notin Inside /\ at'[u] \notin Inside
    BY <1>1, Alone DEF Inside
  <1>5. /\ r \notin Range(requests) /\ \A u \in Threads \ {t} : hold[u].req # r
        /\ emu.op \in {"begin", "remove"} => emu.req # r
    BY <1>1, InHandOf DEF Calm
  <1>6. emu.req # r
    <2>1. emu.op = "abort" => emu.req # r
      BY <1>2, <1>3 DEF Aborts
    <2>2. emu.op \in {"begin", "remove", "abort"} <=> emu.req # None
      BY DEF Calm, Base, EmuInv
    <2> QED  BY <1>1, <1>5, <2>1, <2>2, Constants
  <1>7. \A q \in Requests : Queued(q)' <=> Queued(q) /\ q # r
    <2>1. \A q \in Requests : InHand(q)' <=> InHand(q) /\ q # r
      BY <1>1, <1>5, Constants DEF InHand
    <2>2. ~(r \in Range(requests))
      BY <1>5
    <2> QED  BY <1>1, <2>1, <2>2 DEF Queued
  <1> HIDE DEF i, r
  <1>8. Registered' = Registered \cup {r}
    BY <1>1, <1>3, <1>6, <1>7 DEF Registered
  <1>9. HasSlot' /\ NotErased' /\ Freed' /\ Aborts'
    <2>1. HasSlot'
      BY <1>1, <1>2, <1>7 DEF HasSlot, Adding
    <2>2. NotErased'
      BY <1>1, <1>4 DEF NotErased, Inside
    <2>3. Freed' /\ Aborts'
      BY <1>1, <1>2 DEF Freed, Aborts
    <2> QED  BY <2>1, <2>2, <2>3
  <1>10. AllEntered'
    <2> SUFFICES ASSUME NEW j \in Slot, d_type[j] = "changeint"
                 PROVE  Entered(j)'
      BY <1>1 DEF AllEntered
    <2>1. CASE j = i
      BY <1>1, <1>3, <1>8, <2>1 DEF Entered
    <2>2. CASE j # i
      <3>1. Entered(j)
        BY <1>2 DEF AllEntered
      <3>2. ~\E u \in Threads : at[u] = "data" /\ hold[u].slot = j
        BY <1>4, <2>2 DEF Inside, i
      <3> QED  BY <1>1, <1>8, <2>2, <3>1, <3>2 DEF Entered
    <2> QED  BY <2>1, <2>2
  <1>11. Listed'
    <2> SUFFICES ASSUME NEW q \in Registered \cup {r}
                 PROVE  \E j \in Slot : d_request'[j] = q /\ d_type'[j] = "changeint" /\ d_data'[j] = q
      BY <1>8 DEF Listed
    <2>1. CASE q = r
      BY <1>1, <1>3, <2>1
    <2>2. CASE q \in Registered
      BY <1>1, <1>2, <1>3, <2>2 DEF Listed
    <2> QED  BY <2>1, <2>2
  <1> QED  BY <1>9, <1>10, <1>11 DEF ChangeInv

LEMMA ReleaseDoneLists ==
    ASSUME Calm, Calm', ChangeInv, NEW t \in Threads, ReleaseDone(t), emu.op # "reset"
    PROVE  ChangeInv'
  <1> DEFINE i == hold[t].slot
  <1>1. /\ at[t] = "wipe" /\ at'[t] = "reply" /\ i \in 0 .. Slots
        /\ UNCHANGED <<d_request, hold, replies, requests, emu, owner, command>>
        /\ \A u \in Threads \ {t} : at'[u] = at[u]
        /\ \A j \in Slot : d_type'[j] = IF j = i THEN "none" ELSE d_type[j]
        /\ \A j \in Slot : d_data'[j] = IF j = i THEN None ELSE d_data[j]
    BY ReleaseDoneBase DEF Calm, Works
  <1>2. HasSlot /\ NotErased /\ Freed /\ AllEntered /\ Listed /\ Aborts
    BY DEF ChangeInv
  <1>3. \A j \in Slot : d_type[j] = "changeint" => j # i
    BY <1>1, <1>2, Constants DEF NotErased
  <1>4. \A u \in Threads \ {t} : at[u] \notin Inside /\ at'[u] \notin Inside
    BY <1>1, Alone DEF Inside
  <1>5. Registered' = Registered /\ \A q : Queued(q)' <=> Queued(q)
    BY <1>1 DEF Registered, Queued, InHand
  <1>6. HasSlot' /\ NotErased' /\ Freed' /\ Aborts'
    <2>1. HasSlot'
      BY <1>1, <1>2, <1>5 DEF HasSlot, Adding
    <2>2. NotErased'
      BY <1>1, <1>2, <1>4 DEF NotErased, Inside
    <2>3. Freed' /\ Aborts'
      BY <1>1, <1>2 DEF Freed, Aborts
    <2> QED  BY <2>1, <2>2, <2>3
  <1>7. AllEntered'
    <2> SUFFICES ASSUME NEW j \in Slot, d_type'[j] = "changeint"
                 PROVE  Entered(j)'
      BY DEF AllEntered
    <2>1. Entered(j) /\ d_data'[j] = d_data[j] /\ \A u \in Threads : at[u] # "data"
      BY <1>1, <1>2, <1>4 DEF AllEntered, Inside
    <2> QED  BY <1>1, <1>5, <2>1 DEF Entered
  <1>8. Listed'
    <2> SUFFICES ASSUME NEW q \in Registered
                 PROVE  \E j \in Slot : d_request'[j] = q /\ d_type'[j] = "changeint" /\ d_data'[j] = q
      BY <1>5 DEF Listed
    <2>1. PICK j \in Slot : d_request[j] = q /\ d_type[j] = "changeint" /\ d_data[j] = q
      BY <1>2 DEF Listed
    <2> QED  BY <1>1, <1>3, <2>1
  <1> QED  BY <1>6, <1>7, <1>8 DEF ChangeInv

----------------------------------------------------------------------------
(* The theorems about change interrupts. *)

LEMMA ChangeInit == HardfileInit => ChangeInv
  <1> SUFFICES ASSUME HardfileInit
               PROVE  ChangeInv
    OBVIOUS
  <1> USE DEF HardfileInit, Cleared, Empty, Guest
  <1>1. \A r \in Requests : ~Adding(r)
    <2>1. Range(requests) = {}
      BY SeqRange
    <2> QED  BY <2>1, Constants DEF Adding, Queued, InHand
  <1>2. Registered = {}
    BY DEF Registered
  <1> QED  BY <1>1, <1>2 DEF ChangeInv, Aborts, HasSlot, NotErased, Freed, AllEntered, Listed

LEMMA ChangeNext ==
    ASSUME Roomy, Calm, Calm', ChangeInv, [HardfileNext]_vars
    PROVE  ChangeInv'
  <1>1. CASE EmuStep
    <2>1. CASE WipeSlot /\ emu.op # "reset"
      BY <2>1, WipeLists
    <2>2. CASE AbortListed \/ (WipeSlot /\ emu.op = "reset")
      <3>1. emu'.op = "reset"
        <4>1. CASE AbortListed
          <5>1. ASSUME NEW r \in Requests, ReleaseSlot(r), emu.at = "reset", Holding(r) # {}
                PROVE  emu'.op = "reset"
            BY <5>1, ReleaseBase DEF Calm
          <5> QED  BY <4>1, <5>1, ReleaseListed1, NextSlotBase DEF Calm
        <4>2. CASE WipeSlot /\ emu.op = "reset"
          BY <4>2, WipeBase DEF Calm
        <4> QED  BY <2>2, <4>1, <4>2
      <3> QED  BY <3>1 DEF ChangeInv, Aborts
    <2>3. CASE hardfile_reset
      BY <2>3, ResetLists DEF Calm
    <2>4. CASE Started \/ StartFailed \/ hardfile_open \/ hardfile_send_disk_change \/ ChangeDone \/ Answer
      BY <2>4, EmuQuiet
    <2>5. CASE BeginIO \/ SendRequest
      BY <2>5, BeginIOLists, SendLists
    <2>6. CASE RemoveChangeInt \/ abort_async
      BY <2>6, ReleaseLists
    <2> QED  BY <1>1, <2>1, <2>2, <2>3, <2>4, <2>5, <2>6 DEF EmuStep
  <1>2. CASE OpenDevice \/ hardfile_close
    BY <1>2, OpenDeviceLists, EmuQuiet
  <1>3. ASSUME NEW r \in Requests, Remove(r) \/ AbortIO(r) \/ Receive(r)
        PROVE  ChangeInv'
    BY <1>3, CallLists, ReceiveLists
  <1>4. ASSUME NEW r \in Requests, NEW c \in {"io", "add"}, Begin(r, c)
        PROVE  ChangeInv'
    BY <1>4, CallLists
  <1>5. ASSUME NEW op \in {"change", "reset"}, HostEvent(op)
        PROVE  ChangeInv'
    BY <1>5, EventLists
  <1>6. ASSUME NEW t \in Threads, ThreadStep(t)
        PROVE  ChangeInv'
    <2>1. CASE hardfile_do_io(t) \/ AddType(t) \/ AddData(t) \/ ReleaseDone(t)
      <3>1. UNCHANGED <<emu, command>>
        BY <2>1 DEF hardfile_do_io, AddType, AddData, ReleaseDone, emulation
      <3>2. CASE emu.op = "reset"
        BY <3>1, <3>2 DEF ChangeInv, Aborts
      <3>3. CASE emu.op # "reset"
        BY <2>1, <3>3, DoIOLists, AddTypeLists, AddDataLists, ReleaseDoneLists
      <3> QED  BY <3>2, <3>3
    <2> QED  BY <1>6, <2>1, ThreadQuiet DEF ThreadStep
  <1>7. CASE UNCHANGED vars
    <2>1. UNCHANGED <<d_request, d_type, d_data, requests, emu, at, hold, owner, replies, command>>
      BY <1>7 DEF vars, table, port
    <2>2. Registered' = Registered /\ \A r \in Requests : Adding(r)' <=> Adding(r)
      BY <2>1 DEF Registered, Adding, Queued, InHand
    <2>3. emu'.op = "abort" => command'[emu'.req] = "io"
      BY <2>1 DEF ChangeInv, Aborts
    <2> QED  BY <2>1, <2>2, <2>3, ChangeFrame DEF table
  <1> QED  BY <1>1, <1>2, <1>3, <1>4, <1>5, <1>6, <1>7 DEF HardfileNext

LEMMA ChangeInvariant ==
    ASSUME Roomy
    PROVE  HardfileSpec => [](strayed = <<>> => ChangeInv)
  <1>1. Inv /\ Inv' /\ (strayed = <<>> => ChangeInv) /\ [HardfileNext]_vars => (strayed = <<>> => ChangeInv)'
    <2> SUFFICES ASSUME Inv, Inv', strayed = <<>> => ChangeInv, [HardfileNext]_vars, strayed' = <<>>
                 PROVE  ChangeInv'
      OBVIOUS
    <2>1. Calm' /\ Base
      BY CalmIs DEF Inv
    <2>2. CASE hardfile_reset
      BY <2>1, <2>2, ResetLists
    <2>3. CASE ~hardfile_reset
      <3>1. \A e : ~Happened(e)
        BY <2>1, <2>3, LogGrows, NothingHappened
      <3>2. Range(strayed) = {} /\ strayed \in Seq(Strays)
        BY <2>1, <3>1 DEF Happened, Base, GuestType
      <3>3. strayed = <<>>
        BY <3>2, SeqRange
      <3>4. Calm
        BY <3>3, CalmIs
      <3> QED  BY <2>1, <3>3, <3>4, ChangeNext
    <2> QED  BY <2>2, <2>3
  <1> QED  BY <1>1, ChangeInit, HardfileInvariant, PTL DEF HardfileSpec

(* While a change interrupt is registered the table lists it whole, whatever requests come and go in
   the slots around it (hardfile.cpp, add_async_request and release_async_request of two threads that
   share the table without a lock), as long as nothing has happened that the unit is not made for. *)
THEOREM RegisteredAreListed ==
    ASSUME Roomy
    PROVE  HardfileSpec => [](strayed = <<>> => ChangeIntListed)
  <1>1. ChangeInv => ChangeIntListed
    BY DEF ChangeInv, Listed, ChangeIntListed
  <1> QED  BY <1>1, ChangeInvariant, PTL

(* A disk change causes the change interrupts that are registered and no other: none is forgotten, none
   was removed, and none is half added, since hardfile_send_disk_change waits for change_sem. *)
THEOREM RegisteredAreCaused ==
    ASSUME Roomy
    PROVE  HardfileSpec => CausedRegistered
  <1>1. ASSUME Inv, strayed = <<>> => ChangeInv, hardfile_send_disk_change, strayed = <<>>
        PROVE  caused' = Registered
    <2> DEFINE L == {j \in Slot : d_type[j] = "changeint"}
    <2>1. /\ emu.at = "change" /\ emu.op = "change" /\ change_sem > 0
          /\ caused' = {d_data[i] : i \in L}
      BY <1>1 DEF hardfile_send_disk_change, Inv, Base, EmuInv
    <2>2. AllEntered /\ Listed
      BY <1>1, <2>1 DEF ChangeInv
    <2>3. \A t \in Threads : at[t] # "data"
      BY <1>1, <2>1 DEF Inv, Base, Mutex, FlagsType, Inside
    <2>4. \A i \in L : d_data[i] \in Registered
      BY <2>1, <2>2, <2>3 DEF AllEntered, Entered
    <2>5. \A r \in Registered : \E i \in L : d_data[i] = r
      BY <2>1, <2>2 DEF Listed
    <2> QED  BY <2>1, <2>4, <2>5
  <1>2. Inv /\ (strayed = <<>> => ChangeInv) /\ [HardfileNext]_vars
          => [hardfile_send_disk_change => strayed # <<>> \/ caused' = Registered]_vars
    BY <1>1
  <1> QED  BY <1>2, HardfileInvariant, ChangeInvariant, PTL DEF HardfileSpec, CausedRegistered
=============================================================================
