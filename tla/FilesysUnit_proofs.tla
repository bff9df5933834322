------------------------- MODULE FilesysUnit_proofs -------------------------
(***************************************************************************)
(* Theorems about one mounted directory (FilesysUnit): types, the dummy    *)
(* message, room in unit_pipe, the lock structures, the count of           *)
(* outstanding packets and the packets that were replied.                  *)
(*                                                                         *)
(* They hold for any number of packets, any limit within the capacity of   *)
(* unit_pipe and any capacity of back_pipe, with resets and without.  Inv  *)
(* is the inductive invariant: a packet is in one place, the host's        *)
(* threads know only packets that were started, and the counters agree     *)
(* with the sets they count.  Parked is added for the last theorem.        *)
(***************************************************************************)
EXTENDS FilesysUnit, FunctionTheorems, SequenceTheorems, FiniteSetTheorems, TLAPS

(* The types, in four parts. *)
HandlerType ==
    /\ port \in Seq(Msgs \cup {Dummy}) /\ sigs \subseteq {"port", "D"}
    /\ fpc \in {"get", "wait", "dummy", "drain", "scan", "packet", "enqueue"}
    /\ fmsg \in Msgs \cup {Dummy} /\ d2 \in {"done", "timeout"}
    /\ fpc \in {"packet", "enqueue"} => fmsg \in Msgs
    /\ queue \in Seq(Msgs) /\ a0 \in 1 .. Len(queue) + 1

PacketType ==
    /\ unsent \subseteq Msgs /\ replied \subseteq Msgs /\ status \in [Msgs -> Marks]

ThreadType ==
    /\ unit_pipe \in Seq(Msgs \cup {Death})
    /\ tpc \in {"read", "handle", "unlink", "release", "count", "request", "back", "dead"}
    /\ cur \in Msgs \cup {Death} /\ held \in Msgs \cup {Death}
    /\ tpc \in {"handle", "unlink", "release"} => cur \in Msgs
    /\ tpc \in {"unlink", "release"} => held \in Msgs
    /\ waitingrecords \subseteq Msgs
    /\ vpc \in {"out", "mark", "unlink"} /\ vrec \in Msgs \cup {Death}
    /\ vpc # "out" => vrec \in Msgs

ServerType ==
    /\ cmds_sent \in Nat /\ cmds_acked \in Nat /\ cmds_complete \in Nat
    /\ requested \in BOOLEAN /\ signalling \in BOOLEAN
    /\ ipc \in {"out", "serve", "ack", "served"} /\ rpc \in {"up", "down", "reset"}

(* Where the dummy message is, and that the server sends it only when it is nowhere. *)
NoDup(s) == \A i, k \in 1 .. Len(s) : s[i] = s[k] => i = k
DummyInv ==
    /\ cmds_acked # cmds_complete <=> Dummy \in Range(port) \/ fpc = "dummy"
    /\ fpc = "dummy" => Dummy \notin Range(port)
    /\ ipc = "ack" => cmds_acked = cmds_complete /\ cmds_acked # cmds_sent
    /\ cmds_acked <= cmds_sent

(* A packet is in one place. *)
Fresh(m) == m \in unsent \/ m \in Range(port) \/ (fpc = "packet" /\ fmsg = m)
Places ==
    /\ NoDup(port) /\ NoDup(queue)
    /\ unsent \cap Range(port) = {}
    /\ fpc = "packet" => fmsg \notin unsent /\ fmsg \notin Range(port)
    /\ fpc = "enqueue" => status[fmsg] # "none" /\ fmsg \notin Range(queue) /\ fmsg \notin replied
    /\ \A m \in Msgs :
         /\ Fresh(m) => status[m] = "none"
         /\ m \in Range(queue) => status[m] # "none" /\ m \notin replied
         /\ m \in replied => status[m] \in {"done", "timeout"}

(* Packets that the host's threads know have been started; the pipe has them before. *)
Touched(m) ==
    \/ m \in waitingrecords
    \/ tpc \in {"handle", "unlink", "release"} /\ cur = m
    \/ tpc \in {"unlink", "release"} /\ held = m
    \/ vpc # "out" /\ vrec = m
Begun(m) == status[m] \in {"pending", "done", "timeout"}
Started ==
    /\ NoDup(unit_pipe) /\ (rpc = "up" => Death \notin Range(unit_pipe))
    /\ \A m \in Msgs :
         /\ m \in Range(unit_pipe) => status[m] = "pending" /\ ~Touched(m)
         /\ Touched(m) => Begun(m)

(* d5 counts the packets that were started and not replied. *)
Out == {m \in Msgs \ replied : Begun(m)}
Counted == IsFiniteSet(Out) /\ d5 = Cardinality(Out) /\ d5 <= Limit

(* The lock structures. *)
Locks ==
    /\ locks \in Nat /\ owned \in Nat /\ given \in Nat /\ back_pipe \in Seq(1 .. 3)
    /\ tpc = "read" => locklist = 0
    /\ tpc \in {"handle", "unlink", "release"} => locklist = 2
    /\ tpc \in {"count", "request", "back"} => locklist \in 1 .. 3
    /\ locklist \in 0 .. 3
    /\ LocksConserved

Inv == /\ HandlerType /\ PacketType /\ ThreadType /\ ServerType /\ DummyInv /\ Places
       /\ Started /\ Counted /\ Locks

----------------------------------------------------------------------------
(* Record locks: a packet is marked by the host thread that handles it, or else is parked, until the
   vertical blank or the host thread marks it, which may both have hold of it. *)
Parked ==
    /\ \A m \in waitingrecords :
         status[m] = "pending" \/ (status[m] = "timeout" /\ vpc = "unlink" /\ vrec = m)
    /\ tpc \in {"handle", "unlink", "release"} =>
         /\ status[cur] = "pending" /\ cur \notin waitingrecords
         /\ vpc # "out" => vrec # cur
    /\ tpc \in {"unlink", "release"} => status[held] \in {"pending", "timeout"} /\ held # cur
    /\ tpc = "release" => held \notin waitingrecords
    /\ vpc # "out" => vrec \notin replied
    /\ vpc = "mark" => status[vrec] \in {"pending", "done"}

----------------------------------------------------------------------------
(* Sequences. *)
LEMMA RangeAppend ==
    ASSUME NEW S, NEW s \in Seq(S), NEW e \in S
    PROVE  /\ Append(s, e) \in Seq(S) /\ Len(Append(s, e)) = Len(s) + 1
           /\ Range(Append(s, e)) = Range(s) \cup {e}
           /\ NoDup(s) /\ e \notin Range(s) => NoDup(Append(s, e))
  BY AppendProperties, LenProperties DEF Range, NoDup

LEMMA RangeTail ==
    ASSUME NEW S, NEW s \in Seq(S), s # <<>>
    PROVE  /\ Head(s) \in S /\ Tail(s) \in Seq(S)
           /\ Len(s) \in Nat \ {0} /\ Len(Tail(s)) = Len(s) - 1
           /\ Range(s) = Range(Tail(s)) \cup {Head(s)}
           /\ NoDup(s) => NoDup(Tail(s)) /\ Head(s) \notin Range(Tail(s))
  <1>1. /\ Len(s) \in Nat \ {0} /\ Head(s) = s[1] /\ Tail(s) \in Seq(S)
        /\ Len(Tail(s)) = Len(s) - 1 /\ \A i \in 1 .. Len(Tail(s)) : Tail(s)[i] = s[i + 1]
    BY HeadTailProperties, LenProperties, EmptySeq
  <1>2. DOMAIN s = 1 .. Len(s) /\ DOMAIN Tail(s) = 1 .. Len(s) - 1
    BY <1>1, LenProperties
  <1>3. s[1] \in S
    BY <1>1, ElementOfSeq
  <1>4. Range(s) = Range(Tail(s)) \cup {Head(s)}
    <2>1. ASSUME NEW x \in Range(s)
          PROVE  x \in Range(Tail(s)) \cup {Head(s)}
      <3>1. PICK i \in 1 .. Len(s) : x = s[i]
        BY <1>2 DEF Range
      <3>2. CASE i = 1
        BY <1>1, <3>1, <3>2
      <3>3. CASE i # 1
        <4>1. i - 1 \in 1 .. Len(s) - 1 /\ i - 1 + 1 = i
          BY <1>1, <3>3
        <4>2. Tail(s)[i - 1] = x
          BY <1>1, <3>1, <4>1
        <4> QED  BY <1>2, <4>1, <4>2 DEF Range
      <3> QED  BY <3>2, <3>3
    <2>2. ASSUME NEW x \in Range(Tail(s))
          PROVE  x \in Range(s)
      <3>1. PICK i \in 1 .. Len(s) - 1 : x = Tail(s)[i]
        BY <1>2 DEF Range
      <3>2. i + 1 \in 1 .. Len(s) /\ s[i + 1] = x
        BY <1>1, <3>1
      <3> QED  BY <1>2, <3>2 DEF Range
    <2>3. Head(s) \in Range(s)
      BY <1>1, <1>2 DEF Range
    <2> QED  BY <2>1, <2>2, <2>3
  <1>5. ASSUME NoDup(s)
        PROVE  NoDup(Tail(s)) /\ Head(s) \notin Range(Tail(s))
    <2>1. NoDup(Tail(s))
      BY <1>1, <1>5 DEF NoDup
    <2>2. ASSUME NEW i \in 1 .. Len(s) - 1
          PROVE  Tail(s)[i] # s[1]
      <3>1. Tail(s)[i] = s[i + 1] /\ i + 1 \in 1 .. Len(s) /\ 1 \in 1 .. Len(s) /\ i + 1 # 1
        BY <1>1
      <3> QED  BY <1>5, <3>1 DEF NoDup
    <2> QED  BY <1>1, <1>2, <2>1, <2>2 DEF Range
  <1> QED  BY <1>1, <1>3, <1>4, <1>5

LEMMA SeqRange ==
    /\ Len(<<>>) = 0 /\ Range(<<>>) = {} /\ NoDup(<<>>)
    /\ \A S : \A s \in Seq(S) : Range(s) \subseteq S /\ (Range(s) = {} => s = <<>>)
  <1>1. Len(<<>>) = 0 /\ Range(<<>>) = {} /\ NoDup(<<>>)
    BY DEF Range, NoDup
  <1>2. ASSUME NEW S, NEW s \in Seq(S)
        PROVE  Range(s) \subseteq S /\ (Range(s) = {} => s = <<>>)
    <2>1. DOMAIN s = 1 .. Len(s) /\ Len(s) \in Nat
      BY LenProperties
    <2>2. Range(s) \subseteq S
      BY <2>1, ElementOfSeq DEF Range
    <2>3. ASSUME s # <<>>
          PROVE  s[1] \in Range(s)
      BY <2>1, <2>3, EmptySeq DEF Range
    <2> QED  BY <2>2, <2>3
  <1> QED  BY <1>1, <1>2

LEMMA RangeCons ==
    ASSUME NEW S, NEW s \in Seq(S), NEW e \in S, e \notin Range(s)
    PROVE  /\ <<e>> \o s \in Seq(S) /\ Len(<<e>> \o s) = Len(s) + 1
           /\ Range(<<e>> \o s) = Range(s) \cup {e}
           /\ NoDup(s) => NoDup(<<e>> \o s)
  <1> DEFINE t == <<e>> \o s
  <1>1. <<e>> \in Seq(S) /\ Len(<<e>>) = 1 /\ <<e>>[1] = e
    OBVIOUS
  <1>2. t \in Seq(S) /\ Len(t) = Len(s) + 1 /\ Len(s) \in Nat
    BY <1>1, ConcatProperties, LenProperties
  <1>3. \A i \in 1 .. Len(s) + 1 : t[i] = IF i = 1 THEN e ELSE s[i - 1]
    BY <1>1, <1>2, ConcatProperties
  <1>4. DOMAIN s = 1 .. Len(s) /\ DOMAIN t = 1 .. Len(s) + 1
    BY <1>2, LenProperties
  <1> HIDE DEF t
  <1>5. \A i \in 1 .. Len(s) : t[i + 1] = s[i] /\ i + 1 \in 1 .. Len(s) + 1 /\ s[i] # e
    BY <1>2, <1>3, <1>4 DEF Range
  <1>6. \A i \in 1 .. Len(s) + 1 : i = 1 \/ (i - 1 \in 1 .. Len(s) /\ t[i] = s[i - 1])
    BY <1>2, <1>3
  <1>7. Range(t) = Range(s) \cup {e}
    <2>1. t[1] = e /\ 1 \in DOMAIN t
      BY <1>2, <1>3, <1>4
    <2>2. \A x \in Range(s) : x \in Range(t)
      BY <1>4, <1>5 DEF Range
    <2>3. \A x \in Range(t) : x = e \/ x \in Range(s)
      BY <1>4, <1>6, <2>1 DEF Range
    <2>4. e \in Range(t)
      BY <2>1 DEF Range
    <2> QED  BY <2>2, <2>3, <2>4
  <1>8. ASSUME NoDup(s)
        PROVE  NoDup(t)
    <2> SUFFICES ASSUME NEW i \in 1 .. Len(s) + 1, NEW k \in 1 .. Len(s) + 1, t[i] = t[k]
                 PROVE  i = k
      BY <1>2 DEF NoDup
    <2>1. t[1] = e
      BY <1>2, <1>3
    <2>2. CASE i = 1 \/ k = 1
      BY <1>5, <1>6, <2>1, <2>2
    <2>3. CASE i # 1 /\ k # 1
      <3>1. i - 1 \in 1 .. Len(s) /\ k - 1 \in 1 .. Len(s) /\ s[i - 1] = s[k - 1]
        BY <1>6, <2>3
      <3>2. i - 1 = k - 1
        BY <1>8, <3>1 DEF NoDup
      <3> QED  BY <3>2
    <2> QED  BY <2>2, <2>3
  <1> QED  BY <1>2, <1>7, <1>8 DEF t

LEMMA RangeRemove ==
    ASSUME NEW S, NEW s \in Seq(S), NEW i \in 1 .. Len(s), NoDup(s)
    PROVE  /\ RemoveAt(s, i) \in Seq(S) /\ Len(RemoveAt(s, i)) = Len(s) - 1
           /\ Range(RemoveAt(s, i)) = Range(s) \ {s[i]} /\ NoDup(RemoveAt(s, i))
  <1> DEFINE a == SubSeq(s, 1, i - 1)
             b == SubSeq(s, i + 1, Len(s))
             t == a \o b
             n == Len(s) - 1
  <1>1. Len(s) \in Nat /\ DOMAIN s = 1 .. Len(s) /\ \A k \in 1 .. Len(s) : s[k] \in S
    BY LenProperties, ElementOfSeq
  <1>2. a \in Seq(S) /\ Len(a) = i - 1 /\ \A k \in 1 .. i - 1 : a[k] = s[k]
    <2>1. \A k \in 1 .. i - 1 : s[k] \in S
      BY <1>1
    <2>2. 1 \in Int /\ i - 1 \in Int /\ i - 1 - 1 + 1 = i - 1 /\ \A k \in 1 .. i - 1 : 1 + k - 1 = k
      OBVIOUS
    <2>3. a \in Seq(S) /\ Len(a) = (IF 1 <= i - 1 THEN i - 1 - 1 + 1 ELSE 0)
          /\ \A k \in 1 .. i - 1 - 1 + 1 : a[k] = s[1 + k - 1]
      BY <2>1, <2>2, SubSeqProperties
    <2> QED  BY <2>2, <2>3
  <1>3. b \in Seq(S) /\ Len(b) = Len(s) - i /\ \A k \in 1 .. Len(s) - i : b[k] = s[i + k]
    <2>1. \A k \in i + 1 .. Len(s) : s[k] \in S
      BY <1>1
    <2>2. /\ i + 1 \in Int /\ Len(s) \in Int /\ Len(s) - (i + 1) + 1 = Len(s) - i
          /\ \A k \in 1 .. Len(s) - i : i + 1 + k - 1 = i + k
      BY <1>1
    <2>3. b \in Seq(S) /\ Len(b) = (IF i + 1 <= Len(s) THEN Len(s) - (i + 1) + 1 ELSE 0)
          /\ \A k \in 1 .. Len(s) - (i + 1) + 1 : b[k] = s[i + 1 + k - 1]
      BY <2>1, <2>2, SubSeqProperties
    <2> HIDE DEF b
    <2>4. \A k \in Nat : \A j \in 1 .. k : (IF j + 1 <= k THEN k - (j + 1) + 1 ELSE 0) = k - j
      OBVIOUS
    <2>5. Len(b) = Len(s) - i
      BY <1>1, <2>2, <2>3, <2>4
    <2> QED  BY <2>2, <2>3, <2>5
  <1> HIDE DEF a, b
  <1>4. t \in Seq(S) /\ Len(t) = n
    <2>1. t \in Seq(S) /\ Len(t) = Len(a) + Len(b)
      BY <1>2, <1>3, ConcatProperties
    <2> HIDE DEF t
    <2>2. i \in Int /\ i - 1 + (Len(s) - i) = n
      BY <1>1
    <2> QED  BY <1>2, <1>3, <2>1, <2>2
  <1>5. \A k \in 1 .. n : t[k] = IF k < i THEN s[k] ELSE s[k + 1]
    <2>1. \A k \in 1 .. n : t[k] = IF k <= i - 1 THEN a[k] ELSE b[k - (i - 1)]
      BY <1>1, <1>2, <1>3, ConcatProperties
    <2>2. \A k \in 1 .. n : k <= i - 1 => k \in 1 .. i - 1 /\ k < i
      BY <1>1
    <2>3. \A k \in 1 .. n : ~(k <= i - 1) =>
              k - (i - 1) \in 1 .. Len(s) - i /\ i + (k - (i - 1)) = k + 1 /\ ~(k < i)
      BY <1>1
    <2> QED  BY <1>2, <1>3, <2>1, <2>2, <2>3
  <1> HIDE DEF t
  <1>6. DOMAIN t = 1 .. n
    BY <1>1, <1>4, LenProperties
  <1>7. NoDup(t)
    <2>1. ASSUME NEW k \in 1 .. n, NEW l \in 1 .. n, t[k] = t[l]
          PROVE  k = l
      <3> DEFINE at(j) == IF j < i THEN j ELSE j + 1
      <3>1. \A j \in 1 .. n : at(j) \in 1 .. Len(s) /\ t[j] = s[at(j)]
        BY <1>1, <1>5
      <3>2. at(k) = at(l)
        <4> HIDE DEF at
        <4> QED  BY <2>1, <3>1 DEF NoDup
      <3> QED  BY <3>2
    <2> QED  BY <1>4, <2>1 DEF NoDup
  <1>8. Range(t) = Range(s) \ {s[i]}
    <2>1. ASSUME NEW k \in 1 .. n
          PROVE  t[k] \in Range(s) /\ t[k] # s[i]
      BY <1>1, <1>5 DEF Range, NoDup
    <2>2. ASSUME NEW k \in 1 .. Len(s), k # i
          PROVE  s[k] \in Range(t)
      <3>1. CASE k < i
        BY <1>1, <1>5, <1>6, <3>1 DEF Range
      <3>2. CASE k > i
        <4>1. k - 1 \in 1 .. n /\ t[k - 1] = s[k]
          BY <1>1, <1>5, <3>2
        <4> QED  BY <1>6, <4>1 DEF Range
      <3> QED  BY <2>2, <3>1, <3>2
    <2> QED  BY <1>1, <1>6, <2>1, <2>2 DEF Range
  <1>9. RemoveAt(s, i) = t
    BY DEF RemoveAt, t, a, b
  <1> QED  BY <1>4, <1>7, <1>8, <1>9

----------------------------------------------------------------------------
(* The locks in back_pipe. *)

LEMMA LocksEmpty == Cardinality(LocksIn(<<>>)) = 0
  <1>1. LocksIn(<<>>) = {}
    BY DEF LocksIn
  <1> QED  BY <1>1, FS_EmptySet

LEMMA LocksFinite ==
    ASSUME NEW s \in Seq(1 .. 3)
    PROVE  IsFiniteSet(LocksIn(s))
  <1>1. Len(s) \in Nat
    BY LenProperties
  <1>2. IsFiniteSet((1 .. Len(s)) \X (1 .. 3))
    <2>1. 1 \in Int /\ 3 \in Int /\ Len(s) \in Int
      BY <1>1
    <2>2. IsFiniteSet(1 .. Len(s)) /\ IsFiniteSet(1 .. 3)
      BY <2>1, FS_Interval
    <2> QED  BY <2>2, FS_Product
  <1>3. LocksIn(s) \in SUBSET ((1 .. Len(s)) \X (1 .. 3))
    BY DEF LocksIn
  <1> QED  BY <1>2, <1>3, FS_Subset

LEMMA OneWord ==
    ASSUME NEW i \in Nat, NEW n \in 1 .. 3
    PROVE  IsFiniteSet({i} \X (1 .. n)) /\ Cardinality({i} \X (1 .. n)) = n
  <1>1. IsFiniteSet({i}) /\ Cardinality({i}) = 1
    BY FS_Singleton
  <1>2. IsFiniteSet(1 .. n) /\ Cardinality(1 .. n) = n
    <2>1. 1 \in Int /\ n \in Int /\ ~(1 > n) /\ n - 1 + 1 = n
      OBVIOUS
    <2> QED  BY <2>1, FS_Interval
  <1>3. /\ IsFiniteSet({i} \X (1 .. n))
        /\ Cardinality({i} \X (1 .. n)) = Cardinality({i}) * Cardinality(1 .. n)
    BY <1>1, <1>2, FS_Product
  <1>4. 1 * n = n
    OBVIOUS
  <1> QED  BY <1>1, <1>2, <1>3, <1>4

LEMMA LocksAppend ==
    ASSUME NEW s \in Seq(1 .. 3), NEW n \in 1 .. 3
    PROVE  Cardinality(LocksIn(Append(s, n))) = Cardinality(LocksIn(s)) + n
  <1> DEFINE t == Append(s, n)
             W == {Len(s) + 1} \X (1 .. n)
  <1>1. Len(s) \in Nat /\ Len(t) = Len(s) + 1
    BY LenProperties, AppendProperties
  <1>2. t[Len(s) + 1] = n /\ \A i \in 1 .. Len(s) : t[i] = s[i]
    BY AppendProperties
  <1> HIDE DEF t
  <1>3. LocksIn(t) = LocksIn(s) \cup W
    <2>1. ASSUME NEW x \in LocksIn(t)
          PROVE  x \in LocksIn(s) \cup W
      <3>1. x \in (1 .. Len(s) + 1) \X (1 .. 3) /\ x[2] <= t[x[1]]
        BY <1>1 DEF LocksIn
      <3>2. CASE x[1] = Len(s) + 1
        BY <1>2, <3>1, <3>2
      <3>3. CASE x[1] # Len(s) + 1
        <4>1. x[1] \in 1 .. Len(s)
          BY <1>1, <3>1, <3>3
        <4> QED  BY <1>2, <3>1, <4>1 DEF LocksIn
      <3> QED  BY <3>2, <3>3
    <2>2. ASSUME NEW x \in LocksIn(s)
          PROVE  x \in LocksIn(t)
      <3>1. x \in (1 .. Len(s)) \X (1 .. 3) /\ x[2] <= s[x[1]]
        BY DEF LocksIn
      <3>2. x[1] \in 1 .. Len(s) + 1 /\ x[1] \in 1 .. Len(s)
        BY <1>1, <3>1
      <3> QED  BY <1>1, <1>2, <3>1, <3>2 DEF LocksIn
    <2>3. ASSUME NEW x \in W
          PROVE  x \in LocksIn(t)
      <3>1. x = <<Len(s) + 1, x[2]>> /\ x[2] \in 1 .. n
        OBVIOUS
      <3> QED  BY <1>1, <1>2, <3>1 DEF LocksIn
    <2> QED  BY <2>1, <2>2, <2>3
  <1>4. LocksIn(s) \cap W = {}
    BY <1>1 DEF LocksIn
  <1>5. IsFiniteSet(W) /\ Cardinality(W) = n
    <2>1. Len(s) + 1 \in Nat
      BY <1>1
    <2> QED  BY <2>1, OneWord
  <1>6. IsFiniteSet(LocksIn(s)) /\ Cardinality(LocksIn(s)) \in Nat
    BY LocksFinite, FS_CardinalityType
  <1> HIDE DEF W
  <1>7. Cardinality(LocksIn(t)) =
            Cardinality(LocksIn(s)) + Cardinality(W) - Cardinality(LocksIn(s) \cap W)
    BY <1>3, <1>5, <1>6, FS_Union
  <1>8. Cardinality(LocksIn(t)) = Cardinality(LocksIn(s)) + n
    <2>1. Cardinality(LocksIn(t)) = Cardinality(LocksIn(s)) + n - 0
      BY <1>4, <1>5, <1>7, FS_EmptySet
    <2> QED  BY <1>6, <2>1
  <1> QED  BY <1>8 DEF t

LEMMA LocksTail ==
    ASSUME NEW s \in Seq(1 .. 3), s # <<>>
    PROVE  /\ Head(s) \in 1 .. 3
           /\ Cardinality(LocksIn(s)) = Cardinality(LocksIn(Tail(s))) + Head(s)
  <1> DEFINE n == Head(s)
             t == Tail(s)
             W == {1} \X (1 .. n)
             R == {x \in LocksIn(s) : x[1] # 1}
             f == [x \in LocksIn(t) |-> <<x[1] + 1, x[2]>>]
  <1>1. /\ n \in 1 .. 3 /\ s[1] = n /\ t \in Seq(1 .. 3) /\ Len(s) \in Nat \ {0}
        /\ Len(t) = Len(s) - 1 /\ \A i \in 1 .. Len(t) : t[i] = s[i + 1]
    BY HeadTailProperties, LenProperties, EmptySeq
  <1> HIDE DEF n, t
  <1>2. ASSUME NEW x \in LocksIn(t)
        PROVE  /\ x = <<x[1], x[2]>> /\ x[1] \in 1 .. Len(t)
               /\ f[x] = <<x[1] + 1, x[2]>> /\ f[x] \in R
    <2>1. x \in (1 .. Len(t)) \X (1 .. 3) /\ x[2] <= t[x[1]]
      BY DEF LocksIn
    <2>2. x = <<x[1], x[2]>> /\ x[1] \in 1 .. Len(t) /\ x[2] \in 1 .. 3
      BY <2>1
    <2>3. x[1] + 1 \in 1 .. Len(s) /\ x[1] + 1 # 1 /\ s[x[1] + 1] = t[x[1]]
      BY <1>1, <2>2
    <2>4. <<x[1] + 1, x[2]>> \in R
      BY <2>1, <2>2, <2>3 DEF LocksIn
    <2> QED  BY <2>2, <2>4
  <1>3. ASSUME NEW y \in R
        PROVE  \E x \in LocksIn(t) : f[x] = y
    <2>1. y \in (1 .. Len(s)) \X (1 .. 3) /\ y[2] <= s[y[1]] /\ y[1] # 1
      BY DEF LocksIn
    <2>2. y = <<y[1], y[2]>> /\ y[1] \in 1 .. Len(s) /\ y[2] \in 1 .. 3
      BY <2>1
    <2>3. y[1] - 1 \in 1 .. Len(t) /\ t[y[1] - 1] = s[y[1]] /\ y[1] - 1 + 1 = y[1]
      BY <1>1, <2>1, <2>2
    <2>4. <<y[1] - 1, y[2]>> \in LocksIn(t)
      BY <2>1, <2>2, <2>3 DEF LocksIn
    <2> QED  BY <2>2, <2>3, <2>4
  <1>4. f \in Bijection(LocksIn(t), R)
    <2>1. f \in [LocksIn(t) -> R]
      BY <1>2
    <2>2. ASSUME NEW x \in LocksIn(t), NEW y \in LocksIn(t), f[x] = f[y]
          PROVE  x = y
      <3>1. x[1] + 1 = y[1] + 1 /\ x[2] = y[2] /\ x[1] \in 1 .. Len(t) /\ y[1] \in 1 .. Len(t)
        BY <1>2, <2>2
      <3>2. x[1] = y[1]
        BY <1>1, <3>1
      <3> QED  BY <1>2, <3>1, <3>2
    <2> HIDE DEF f, R
    <2> QED  BY <1>3, <2>1, <2>2, Fun_IsBij
  <1>5. IsFiniteSet(LocksIn(t)) /\ IsFiniteSet(R) /\ Cardinality(R) = Cardinality(LocksIn(t))
    <2>1. IsFiniteSet(LocksIn(t)) /\ ExistsBijection(LocksIn(t), R)
      BY <1>1, <1>4, LocksFinite DEF ExistsBijection
    <2> QED  BY <2>1, FS_Bijection
  <1>6. LocksIn(s) = R \cup W
    <2>1. ASSUME NEW x \in LocksIn(s), x \notin R
          PROVE  x \in W
      <3>1. x \in (1 .. Len(s)) \X (1 .. 3) /\ x[2] <= s[x[1]] /\ x[1] = 1
        BY <2>1 DEF LocksIn
      <3> QED  BY <1>1, <3>1
    <2>2. ASSUME NEW x \in W
          PROVE  x \in LocksIn(s)
      <3>1. x = <<1, x[2]>> /\ x[2] \in 1 .. n
        OBVIOUS
      <3> QED  BY <1>1, <3>1 DEF LocksIn
    <2> QED  BY <2>1, <2>2
  <1>7. R \cap W = {}
    OBVIOUS
  <1>8. IsFiniteSet(W) /\ Cardinality(W) = n
    BY <1>1, OneWord
  <1>9. Cardinality(LocksIn(t)) \in Nat
    BY <1>5, FS_CardinalityType
  <1> HIDE DEF W, R
  <1>10. Cardinality(LocksIn(s)) = Cardinality(R) + Cardinality(W) - Cardinality(R \cap W)
    BY <1>5, <1>6, <1>8, FS_Union
  <1>11. Cardinality(R \cap W) = 0
    BY <1>7, FS_EmptySet
  <1>12. Cardinality(LocksIn(s)) = Cardinality(LocksIn(t)) + n
    BY <1>1, <1>5, <1>8, <1>9, <1>10, <1>11
  <1> QED  BY <1>1, <1>12 DEF n, t

----------------------------------------------------------------------------
(* What steps leave alone. *)

LEMMA Constants ==
    /\ Dummy \notin Msgs /\ Death \notin Msgs /\ Dummy # Death
    /\ Limit \in Nat /\ Limit >= 1 /\ PipeCapacity \in Nat /\ PipeCapacity >= Limit
    /\ LockChanges \subseteq -1 .. 1
  BY UnitAssumption

(* Each part of the invariant, with the variables it is about. *)
LEMMA Frame ==
    ASSUME Inv
    PROVE  /\ UNCHANGED <<port, sigs, fpc, fmsg, d2, a0, queue>> => HandlerType'
           /\ UNCHANGED <<unsent, replied, status>> => PacketType'
           /\ UNCHANGED <<unit_pipe, tpc, cur, held, waitingrecords, vpc, vrec>> => ThreadType'
           /\ UNCHANGED <<cmds_sent, cmds_acked, cmds_complete, requested, signalling, ipc, rpc>>
                => ServerType'
           /\ /\ UNCHANGED <<port, cmds_sent, cmds_acked, cmds_complete>>
              /\ fpc' = "dummy" <=> fpc = "dummy"
              /\ ipc' = "ack" => ipc = "ack"
              => DummyInv'
           /\ /\ UNCHANGED <<port, queue, unsent, replied, status, fmsg>>
              /\ fpc' = fpc \/ {fpc, fpc'} \cap {"packet", "enqueue"} = {}
              => Places'
           /\ /\ UNCHANGED <<status, unit_pipe>> /\ (rpc' = "up" => rpc = "up")
              /\ \A m \in Msgs : Touched(m)' => Touched(m)
              => Started'
           /\ UNCHANGED <<replied, status, d5>> => Counted'
           /\ /\ UNCHANGED <<locks, owned, given, back_pipe, locklist, unit_pipe>>
              /\ rpc' = "up" => rpc = "up"
              /\ \/ tpc' = tpc
                 \/ {tpc, tpc'} \subseteq {"handle", "unlink", "release"}
                 \/ {tpc, tpc'} \subseteq {"count", "request", "back"}
              => Locks'
  <1> USE DEF Inv
  <1>1. UNCHANGED <<port, sigs, fpc, fmsg, d2, a0, queue>> => HandlerType'
    BY DEF HandlerType
  <1>2. UNCHANGED <<unsent, replied, status>> => PacketType'
    BY DEF PacketType
  <1>3. UNCHANGED <<unit_pipe, tpc, cur, held, waitingrecords, vpc, vrec>> => ThreadType'
    BY DEF ThreadType
  <1>4. UNCHANGED <<cmds_sent, cmds_acked, cmds_complete, requested, signalling, ipc, rpc>>
          => ServerType'
    BY DEF ServerType
  <1>5. /\ UNCHANGED <<port, cmds_sent, cmds_acked, cmds_complete>>
        /\ fpc' = "dummy" <=> fpc = "dummy"
        /\ ipc' = "ack" => ipc = "ack"
        => DummyInv'
    BY DEF DummyInv
  <1>6. /\ UNCHANGED <<port, queue, unsent, replied, status, fmsg>>
        /\ fpc' = fpc \/ {fpc, fpc'} \cap {"packet", "enqueue"} = {}
        => Places'
    BY DEF Places, Fresh
  <1>7. /\ UNCHANGED <<status, unit_pipe>> /\ (rpc' = "up" => rpc = "up")
        /\ \A m \in Msgs : Touched(m)' => Touched(m)
        => Started'
    BY DEF Started, Begun
  <1>8. UNCHANGED <<replied, status, d5>> => Counted'
    <2>1. UNCHANGED <<replied, status>> => Out' = Out
      BY DEF Out, Begun
    <2> QED  BY <2>1 DEF Counted
  <1>9. /\ UNCHANGED <<locks, owned, given, back_pipe, locklist, unit_pipe>>
        /\ rpc' = "up" => rpc = "up"
        /\ \/ tpc' = tpc
           \/ {tpc, tpc'} \subseteq {"handle", "unlink", "release"}
           \/ {tpc, tpc'} \subseteq {"count", "request", "back"}
        => Locks'
    BY DEF Locks, LocksConserved
  <1> QED  BY <1>1, <1>2, <1>3, <1>4, <1>5, <1>6, <1>7, <1>8, <1>9

(* A packet that has been started is marked. *)
LEMMA MarkKeeps ==
    ASSUME Inv, NEW m \in Msgs, Begun(m), NEW x \in {"done", "timeout"},
           status' = [status EXCEPT ![m] = x],
           UNCHANGED <<unsent, replied, port, queue, fpc, fmsg, d5>>
    PROVE  /\ PacketType' /\ Places' /\ Counted'
           /\ \A q \in Msgs : status'[q] = IF q = m THEN x ELSE status[q]
           /\ \A q \in Msgs : Begun(q)' <=> Begun(q)
  <1> USE DEF Inv
  <1>1. PacketType' /\ \A q \in Msgs : status'[q] = IF q = m THEN x ELSE status[q]
    BY DEF PacketType, Marks
  <1>2. \A q \in Msgs : Begun(q)' <=> Begun(q)
    BY <1>1 DEF Begun
  <1>3. Counted'
    <2>1. Out' = Out
      BY <1>2 DEF Out
    <2> QED  BY <2>1 DEF Counted
  <1>4. Places'
    <2>1. ~Fresh(m)
      BY DEF Places, Begun
    <2>2. \A q \in Msgs : Fresh(q)' <=> Fresh(q)
      BY DEF Fresh
    <2>3. fpc = "enqueue" => fmsg \in Msgs
      BY DEF HandlerType
    <2> QED  BY <1>1, <2>1, <2>2, <2>3 DEF Places
  <1> QED  BY <1>1, <1>2, <1>3, <1>4

----------------------------------------------------------------------------
(* DOS and the handler task. *)

LEMMA SendKeeps ==
    ASSUME Inv, NEW m \in Msgs, Send(m)
    PROVE  Inv'
  <1> USE DEF Inv
  <1>1. /\ m \in unsent /\ port' = Append(port, m) /\ sigs' = sigs \cup {"port"}
        /\ unsent' = unsent \ {m} /\ m # Dummy
        /\ UNCHANGED <<handler, thread, server, vsync, status, locks, unit_pipe, back_pipe,
                       waitingrecords, cmds_complete, requested, signalling, rpc>>
    BY Constants DEF Send, PutMsg
  <1>2. /\ port' \in Seq(Msgs \cup {Dummy}) /\ Range(port') = Range(port) \cup {m} /\ NoDup(port')
        /\ m \notin Range(port)
    <2>1. m \notin Range(port) /\ NoDup(port) /\ m \in Msgs \cup {Dummy}
      BY <1>1 DEF Places
    <2> QED  BY <1>1, <2>1, RangeAppend DEF HandlerType
  <1> USE <1>1 DEF handler, thread, server, vsync
  <1>3. HandlerType' /\ PacketType'
    BY <1>2 DEF HandlerType, PacketType
  <1>4. DummyInv'
    BY <1>2 DEF DummyInv
  <1>5. Places'
    <2>1. \A q \in Msgs : Fresh(q)' <=> Fresh(q)
      BY <1>2 DEF Fresh
    <2>2. fpc = "packet" => fmsg # m
      BY DEF Places
    <2> QED  BY <1>2, <2>1, <2>2 DEF Places
  <1>6. \A q \in Msgs : Touched(q)' => Touched(q)
    BY DEF Touched
  <1> QED  BY <1>3, <1>4, <1>5, <1>6, Frame

LEMMA GetMsgKeeps ==
    ASSUME Inv, GetMsg
    PROVE  Inv'
  <1> USE DEF Inv
  <1>1. /\ fpc = "get"
        /\ UNCHANGED <<client, thread, server, vsync, replied, d2, a0, queue, d5, owned, status, sigs,
                       locks, unit_pipe, back_pipe, waitingrecords, cmds_complete, requested,
                       signalling, rpc>>
    BY DEF GetMsg
  <1> USE <1>1 DEF client, thread, server, vsync
  <1>2. PacketType' /\ ThreadType' /\ ServerType' /\ Started' /\ Counted' /\ Locks'
    <2>1. \A q \in Msgs : Touched(q)' => Touched(q)
      BY DEF Touched
    <2> QED  BY <2>1, Frame
  <1>3. CASE port = <<>>
    <2>1. fpc' = "wait" /\ UNCHANGED <<port, fmsg>>
      BY <1>3 DEF GetMsg
    <2>2. HandlerType'
      BY <2>1 DEF HandlerType
    <2> QED  BY <1>2, <2>1, <2>2, Frame
  <1>4. CASE port # <<>>
    <2> DEFINE m == Head(port)
    <2>1. port' = Tail(port) /\ fmsg' = m /\ fpc' = IF m = Dummy THEN "dummy" ELSE "packet"
      BY <1>4 DEF GetMsg
    <2>2. /\ m \in Msgs \cup {Dummy} /\ port' \in Seq(Msgs \cup {Dummy})
          /\ Range(port) = Range(port') \cup {m} /\ NoDup(port') /\ m \notin Range(port')
      BY <1>4, <2>1, RangeTail DEF HandlerType, Places
    <2> HIDE DEF m
    <2>3. HandlerType'
      BY <2>1, <2>2 DEF HandlerType
    <2>4. DummyInv'
      BY <2>1, <2>2 DEF DummyInv
    <2>5. Places'
      <3>1. \A q \in Msgs : Fresh(q)' <=> Fresh(q)
        BY <2>1, <2>2, Constants DEF Fresh
      <3>2. m \notin unsent
        BY <2>2 DEF Places
      <3> QED  BY <2>1, <2>2, <3>1, <3>2 DEF Places
    <2> QED  BY <1>2, <2>3, <2>4, <2>5
  <1> QED  BY <1>3, <1>4

LEMMA WakeKeeps ==
    ASSUME Inv, Wake \/ Drained \/ ScanNext
    PROVE  Inv'
  <1> USE DEF Inv
  <1>1. /\ fpc \in {"wait", "drain", "scan"} /\ fpc' \in {"get", "scan"} /\ sigs' \in {sigs, {}}
        /\ d2' \in {"done", "timeout"} /\ a0' \in 1 .. Len(queue) + 1
        /\ UNCHANGED <<client, thread, server, vsync, replied, fmsg, queue, d5, owned, status, port,
                       locks, unit_pipe, back_pipe, waitingrecords, cmds_complete, requested,
                       signalling, rpc>>
    <2>1. Len(queue) \in Nat
      BY LenProperties DEF HandlerType
    <2>2. CASE Wake \/ Drained
      BY <2>1, <2>2 DEF Wake, Drained
    <2>3. CASE ScanNext
      BY <2>1, <2>3 DEF ScanNext, HandlerType
    <2> QED  BY <2>2, <2>3
  <1> USE <1>1 DEF client, thread, server, vsync
  <1>2. HandlerType'
    BY DEF HandlerType
  <1>3. \A q \in Msgs : Touched(q)' => Touched(q)
    BY DEF Touched
  <1> QED  BY <1>2, <1>3, Frame

LEMMA CompleteKeeps ==
    ASSUME Inv, Complete
    PROVE  Inv'
  <1> USE DEF Inv
  <1>1. /\ fpc = "dummy" /\ cmds_complete' = cmds_acked /\ fpc' = "drain" /\ ipc = "out"
        /\ UNCHANGED <<client, thread, server, vsync, replied, fmsg, d2, a0, queue, d5, owned, status,
                       port, sigs, locks, unit_pipe, back_pipe, waitingrecords, requested,
                       signalling, rpc>>
    BY DEF Complete, TasksRun
  <1> USE <1>1 DEF client, thread, server, vsync
  <1>2. HandlerType' /\ ServerType' /\ DummyInv'
    BY DEF HandlerType, ServerType, DummyInv
  <1>3. \A q \in Msgs : Touched(q)' => Touched(q)
    BY DEF Touched
  <1> QED  BY <1>2, <1>3, Frame

LEMMA DrainKeeps ==
    ASSUME Inv, Drain
    PROVE  Inv'
  <1> USE DEF Inv
  <1> DEFINE n == Head(back_pipe)
  <1>1. /\ back_pipe' = Tail(back_pipe) /\ locks' = locks + n /\ back_pipe # <<>>
        /\ UNCHANGED <<client, handler, thread, server, vsync, status, port, sigs, unit_pipe,
                       waitingrecords, cmds_complete, requested, signalling, rpc>>
    BY DEF Drain
  <1>2. /\ n \in 1 .. 3 /\ back_pipe' \in Seq(1 .. 3)
        /\ Cardinality(LocksIn(back_pipe)) = Cardinality(LocksIn(Tail(back_pipe))) + n
        /\ Cardinality(LocksIn(Tail(back_pipe))) \in Nat
    <2>1. n \in 1 .. 3 /\ Tail(back_pipe) \in Seq(1 .. 3)
      BY <1>1, HeadTailProperties DEF Locks
    <2> QED  BY <1>1, <2>1, LocksTail, LocksFinite, FS_CardinalityType DEF Locks
  <1> HIDE DEF n
  <1> USE <1>1 DEF client, handler, thread, server, vsync
  <1>3. Locks'
    <2>1. LocksConserved'
      <3> SUFFICES ASSUME rpc = "up"
                   PROVE  owned = locks + n + 2 * Len(unit_pipe) + locklist
                                  + Cardinality(LocksIn(Tail(back_pipe))) + given
        BY DEF LocksConserved
      <3>1. owned = locks + 2 * Len(unit_pipe) + locklist + Cardinality(LocksIn(back_pipe)) + given
        BY DEF Locks, LocksConserved
      <3>2. /\ locks \in Nat /\ n \in Nat /\ Len(unit_pipe) \in Nat /\ locklist \in Nat /\ given \in Nat
        BY <1>2, LenProperties DEF Locks, ThreadType
      <3> QED  BY <1>2, <3>1, <3>2
    <2> QED  BY <1>2, <2>1 DEF Locks
  <1>4. \A q \in Msgs : Touched(q)' => Touched(q)
    BY DEF Touched
  <1> QED  BY <1>3, <1>4, Frame

LEMMA ScanReplyKeeps ==
    ASSUME Inv, ScanReply
    PROVE  Inv'
  <1> USE DEF Inv
  <1> DEFINE m == queue[a0]
  <1>1. /\ fpc = "scan" /\ a0 <= Len(queue) /\ status[m] = d2 /\ replied' = replied \cup {m}
        /\ queue' = RemoveAt(queue, a0) /\ d5' = d5 - 1
        /\ UNCHANGED <<client, thread, server, vsync, fpc, fmsg, d2, a0, owned, status, port, sigs,
                       locks, unit_pipe, back_pipe, waitingrecords, cmds_complete, requested,
                       signalling, rpc>>
    BY DEF ScanReply
  <1>2. a0 \in 1 .. Len(queue) /\ m \in Msgs /\ m \in Range(queue) /\ Len(queue) \in Nat
    <2>1. a0 \in 1 .. Len(queue) /\ DOMAIN queue = 1 .. Len(queue) /\ Len(queue) \in Nat
      BY <1>1, LenProperties DEF HandlerType
    <2> QED  BY <2>1, ElementOfSeq DEF HandlerType, Range
  <1>3. m \notin replied /\ status[m] \in {"done", "timeout"}
    BY <1>1, <1>2 DEF Places, HandlerType
  <1>4. /\ queue' \in Seq(Msgs) /\ Len(queue') = Len(queue) - 1
        /\ Range(queue') = Range(queue) \ {m} /\ NoDup(queue')
    <2> HIDE DEF Inv
    <2>1. queue \in Seq(Msgs) /\ NoDup(queue)
      BY DEF Inv, HandlerType, Places
    <2> QED  BY <1>1, <1>2, <2>1, RangeRemove
  <1> HIDE DEF m
  <1> USE <1>1 DEF client, thread, server, vsync
  <1>5. HandlerType' /\ PacketType'
    BY <1>2, <1>4 DEF HandlerType, PacketType
  <1>6. Places'
    <2>1. \A q \in Msgs : Fresh(q)' <=> Fresh(q)
      BY DEF Fresh
    <2> QED  BY <1>3, <1>4, <2>1 DEF Places
  <1>7. Counted'
    <2>1. Out' = Out \ {m} /\ m \in Out
      BY <1>2, <1>3 DEF Out, Begun
    <2>2. IsFiniteSet(Out \ {m}) /\ Cardinality(Out \ {m}) = Cardinality(Out) - 1
      BY <2>1, FS_RemoveElement DEF Counted
    <2>3. Cardinality(Out) \in Nat
      BY FS_CardinalityType DEF Counted
    <2> QED  BY <2>1, <2>2, <2>3, Constants DEF Counted
  <1>8. DummyInv'
    BY DEF DummyInv
  <1>9. \A q \in Msgs : Touched(q)' => Touched(q)
    BY DEF Touched
  <1> QED  BY <1>5, <1>6, <1>7, <1>8, <1>9, Frame

(* Postponed packets are not counted. *)
LEMMA PostponeKeeps ==
    ASSUME Inv, Postpone
    PROVE  Inv'
  <1> USE DEF Inv
  <1>1. /\ fpc = "packet" /\ status' = [status EXCEPT ![fmsg] = "unstarted"] /\ fpc' = "enqueue"
        /\ UNCHANGED <<client, thread, server, vsync, replied, fmsg, d2, a0, queue, d5, owned, port,
                       sigs, locks, unit_pipe, back_pipe, waitingrecords, cmds_complete,
                       requested, signalling, rpc>>
    BY DEF Postpone
  <1>2. fmsg \in Msgs /\ Fresh(fmsg) /\ status[fmsg] = "none" /\ fmsg \notin unsent /\ fmsg \notin Range(port)
    BY <1>1 DEF HandlerType, Places, Fresh
  <1>3. \A q \in Msgs : status'[q] = IF q = fmsg THEN "unstarted" ELSE status[q]
    BY <1>1, <1>2 DEF PacketType
  <1> USE <1>1 DEF client, thread, server, vsync
  <1>4. HandlerType' /\ PacketType' /\ DummyInv'
    <2>1. HandlerType' /\ DummyInv'
      BY <1>2 DEF HandlerType, DummyInv
    <2> QED  BY <1>2, <2>1 DEF PacketType, Marks
  <1>5. Places'
    <2>1. \A q \in Msgs : Fresh(q)' <=> Fresh(q) /\ q # fmsg
      BY <1>2 DEF Fresh
    <2>2. fmsg \notin Range(queue) /\ fmsg \notin replied
      BY <1>2 DEF Places
    <2> QED  BY <1>2, <1>3, <2>1, <2>2 DEF Places
  <1>6. \A q \in Msgs : Begun(q)' <=> Begun(q)
    BY <1>2, <1>3 DEF Begun
  <1>7. Started'
    <2>1. \A q \in Msgs : Touched(q)' <=> Touched(q)
      BY DEF Touched
    <2> QED  BY <1>2, <1>3, <1>6, <2>1 DEF Started
  <1>8. Counted'
    <2>1. Out' = Out
      BY <1>6 DEF Out
    <2> QED  BY <2>1 DEF Counted
  <1> QED  BY <1>4, <1>5, <1>7, <1>8, Frame

LEMMA EnqueueKeeps ==
    ASSUME Inv, Enqueue
    PROVE  Inv'
  <1> USE DEF Inv
  <1>1. /\ fpc = "enqueue" /\ queue' = <<fmsg>> \o queue /\ fpc' = "get" /\ fmsg' = Dummy
        /\ UNCHANGED <<client, thread, server, vsync, replied, d2, a0, d5, owned, status, port,
                       sigs, locks, unit_pipe, back_pipe, waitingrecords, cmds_complete,
                       requested, signalling, rpc>>
    BY DEF Enqueue
  <1>2. fmsg \in Msgs /\ fmsg \notin Range(queue) /\ fmsg \notin replied /\ status[fmsg] # "none"
    BY <1>1 DEF HandlerType, Places
  <1>3. /\ queue' \in Seq(Msgs) /\ Len(queue') = Len(queue) + 1 /\ NoDup(queue')
        /\ Range(queue') = Range(queue) \cup {fmsg} /\ Len(queue) \in Nat
    BY <1>1, <1>2, RangeCons, LenProperties DEF HandlerType, Places
  <1> USE <1>1 DEF client, thread, server, vsync
  <1>4. HandlerType' /\ DummyInv'
    BY <1>3 DEF HandlerType, DummyInv
  <1>5. Places'
    <2>1. \A q \in Msgs : Fresh(q)' <=> Fresh(q)
      BY DEF Fresh
    <2> QED  BY <1>2, <1>3, <2>1 DEF Places
  <1>6. \A q \in Msgs : Touched(q)' => Touched(q)
    BY DEF Touched
  <1> QED  BY <1>4, <1>5, <1>6, Frame

(* A packet is started: it takes two locks, and there is room for it. *)
LEMMA StartKeeps ==
    ASSUME Inv, Start
    PROVE  Inv'
  <1> USE DEF Inv
  <1>1. /\ rpc = "up" /\ fpc = "packet" /\ d5 < Limit /\ fpc' = "enqueue" /\ d5' = d5 + 1
        /\ locks' = LockCheck(locks) - 2 /\ owned' = owned + LockCheck(locks) - locks
        /\ status' = [status EXCEPT ![fmsg] = "pending"] /\ unit_pipe' = Append(unit_pipe, fmsg)
        /\ UNCHANGED <<client, thread, server, vsync, replied, fmsg, d2, a0, queue, port, sigs,
                       back_pipe, waitingrecords, cmds_complete, requested, signalling, rpc>>
    BY DEF Start, TasksRun
  <1>2. fmsg \in Msgs /\ Fresh(fmsg) /\ status[fmsg] = "none" /\ fmsg \notin unsent /\ fmsg \notin Range(port)
    BY <1>1 DEF HandlerType, Places, Fresh
  <1>3. \A q \in Msgs : status'[q] = IF q = fmsg THEN "pending" ELSE status[q]
    BY <1>1, <1>2 DEF PacketType
  <1>4. ~Begun(fmsg) /\ ~Touched(fmsg) /\ fmsg \notin Range(unit_pipe)
    BY <1>2 DEF Begun, Started
  <1>5. /\ unit_pipe' \in Seq(Msgs \cup {Death}) /\ Len(unit_pipe') = Len(unit_pipe) + 1
        /\ Range(unit_pipe') = Range(unit_pipe) \cup {fmsg} /\ NoDup(unit_pipe')
        /\ Len(unit_pipe) \in Nat
    BY <1>1, <1>2, <1>4, RangeAppend, LenProperties DEF ThreadType, Started
  <1> USE <1>1 DEF client, thread, server, vsync
  <1>6. HandlerType' /\ PacketType' /\ DummyInv' /\ ThreadType'
    <2>1. HandlerType' /\ DummyInv' /\ ThreadType'
      BY <1>2, <1>5 DEF HandlerType, DummyInv, ThreadType
    <2> QED  BY <1>2, <2>1 DEF PacketType, Marks
  <1>7. Places'
    <2>1. \A q \in Msgs : Fresh(q)' <=> Fresh(q) /\ q # fmsg
      BY <1>2 DEF Fresh
    <2>2. fmsg \notin Range(queue) /\ fmsg \notin replied
      BY <1>2 DEF Places
    <2> QED  BY <1>2, <1>3, <2>1, <2>2 DEF Places
  <1>8. \A q \in Msgs : Begun(q)' <=> Begun(q) \/ q = fmsg
    BY <1>2, <1>3 DEF Begun
  <1>9. Started'
    <2>1. \A q \in Msgs : Touched(q)' <=> Touched(q)
      BY DEF Touched
    <2>2. fmsg # Death
      BY <1>2, Constants
    <2> QED  BY <1>2, <1>3, <1>4, <1>5, <1>8, <2>1, <2>2 DEF Started
  <1>10. Counted'
    <2>1. fmsg \notin replied
      BY <1>2 DEF Places
    <2>2. Out' = Out \cup {fmsg} /\ fmsg \notin Out
      BY <1>2, <1>4, <1>8, <2>1 DEF Out
    <2>3. IsFiniteSet(Out \cup {fmsg}) /\ Cardinality(Out \cup {fmsg}) = Cardinality(Out) + 1
      BY <2>2, FS_AddElement DEF Counted
    <2>4. Cardinality(Out) \in Nat
      BY FS_CardinalityType DEF Counted
    <2> QED  BY <2>2, <2>3, <2>4, Constants DEF Counted
  <1>11. Locks'
    <2>1. /\ locks \in Nat /\ owned \in Nat /\ given \in Nat /\ locklist \in Nat
          /\ Cardinality(LocksIn(back_pipe)) \in Nat
      BY LocksFinite, FS_CardinalityType DEF Locks
    <2>2. owned = locks + 2 * Len(unit_pipe) + locklist + Cardinality(LocksIn(back_pipe)) + given
      BY DEF Locks, LocksConserved
    <2>3. LockCheck(locks) \in Nat /\ LockCheck(locks) >= 3
      BY <2>1 DEF LockCheck
    <2> DEFINE k == LockCheck(locks)
               c == Cardinality(LocksIn(back_pipe))
               n == Len(unit_pipe)
    <2>4. locks' = k - 2 /\ owned' = owned + k - locks /\ Len(unit_pipe') = n + 1 /\ n \in Nat
      BY <1>5
    <2>5. /\ owned = locks + 2 * n + locklist + c + given
          /\ k \in Nat /\ k >= 3 /\ c \in Nat
      BY <2>1, <2>2, <2>3
    <2> HIDE DEF k, c, n
    <2>6. owned' = locks' + 2 * (n + 1) + locklist + c + given
      <3>1. \A o, l, g, b \in Nat : o = l + 2 * n + b + c + g =>
                o + k - l = k - 2 + 2 * (n + 1) + b + c + g
        BY <2>4, <2>5
      <3>2. owned + k - locks = k - 2 + 2 * (n + 1) + locklist + c + given
        <4>1. c \in Nat /\ owned = locks + 2 * n + locklist + c + given
          BY <2>5
        <4> QED  BY <2>1, <3>1, <4>1
      <3> QED  BY <2>4, <3>2
    <2>7. locks' \in Nat /\ owned' \in Nat
      BY <2>1, <2>4, <2>5
    <2>8. owned' = locks' + 2 * Len(unit_pipe') + locklist + Cardinality(LocksIn(back_pipe)) + given
      BY <2>4, <2>6 DEF c
    <2> QED  BY <2>7, <2>8 DEF Locks, LocksConserved
  <1> QED  BY <1>6, <1>7, <1>9, <1>10, <1>11, Frame

----------------------------------------------------------------------------
(* The host thread. *)

(* What the thread reads from its pipe. *)
LEMMA Reads ==
    ASSUME Inv, unit_pipe # <<>>, unit_pipe' = Tail(unit_pipe)
    PROVE  /\ Head(unit_pipe) \in Msgs \cup {Death} /\ unit_pipe' \in Seq(Msgs \cup {Death})
           /\ Range(unit_pipe) = Range(unit_pipe') \cup {Head(unit_pipe)} /\ NoDup(unit_pipe')
           /\ Head(unit_pipe) \notin Range(unit_pipe')
           /\ Len(unit_pipe) \in Nat /\ Len(unit_pipe') = Len(unit_pipe) - 1
  BY RangeTail DEF Inv, ThreadType, Started

LEMMA TakeKeeps ==
    ASSUME Inv, Take
    PROVE  Inv'
  <1> USE DEF Inv
  <1> DEFINE m == Head(unit_pipe)
  <1>1. /\ tpc = "read" /\ unit_pipe # <<>> /\ rpc = "up" /\ unit_pipe' = Tail(unit_pipe)
        /\ cur' = m /\ locklist' = locklist + 2 /\ tpc' = "handle"
        /\ UNCHANGED <<client, handler, server, vsync, held, given, cmds_sent, status, port, sigs,
                       locks, back_pipe, waitingrecords, cmds_complete, requested, signalling, rpc>>
    BY DEF Take
  <1>2. /\ m \in Msgs /\ unit_pipe' \in Seq(Msgs \cup {Death}) /\ m \notin Range(unit_pipe')
        /\ Range(unit_pipe) = Range(unit_pipe') \cup {m} /\ NoDup(unit_pipe')
        /\ Len(unit_pipe) \in Nat /\ Len(unit_pipe') = Len(unit_pipe) - 1
    <2>1. Death \notin Range(unit_pipe)
      BY <1>1 DEF Started
    <2> QED  BY <1>1, <2>1, Reads
  <1> HIDE DEF m
  <1> USE <1>1 DEF client, handler, server, vsync
  <1>3. ThreadType' /\ DummyInv'
    BY <1>2 DEF ThreadType, DummyInv
  <1>4. Started'
    <2>1. \A q \in Msgs : Touched(q)' <=> Touched(q) \/ q = m
      BY DEF Touched
    <2> QED  BY <1>2, <2>1 DEF Started, Begun
  <1>5. Locks'
    <2>1. locklist = 0 /\ 2 * Len(unit_pipe) = 2 * (Len(unit_pipe) - 1) + 2
      BY <1>2 DEF Locks
    <2>2. 2 * Len(unit_pipe) = 2 * Len(unit_pipe') + 2 /\ 2 * Len(unit_pipe') \in Nat
          /\ Cardinality(LocksIn(back_pipe)) \in Nat
      <3>1. 2 * Len(unit_pipe') \in Nat
        BY <1>2, LenProperties
      <3> QED  BY <1>2, <2>1, <3>1, LocksFinite, FS_CardinalityType DEF Locks
    <2>3. locklist' = 2
      BY <2>1
    <2>4. LocksConserved'
      BY <2>1, <2>2, <2>3 DEF Locks, LocksConserved
    <2> QED  BY <2>3, <2>4 DEF Locks
  <1> QED  BY <1>3, <1>4, <1>5, Frame

LEMMA TakeDownKeeps ==
    ASSUME Inv, TakeDown
    PROVE  Inv'
  <1> USE DEF Inv
  <1>1. /\ tpc = "read" /\ unit_pipe # <<>> /\ rpc = "down" /\ unit_pipe' = Tail(unit_pipe)
        /\ tpc' \in {"read", "dead"} /\ rpc' \in {"down", "reset"}
        /\ UNCHANGED <<client, handler, server, vsync, cur, locklist, held, given, cmds_sent, status,
                       port, sigs, locks, back_pipe, waitingrecords, cmds_complete, requested,
                       signalling>>
    BY DEF TakeDown
  <1>2. /\ unit_pipe' \in Seq(Msgs \cup {Death}) /\ Range(unit_pipe') \subseteq Range(unit_pipe)
        /\ NoDup(unit_pipe')
    BY <1>1, Reads
  <1> USE <1>1 DEF client, handler, server, vsync
  <1>3. ThreadType' /\ ServerType' /\ Locks'
    BY <1>2 DEF ThreadType, ServerType, Locks, LocksConserved
  <1>4. Started'
    <2>1. \A q \in Msgs : Touched(q)' <=> Touched(q)
      BY DEF Touched
    <2> QED  BY <1>2, <2>1 DEF Started, Begun
  <1> QED  BY <1>3, <1>4, Frame

LEMMA HandleKeeps ==
    ASSUME Inv, NEW n \in LockChanges, Handle(n)
    PROVE  Inv'
  <1> USE DEF Inv
  <1>1. /\ tpc = "handle" /\ given + n >= 0 /\ given' = given + n /\ locklist' = locklist - n
        /\ status' = [status EXCEPT ![cur] = "done"] /\ tpc' = "count" /\ cur' = Death
        /\ UNCHANGED <<client, handler, server, vsync, held, cmds_sent, port, sigs, locks,
                       unit_pipe, back_pipe, waitingrecords, cmds_complete, requested,
                       signalling, rpc>>
    BY DEF Handle
  <1>2. cur \in Msgs /\ Touched(cur) /\ Begun(cur)
    BY <1>1 DEF ThreadType, Touched, Started
  <1> USE <1>1 DEF client, handler, server, vsync
  <1>3. /\ PacketType' /\ Places' /\ Counted'
        /\ \A q \in Msgs : status'[q] = IF q = cur THEN "done" ELSE status[q]
        /\ \A q \in Msgs : Begun(q)' <=> Begun(q)
    BY <1>2, MarkKeeps
  <1>4. ThreadType'
    BY DEF ThreadType
  <1>5. Started'
    <2>1. \A q \in Msgs : Touched(q)' => Touched(q)
      BY DEF Touched
    <2> QED  BY <1>2, <1>3, <2>1 DEF Started
  <1>6. Locks'
    <2>1. n \in -1 .. 1 /\ locklist = 2 /\ given \in Nat
      BY Constants DEF Locks
    <2>2. given' \in Nat /\ locklist' \in 1 .. 3 /\ locklist' + given' = locklist + given
      BY <2>1
    <2>3. LocksConserved'
      <3>1. /\ locks \in Nat /\ 2 * Len(unit_pipe) \in Nat /\ Cardinality(LocksIn(back_pipe)) \in Nat
        <4>1. Len(unit_pipe) \in Nat
          BY LenProperties DEF ThreadType
        <4> QED  BY <4>1, LocksFinite, FS_CardinalityType DEF Locks
      <3> QED  BY <2>1, <2>2, <3>1 DEF Locks, LocksConserved
    <2> QED  BY <2>2, <2>3 DEF Locks
  <1> QED  BY <1>3, <1>4, <1>5, <1>6, Frame

LEMMA ParkKeeps ==
    ASSUME Inv, Park
    PROVE  Inv'
  <1> USE DEF Inv
  <1>1. /\ tpc = "handle" /\ waitingrecords' = waitingrecords \cup {cur} /\ tpc' = "count"
        /\ cur' = Death
        /\ UNCHANGED <<client, handler, server, vsync, locklist, held, given, cmds_sent, status,
                       port, sigs, locks, unit_pipe, back_pipe, cmds_complete, requested,
                       signalling, rpc>>
    BY DEF Park
  <1> USE <1>1 DEF client, handler, server, vsync
  <1>2. ThreadType' /\ Locks'
    BY DEF ThreadType, Locks, LocksConserved
  <1>3. \A q \in Msgs : Touched(q)' => Touched(q)
    BY DEF Touched
  <1> QED  BY <1>2, <1>3, Frame

LEMMA FindKeeps ==
    ASSUME Inv, NEW m \in Msgs, Find(m)
    PROVE  Inv'
  <1> USE DEF Inv
  <1>1. /\ tpc = "handle" /\ m \in waitingrecords /\ held' = m /\ tpc' = "unlink"
        /\ UNCHANGED <<client, handler, server, vsync, cur, locklist, given, cmds_sent, status, port,
                       sigs, locks, unit_pipe, back_pipe, waitingrecords, cmds_complete, requested,
                       signalling, rpc>>
    BY DEF Find
  <1> USE <1>1 DEF client, handler, server, vsync
  <1>2. ThreadType'
    BY DEF ThreadType
  <1>3. \A q \in Msgs : Touched(q)' => Touched(q)
    BY DEF Touched
  <1> QED  BY <1>2, <1>3, Frame

LEMMA UnlinkKeeps ==
    ASSUME Inv, Unlink
    PROVE  Inv'
  <1> USE DEF Inv
  <1>1. /\ tpc = "unlink" /\ waitingrecords' = waitingrecords \ {held} /\ tpc' = "release"
        /\ UNCHANGED <<client, handler, server, vsync, cur, locklist, held, given, cmds_sent, status,
                       port, sigs, locks, unit_pipe, back_pipe, cmds_complete, requested,
                       signalling, rpc>>
    BY DEF Unlink
  <1> USE <1>1 DEF client, handler, server, vsync
  <1>2. ThreadType'
    BY DEF ThreadType
  <1>3. \A q \in Msgs : Touched(q)' => Touched(q)
    BY DEF Touched
  <1> QED  BY <1>2, <1>3, Frame

LEMMA ReleaseKeeps ==
    ASSUME Inv, Release
    PROVE  Inv'
  <1> USE DEF Inv
  <1>1. /\ tpc = "release" /\ status' = [status EXCEPT ![held] = "done"] /\ tpc' = "handle"
        /\ held' = Death
        /\ UNCHANGED <<client, handler, server, vsync, cur, locklist, given, cmds_sent, port,
                       sigs, locks, unit_pipe, back_pipe, waitingrecords, cmds_complete, requested,
                       signalling, rpc>>
    BY DEF Release
  <1>2. held \in Msgs /\ Touched(held) /\ Begun(held)
    BY <1>1 DEF ThreadType, Touched, Started
  <1> USE <1>1 DEF client, handler, server, vsync
  <1>3. /\ PacketType' /\ Places' /\ Counted'
        /\ \A q \in Msgs : status'[q] = IF q = held THEN "done" ELSE status[q]
        /\ \A q \in Msgs : Begun(q)' <=> Begun(q)
    BY <1>2, MarkKeeps
  <1>4. ThreadType'
    BY DEF ThreadType
  <1>5. Started'
    <2>1. \A q \in Msgs : Touched(q)' => Touched(q)
      BY DEF Touched
    <2> QED  BY <1>2, <1>3, <2>1 DEF Started
  <1> QED  BY <1>3, <1>4, <1>5, Frame

LEMMA CountKeeps ==
    ASSUME Inv, CountSent \/ RequestInterrupt
    PROVE  Inv'
  <1> USE DEF Inv
  <1>1. /\ tpc \in {"count", "request"} /\ tpc' \in {"request", "back"}
        /\ cmds_sent' \in {cmds_sent, cmds_sent + 1} /\ requested' \in {requested, TRUE}
        /\ UNCHANGED <<client, handler, server, vsync, cur, locklist, held, given, status, port, sigs,
                       locks, unit_pipe, back_pipe, waitingrecords, cmds_complete, signalling, rpc>>
    BY DEF CountSent, RequestInterrupt
  <1> USE <1>1 DEF client, handler, server, vsync
  <1>2. ThreadType' /\ ServerType'
    <2>1. requested' \in BOOLEAN
      BY DEF ServerType
    <2>2. cmds_sent' \in Nat
      BY DEF ServerType
    <2>3. ThreadType'
      BY DEF ThreadType
    <2> QED  BY <2>1, <2>2, <2>3 DEF ServerType
  <1>3. DummyInv'
    BY DEF DummyInv, ServerType
  <1>4. \A q \in Msgs : Touched(q)' => Touched(q)
    BY DEF Touched
  <1> QED  BY <1>2, <1>3, <1>4, Frame

LEMMA SendBackKeeps ==
    ASSUME Inv, SendBack
    PROVE  Inv'
  <1> USE DEF Inv
  <1>1. /\ tpc = "back" /\ locklist' = 0 /\ tpc' = "read"
        /\ back_pipe' = IF locklist > 0 THEN Append(back_pipe, locklist) ELSE back_pipe
        /\ UNCHANGED <<client, handler, server, vsync, cur, held, given, cmds_sent, status, port, sigs,
                       locks, unit_pipe, waitingrecords, cmds_complete, requested, signalling, rpc>>
    BY DEF SendBack
  <1> USE <1>1 DEF client, handler, server, vsync
  <1>2. ThreadType'
    BY DEF ThreadType
  <1>3. Locks'
    <2>1. locklist \in 1 .. 3 /\ back_pipe' = Append(back_pipe, locklist)
      BY DEF Locks
    <2>2. back_pipe' \in Seq(1 .. 3)
      BY <2>1, AppendProperties DEF Locks
    <2>3. /\ Cardinality(LocksIn(back_pipe')) = Cardinality(LocksIn(back_pipe)) + locklist
          /\ Cardinality(LocksIn(back_pipe)) \in Nat
      BY <2>1, LocksAppend, LocksFinite, FS_CardinalityType DEF Locks
    <2>4. LocksConserved'
      <3>1. locks \in Nat /\ given \in Nat /\ 2 * Len(unit_pipe) \in Nat
        <4>1. Len(unit_pipe) \in Nat
          BY LenProperties DEF ThreadType
        <4> QED  BY <4>1 DEF Locks
      <3> QED  BY <2>1, <2>3, <3>1 DEF Locks, LocksConserved
    <2> QED  BY <2>2, <2>4 DEF Locks
  <1>4. \A q \in Msgs : Touched(q)' => Touched(q)
    BY DEF Touched
  <1> QED  BY <1>2, <1>3, <1>4, Frame

----------------------------------------------------------------------------
(* The interrupt server, the vertical blank and the reset. *)

LEMMA ServeKeeps ==
    ASSUME Inv, Interrupt \/ ServeSignal \/ FindUnit \/ EndInterrupt
    PROVE  Inv'
  <1> USE DEF Inv
  <1>1. /\ requested' \in {requested, FALSE} /\ ipc' \in {ipc, "serve", "ack", "out"}
        /\ signalling' \in {signalling, FALSE} /\ sigs' \in {sigs, sigs \cup {"D"}}
        /\ ipc' = "ack" => cmds_acked = cmds_complete /\ cmds_acked # cmds_sent
        /\ UNCHANGED <<client, handler, thread, vsync, cmds_acked, status, port, locks, unit_pipe,
                       back_pipe, waitingrecords, cmds_complete, rpc>>
    <2>1. ipc = "ack" => cmds_acked = cmds_complete /\ cmds_acked # cmds_sent
      BY DEF DummyInv
    <2> QED  BY <2>1 DEF Interrupt, ServeSignal, FindUnit, EndInterrupt, WantsDummy, server
  <1> USE <1>1 DEF client, handler, thread, vsync
  <1>2. HandlerType' /\ DummyInv'
    BY DEF HandlerType, DummyInv
  <1>3. ServerType'
    <2>1. requested' \in BOOLEAN
      BY DEF ServerType
    <2>2. signalling' \in BOOLEAN
      BY DEF ServerType
    <2> QED  BY <2>1, <2>2 DEF ServerType
  <1>4. \A q \in Msgs : Touched(q)' => Touched(q)
    BY DEF Touched
  <1> QED  BY <1>2, <1>3, <1>4, Frame

LEMMA SendDummyKeeps ==
    ASSUME Inv, SendDummy
    PROVE  Inv'
  <1> USE DEF Inv
  <1>1. /\ ipc = "ack" /\ cmds_acked' = cmds_sent /\ ipc' = "served"
        /\ port' = Append(port, Dummy) /\ sigs' = sigs \cup {"port"}
        /\ UNCHANGED <<client, handler, thread, vsync, status, locks, unit_pipe, back_pipe,
                       waitingrecords, cmds_complete, requested, signalling, rpc>>
    BY DEF SendDummy, PutMsg
  <1>2. Dummy \notin Range(port) /\ fpc # "dummy" /\ cmds_complete # cmds_sent
    BY <1>1 DEF DummyInv
  <1>3. /\ port' \in Seq(Msgs \cup {Dummy}) /\ Range(port') = Range(port) \cup {Dummy} /\ NoDup(port')
    <2>1. NoDup(port) /\ port \in Seq(Msgs \cup {Dummy})
      BY DEF Places, HandlerType
    <2> QED  BY <1>1, <1>2, <2>1, RangeAppend
  <1> USE <1>1 DEF client, handler, thread, vsync
  <1>4. HandlerType' /\ ServerType' /\ DummyInv'
    BY <1>2, <1>3 DEF HandlerType, ServerType, DummyInv
  <1>5. Places'
    <2>1. Dummy \notin unsent /\ (fpc = "packet" => fmsg # Dummy)
      BY Constants DEF PacketType, HandlerType
    <2>2. \A q \in Msgs : Fresh(q)' <=> Fresh(q)
      BY <1>3, Constants DEF Fresh
    <2> QED  BY <1>3, <2>1, <2>2 DEF Places
  <1>6. \A q \in Msgs : Touched(q)' => Touched(q)
    BY DEF Touched
  <1> QED  BY <1>4, <1>5, <1>6, Frame

LEMMA TimeUpKeeps ==
    ASSUME Inv, NEW m \in Msgs, TimeUp(m)
    PROVE  Inv'
  <1> USE DEF Inv
  <1>1. /\ m \in waitingrecords /\ vpc' = "mark" /\ vrec' = m
        /\ UNCHANGED <<client, handler, thread, server, status, port, sigs, locks, unit_pipe,
                       back_pipe, waitingrecords, cmds_complete, requested, signalling, rpc>>
    BY DEF TimeUp
  <1> USE <1>1 DEF client, handler, thread, server
  <1>2. ThreadType'
    BY DEF ThreadType
  <1>3. \A q \in Msgs : Touched(q)' => Touched(q)
    BY DEF Touched
  <1> QED  BY <1>2, <1>3, Frame

LEMMA MarkTimeoutKeeps ==
    ASSUME Inv, MarkTimeout
    PROVE  Inv'
  <1> USE DEF Inv
  <1>1. /\ vpc = "mark" /\ status' = [status EXCEPT ![vrec] = "timeout"] /\ signalling' = TRUE
        /\ requested' = TRUE /\ vpc' = "unlink"
        /\ UNCHANGED <<client, handler, thread, server, vrec, port, sigs, locks, unit_pipe, back_pipe,
                       waitingrecords, cmds_complete, rpc>>
    BY DEF MarkTimeout
  <1>2. vrec \in Msgs /\ Touched(vrec) /\ Begun(vrec)
    BY <1>1 DEF ThreadType, Touched, Started
  <1> USE <1>1 DEF client, handler, thread, server
  <1>3. /\ PacketType' /\ Places' /\ Counted'
        /\ \A q \in Msgs : status'[q] = IF q = vrec THEN "timeout" ELSE status[q]
        /\ \A q \in Msgs : Begun(q)' <=> Begun(q)
    BY <1>2, MarkKeeps
  <1>4. ThreadType' /\ ServerType'
    BY DEF ThreadType, ServerType
  <1>5. Started'
    <2>1. \A q \in Msgs : Touched(q)' => Touched(q)
      BY DEF Touched
    <2> QED  BY <1>2, <1>3, <2>1 DEF Started
  <1>6. DummyInv'
    BY DEF DummyInv
  <1> QED  BY <1>3, <1>4, <1>5, <1>6, Frame

LEMMA DropTimeoutKeeps ==
    ASSUME Inv, DropTimeout
    PROVE  Inv'
  <1> USE DEF Inv
  <1>1. /\ vpc = "unlink" /\ waitingrecords' = waitingrecords \ {vrec} /\ vpc' = "out" /\ vrec' = Death
        /\ UNCHANGED <<client, handler, thread, server, status, port, sigs, locks, unit_pipe,
                       back_pipe, cmds_complete, requested, signalling, rpc>>
    BY DEF DropTimeout
  <1> USE <1>1 DEF client, handler, thread, server
  <1>2. ThreadType'
    BY DEF ThreadType
  <1>3. \A q \in Msgs : Touched(q)' => Touched(q)
    BY DEF Touched
  <1> QED  BY <1>2, <1>3, Frame

LEMMA ResetKeeps ==
    ASSUME Inv, Reset
    PROVE  Inv'
  <1> USE DEF Inv
  <1>1. /\ rpc = "up" /\ unit_pipe' = Append(unit_pipe, Death) /\ rpc' = "down"
        /\ UNCHANGED <<client, handler, thread, server, vsync, status, port, sigs, locks, back_pipe,
                       waitingrecords, cmds_complete, requested, signalling>>
    BY DEF Reset
  <1>2. /\ unit_pipe' \in Seq(Msgs \cup {Death}) /\ NoDup(unit_pipe')
        /\ Range(unit_pipe') = Range(unit_pipe) \cup {Death}
    BY <1>1, RangeAppend DEF ThreadType, Started
  <1> USE <1>1 DEF client, handler, thread, server, vsync
  <1>3. ThreadType' /\ ServerType' /\ Locks'
    BY <1>2 DEF ThreadType, ServerType, Locks, LocksConserved
  <1>4. Started'
    <2>1. \A q \in Msgs : Touched(q)' <=> Touched(q)
      BY DEF Touched
    <2> QED  BY <1>2, <2>1, Constants DEF Started, Begun
  <1> QED  BY <1>3, <1>4, Frame

----------------------------------------------------------------------------
(* The theorems. *)

LEMMA InitInv == UnitInit => Inv
  <1> SUFFICES ASSUME UnitInit
               PROVE  Inv
    OBVIOUS
  <1> USE DEF UnitInit
  <1>1. Range(port) = {} /\ Range(queue) = {} /\ Range(unit_pipe) = {} /\ NoDup(<<>>) /\ Len(<<>>) = 0
    BY SeqRange
  <1>2. HandlerType /\ ThreadType /\ ServerType
    <2>1. HandlerType
      BY <1>1, EmptySeq DEF HandlerType
    <2>2. ThreadType
      BY EmptySeq DEF ThreadType
    <2> QED  BY <2>1, <2>2 DEF ServerType
  <1>3. PacketType
    BY DEF PacketType, Marks
  <1>4. DummyInv /\ Places
    BY <1>1 DEF DummyInv, Places, Fresh
  <1>5. Started
    BY <1>1 DEF Started, Touched
  <1>6. Counted
    <2>1. Out = {}
      BY DEF Out, Begun
    <2> QED  BY <2>1, FS_EmptySet, Constants DEF Counted
  <1>7. Locks
    <2>1. back_pipe \in Seq(1 .. 3)
      BY EmptySeq
    <2>2. OldLocks \in Nat
      BY UnitAssumption
    <2>3. LocksConserved
      BY <1>1, <2>2, LocksEmpty DEF LocksConserved
    <2> QED  BY <2>1, <2>2, <2>3 DEF Locks
  <1> QED  BY <1>2, <1>3, <1>4, <1>5, <1>6, <1>7 DEF Inv

LEMMA NextInv ==
    ASSUME Inv, [UnitNext]_vars
    PROVE  Inv'
  <1>1. CASE HandlerStep
    BY <1>1, GetMsgKeeps, WakeKeeps, CompleteKeeps, DrainKeeps, ScanReplyKeeps, StartKeeps,
       PostponeKeeps, EnqueueKeeps DEF HandlerStep
  <1>2. CASE ThreadStep
    BY <1>2, TakeKeeps, TakeDownKeeps, HandleKeeps, ParkKeeps, FindKeeps, UnlinkKeeps, ReleaseKeeps,
       CountKeeps, SendBackKeeps DEF ThreadStep
  <1>3. CASE ServerStep
    BY <1>3, ServeKeeps, SendDummyKeeps DEF ServerStep
  <1>4. CASE VSyncStep
    BY <1>4, TimeUpKeeps, MarkTimeoutKeeps, DropTimeoutKeeps DEF VSyncStep
  <1>5. ASSUME NEW m \in Msgs, Send(m)
        PROVE  Inv'
    BY <1>5, SendKeeps
  <1>6. CASE Reset
    BY <1>6, ResetKeeps
  <1>7. CASE Quiet \/ UNCHANGED vars
    <2> USE <1>7 DEF Quiet, vars, client, handler, thread, server, vsync
    <2>1. \A q \in Msgs : Touched(q)' => Touched(q)
      BY DEF Touched
    <2> QED  BY <2>1, Frame DEF Inv
  <1> QED  BY <1>1, <1>2, <1>3, <1>4, <1>5, <1>6, <1>7 DEF UnitNext

(* The inductive invariant of a unit, for any number of packets and any sizes of the pipes. *)
THEOREM UnitInvariant == UnitSpec => []Inv
  BY InitInv, NextInv, PTL DEF UnitSpec

(* Every variable keeps its type; no more packets are outstanding than the limit allows, and what
   goes back to the handler in one word is one lock structure to three (filesys.asm, FSML_loop;
   filesys.cpp, filesys_iteration). *)
THEOREM UnitTyping == UnitSpec => []TypeOK
  <1>1. ASSUME Inv
        PROVE  TypeOK
    <2>1. d5 \in 0 .. Limit
      BY <1>1, FS_CardinalityType, Constants DEF Inv, Counted
    <2>2. requested \in BOOLEAN
      BY <1>1 DEF Inv, ServerType
    <2>3. signalling \in BOOLEAN
      BY <1>1 DEF Inv, ServerType
    <2> QED  BY <1>1, <2>1, <2>2, <2>3 DEF Inv, TypeOK, HandlerType, PacketType, ThreadType, ServerType, Locks
  <1> QED  BY <1>1, UnitInvariant, PTL

(* The dummy message is in one place: nowhere, on the handler's port, or in the handler's hands;
   the interrupt server puts it on the port only when it is nowhere (filesys.cpp, case 3 of
   exter_int_helper). *)
THEOREM DummyIsOnce == UnitSpec => []DummyOnce
  <1>1. ASSUME Inv
        PROVE  DummyOnce
    <2> DEFINE P == {i \in 1 .. Len(port) : port[i] = Dummy}
    <2>1. DOMAIN port = 1 .. Len(port)
      BY <1>1, LenProperties DEF Inv, HandlerType
    <2>2. CASE Dummy \in Range(port)
      <3>1. PICK i \in 1 .. Len(port) : port[i] = Dummy
        BY <2>1, <2>2 DEF Range
      <3>2. P = {i}
        BY <1>1, <3>1 DEF Inv, Places, NoDup
      <3>3. Cardinality(P) = 1
        BY <3>2, FS_Singleton
      <3> QED  BY <1>1, <2>2, <3>3 DEF Inv, DummyInv, DummyOnce
    <2>3. CASE Dummy \notin Range(port)
      <3>1. P = {}
        BY <2>1, <2>3 DEF Range
      <3>2. Cardinality(P) = 0
        BY <3>1, FS_EmptySet
      <3> QED  BY <1>1, <2>3, <3>2 DEF Inv, DummyInv, DummyOnce
    <2> QED  BY <2>2, <2>3
  <1> QED  BY <1>1, UnitInvariant, PTL

(* With fewer packets outstanding than the limit the pipe has room for another one, so that the
   emulation thread does not wait for the host thread (filesys.asm, FSML_FromDOS). *)
THEOREM StartFindsRoom == UnitSpec => []UnitPipeHasRoom
  <1>1. ASSUME Inv
        PROVE  UnitPipeHasRoom
    <2> SUFFICES ASSUME rpc = "up", fpc = "packet", d5 < Limit
                 PROVE  Len(unit_pipe) < PipeCapacity
      BY DEF UnitPipeHasRoom
    <2>1. /\ unit_pipe \in Seq(Msgs \cup {Death}) /\ Len(unit_pipe) \in Nat
          /\ DOMAIN unit_pipe = 1 .. Len(unit_pipe) /\ unit_pipe \in [1 .. Len(unit_pipe) -> Msgs \cup {Death}]
      BY <1>1, LenProperties DEF Inv, ThreadType
    <2>2. ASSUME NEW i \in 1 .. Len(unit_pipe)
          PROVE  unit_pipe[i] \in Out
      <3>1. unit_pipe[i] \in Msgs /\ unit_pipe[i] \in Range(unit_pipe)
        BY <1>1, <2>1 DEF Inv, Started, Range
      <3>2. status[unit_pipe[i]] = "pending"
        BY <1>1, <3>1 DEF Inv, Started
      <3>3. unit_pipe[i] \notin replied
        BY <1>1, <3>1, <3>2 DEF Inv, Places
      <3> QED  BY <3>1, <3>2, <3>3 DEF Out, Begun
    <2>3. unit_pipe \in Injection(1 .. Len(unit_pipe), Out)
      <3>1. unit_pipe \in [1 .. Len(unit_pipe) -> Out]
        BY <2>1, <2>2
      <3>2. \A i, k \in 1 .. Len(unit_pipe) : unit_pipe[i] = unit_pipe[k] => i = k
        BY <1>1 DEF Inv, Started, NoDup
      <3> QED  BY <3>1, <3>2, Fun_IsInj
    <2>4. IsFiniteSet(Out) /\ d5 = Cardinality(Out) /\ d5 \in Nat
      BY <1>1, FS_CardinalityType DEF Inv, Counted
    <2>5. Cardinality(1 .. Len(unit_pipe)) <= Cardinality(Out)
      BY <2>3, <2>4, FS_Injection
    <2>6. Cardinality(1 .. Len(unit_pipe)) = Len(unit_pipe)
      <3>1. /\ 1 \in Int /\ Len(unit_pipe) \in Int
            /\ (IF 1 > Len(unit_pipe) THEN 0 ELSE Len(unit_pipe) - 1 + 1) = Len(unit_pipe)
        BY <2>1
      <3> QED  BY <3>1, FS_Interval
    <2> QED  BY <2>1, <2>4, <2>5, <2>6, Constants
  <1> QED  BY <1>1, UnitInvariant, PTL

(* No lock structure is lost or in two places on its way from the handler to the host thread, to the
   guest and back (filesys.asm, LockCheck; filesys.cpp, filesys_iteration). *)
THEOREM LocksAreConserved == UnitSpec => []LocksConserved
  <1>1. Inv => LocksConserved
    BY DEF Inv, Locks
  <1> QED  BY <1>1, UnitInvariant, PTL

(* The handler's count of outstanding packets, on which the limit rests, is the number of packets that
   were started and not replied, whatever the host's threads do to them meanwhile. *)
THEOREM CountIsExact == UnitSpec => []Outstanding
  <1>1. ASSUME Inv
        PROVE  Outstanding
    <2>1. Out = {m \in Msgs \ replied : status[m] \in {"pending", "done", "timeout"}}
      BY DEF Out, Begun
    <2> QED  BY <1>1, <2>1 DEF Inv, Counted, Outstanding
  <1> QED  BY <1>1, UnitInvariant, PTL

----------------------------------------------------------------------------
(* Record locks. *)

LEMMA ParkedInit == UnitInit => Parked
  BY DEF UnitInit, Parked

LEMMA ParkedNext ==
    ASSUME Inv, Parked, [UnitNext]_vars
    PROVE  Parked'
  <1> USE DEF Parked
  <1>1. CASE Take
    <2> DEFINE q == Head(unit_pipe)
    <2>1. /\ tpc = "read" /\ unit_pipe # <<>> /\ rpc = "up" /\ unit_pipe' = Tail(unit_pipe)
          /\ cur' = q /\ tpc' = "handle" /\ UNCHANGED <<vsync, held, waitingrecords, status, replied>>
      BY <1>1 DEF Take, handler
    <2>2. q \in Msgs /\ q \in Range(unit_pipe)
      <3>1. Death \notin Range(unit_pipe)
        BY <2>1 DEF Inv, Started
      <3> QED  BY <2>1, <3>1, Reads
    <2> HIDE DEF q
    <2>3. status[q] = "pending" /\ q \notin waitingrecords /\ (vpc # "out" => vrec # q)
      BY <2>2 DEF Inv, Started, Touched
    <2> QED  BY <2>1, <2>3 DEF vsync
  <1>2. CASE Start \/ Postpone
    <2>1. /\ fpc = "packet" /\ \E x \in {"pending", "unstarted"} : status' = [status EXCEPT ![fmsg] = x]
          /\ UNCHANGED <<thread, vsync, waitingrecords, replied>>
      BY <1>2 DEF Start, Postpone
    <2>2. fmsg \in Msgs /\ status[fmsg] = "none"
      BY <2>1 DEF Inv, HandlerType, Places, Fresh
    <2>3. ~Touched(fmsg)
      BY <2>2 DEF Inv, Started, Begun
    <2>4. \A m \in Msgs : m # fmsg => status'[m] = status[m]
      BY <2>1 DEF Inv, PacketType
    <2>5. /\ waitingrecords \subseteq Msgs /\ (tpc \in {"handle", "unlink", "release"} => cur \in Msgs)
          /\ (tpc \in {"unlink", "release"} => held \in Msgs) /\ (vpc # "out" => vrec \in Msgs)
      BY DEF Inv, ThreadType
    <2> QED  BY <2>1, <2>3, <2>4, <2>5 DEF thread, vsync, Touched
  <1>3. ASSUME NEW n \in LockChanges, Handle(n)
        PROVE  Parked'
    <2>1. /\ tpc = "handle" /\ tpc' = "count" /\ status' = [status EXCEPT ![cur] = "done"]
          /\ UNCHANGED <<vsync, held, waitingrecords, replied>>
      BY <1>3 DEF Handle, handler
    <2>2. /\ cur \notin waitingrecords /\ (vpc # "out" => vrec # cur)
          /\ waitingrecords \subseteq Msgs /\ (vpc # "out" => vrec \in Msgs)
      BY <2>1 DEF Inv, ThreadType
    <2>3. \A m \in Msgs : m # cur => status'[m] = status[m]
      BY <2>1 DEF Inv, PacketType
    <2> QED  BY <2>1, <2>2, <2>3 DEF vsync
  <1>4. CASE Park
    <2>1. /\ tpc = "handle" /\ tpc' = "count" /\ waitingrecords' = waitingrecords \cup {cur}
          /\ UNCHANGED <<vsync, held, status, replied>>
      BY <1>4 DEF Park, handler
    <2> QED  BY <2>1 DEF vsync
  <1>5. ASSUME NEW q \in Msgs, Find(q)
        PROVE  Parked'
    <2>1. /\ tpc = "handle" /\ tpc' = "unlink" /\ q \in waitingrecords /\ held' = q
          /\ UNCHANGED <<vsync, cur, status, waitingrecords, replied>>
      BY <1>5 DEF Find, handler
    <2> QED  BY <2>1 DEF vsync
  <1>6. CASE Unlink
    <2>1. /\ tpc = "unlink" /\ tpc' = "release" /\ waitingrecords' = waitingrecords \ {held}
          /\ UNCHANGED <<vsync, cur, held, status, replied>>
      BY <1>6 DEF Unlink, handler
    <2> QED  BY <2>1 DEF vsync
  <1>7. CASE Release
    <2>1. /\ tpc = "release" /\ tpc' = "handle" /\ status' = [status EXCEPT ![held] = "done"]
          /\ UNCHANGED <<vsync, cur, waitingrecords, replied>>
      BY <1>7 DEF Release, handler
    <2>2. /\ held \notin waitingrecords /\ held # cur /\ held \in Msgs
          /\ waitingrecords \subseteq Msgs /\ cur \in Msgs /\ (vpc # "out" => vrec \in Msgs)
      BY <2>1 DEF Inv, ThreadType
    <2>3. \A m \in Msgs : status'[m] = IF m = held THEN "done" ELSE status[m]
      BY <2>1 DEF Inv, PacketType
    <2> QED  BY <2>1, <2>2, <2>3 DEF vsync
  <1>8. ASSUME NEW q \in Msgs, TimeUp(q)
        PROVE  Parked'
    <2>1. /\ q \in waitingrecords /\ vpc = "out" /\ vpc' = "mark" /\ vrec' = q
          /\ UNCHANGED <<thread, waitingrecords, status, replied>>
      BY <1>8 DEF TimeUp, InTrap, handler
    <2>2. status[q] = "pending" /\ q \notin replied
      BY <2>1 DEF Inv, Places
    <2>3. tpc \in {"handle", "unlink", "release"} => q # cur
      BY <2>1
    <2> QED  BY <2>1, <2>2, <2>3 DEF thread
  <1>9. CASE MarkTimeout
    <2>1. /\ vpc = "mark" /\ vpc' = "unlink" /\ status' = [status EXCEPT ![vrec] = "timeout"]
          /\ UNCHANGED <<thread, vrec, waitingrecords, replied>>
      BY <1>9 DEF MarkTimeout, handler
    <2>2. /\ waitingrecords \subseteq Msgs /\ vrec \in Msgs
          /\ (tpc \in {"handle", "unlink", "release"} => cur \in Msgs)
          /\ (tpc \in {"unlink", "release"} => held \in Msgs)
      BY <2>1 DEF Inv, ThreadType
    <2>3. \A m \in Msgs : status'[m] = IF m = vrec THEN "timeout" ELSE status[m]
      BY <2>1, <2>2 DEF Inv, PacketType
    <2> QED  BY <2>1, <2>2, <2>3 DEF thread
  <1>10. CASE DropTimeout
    <2>1. /\ vpc = "unlink" /\ vpc' = "out" /\ waitingrecords' = waitingrecords \ {vrec}
          /\ UNCHANGED <<thread, status, replied>>
      BY <1>10 DEF DropTimeout, handler
    <2> QED  BY <2>1 DEF thread
  <1>11. CASE ScanReply
    <2>1. /\ vpc = "out" /\ UNCHANGED <<thread, vsync, waitingrecords, status>>
      BY <1>11 DEF ScanReply, TasksRun, InTrap
    <2> QED  BY <2>1 DEF thread, vsync
  <1>12. ASSUME UNCHANGED <<cur, held, vsync, waitingrecords, status, replied>>,
                tpc' = tpc \/ tpc' \notin {"handle", "unlink", "release"}
         PROVE  Parked'
    BY <1>12 DEF vsync
  <1>13. CASE GetMsg \/ Wake \/ Complete \/ Drain \/ Drained \/ ScanNext \/ Enqueue
    BY <1>12, <1>13 DEF GetMsg, Wake, Complete, Drain, Drained, ScanNext, Enqueue, thread, handler
  <1>14. CASE TakeDown \/ CountSent \/ RequestInterrupt \/ SendBack
    BY <1>12, <1>14 DEF TakeDown, CountSent, RequestInterrupt, SendBack, handler
  <1>15. CASE ServerStep
    BY <1>12, <1>15 DEF ServerStep, Interrupt, ServeSignal, FindUnit, SendDummy, EndInterrupt, thread, handler
  <1>16. ASSUME (\E m \in Msgs : Send(m)) \/ Reset \/ Quiet \/ UNCHANGED vars
         PROVE  Parked'
    BY <1>12, <1>16 DEF Send, Reset, Quiet, vars, thread, handler
  <1> QED  BY <1>1, <1>2, <1>3, <1>4, <1>5, <1>6, <1>7, <1>8, <1>9, <1>10, <1>11, <1>13, <1>14, <1>15, <1>16
           DEF UnitNext, HandlerStep, ThreadStep, VSyncStep

(* A packet that was replied is DOS's again: it is not parked, neither the vertical blank nor a handler
   of packets has it, and the host thread may still mark it only if it had found it on the list when
   the vertical blank timed it out (filesys.cpp, record_timeout and record_check_waiting, which share
   no lock). *)
THEOREM RepliedIsFree == UnitSpec => []RepliedIsLeftAlone
  <1>1. ASSUME Inv, Parked
        PROVE  RepliedIsLeftAlone
    <2> SUFFICES ASSUME NEW m \in replied
                 PROVE  /\ m \notin waitingrecords
                        /\ ~(vpc # "out" /\ vrec = m)
                        /\ ~(tpc = "handle" /\ cur = m)
                        /\ tpc \in {"unlink", "release"} /\ held = m => status[m] = "timeout"
      BY DEF RepliedIsLeftAlone
    <2>1. m \in Msgs /\ status[m] \in {"done", "timeout"}
      BY <1>1 DEF Inv, PacketType, Places
    <2>2. m \notin waitingrecords
      BY <1>1, <2>1 DEF Parked
    <2> QED  BY <1>1, <2>1, <2>2 DEF Parked
  <1>2. Inv /\ Parked /\ [UnitNext]_vars => Parked'
    BY ParkedNext
  <1> QED  BY <1>1, <1>2, ParkedInit, UnitInvariant, PTL DEF UnitSpec
=============================================================================
