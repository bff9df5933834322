------------------------ MODULE Native2Amiga_proofs ------------------------
(***************************************************************************)
(* Proofs about Native2Amiga, for any number of host threads, messages and *)
(* units and any pipe that holds a message.                                *)
(***************************************************************************)
EXTENDS Native2Amiga, SequenceTheorems, TLAPS

----------------------------------------------------------------------------
(* Types, the locks, and the request bit. *)

Holding == {"write", "load", "store", "post"}

\* n2asem excludes senders from one another, and a sender that writes is at a
\* word of the last message.
SenderInv ==
    /\ \A s \in Senders : spc[s] \in Holding => n2asem = 0
    /\ \A s, t \in Senders : spc[s] \in Holding /\ spc[t] \in Holding => s = t
    /\ \A s \in Senders : spc[s] = "write" =>
            /\ msg[s] = Len(sent) /\ msg[s] \in 1 .. Len(sent)
            /\ pos[s] \in 0 .. Arity(sent[msg[s]])

\* The single-threading semaphore is taken exactly while the server runs.
ServerInv ==
    /\ singlethread_int_sem = IF Serving THEN 0 ELSE 1
    /\ filesys_in_interrupt = IF Serving THEN 1 ELSE 0
    /\ epc \in {"args", "call"} => cmd \in Kinds

IInv == TypeOK /\ SenderInv /\ ServerInv

LEMMA InitInv == N2AInit => IInv
<1> SUFFICES ASSUME N2AInit PROVE IInv
  OBVIOUS
<1>1. TypeOK
  <2>1. \A S : <<>> \in Seq(S)
    BY EmptySeq
  <2>2. /\ pipe \in Seq(Words) /\ Len(pipe) <= Capacity /\ read \in Seq(Words)
        /\ args \in Seq(Words) /\ sent \in Seq(Kinds)
        /\ calls \in Seq([kind : Kinds, args : Seq(Words)])
    BY <2>1, N2AAssumption DEF N2AInit
  <2>3. 0 \in 0 .. 3 /\ 0 \in 0 .. Units /\ 0 \in Nat
    BY N2AAssumption
  <2>4. /\ spc \in [Senders -> {"idle", "wait", "write", "load", "store", "post"}]
        /\ msg \in [Senders -> Nat] /\ pos \in [Senders -> 0 .. 3]
        /\ old \in [Senders -> SUBSET Bits]
    BY <2>3 DEF N2AInit
  <2> QED
    BY <2>2, <2>3, <2>4 DEF N2AInit, TypeOK
<1>2. SenderInv /\ ServerInv
  BY DEF N2AInit, SenderInv, ServerInv, Holding, Serving
<1> QED
  BY <1>1, <1>2 DEF IInv

LEMMA ArityIs == ASSUME NEW k \in Kinds PROVE Arity(k) \in 1 .. 2
  BY DEF Arity, Kinds

LEMMA StepInv == IInv /\ [N2ANext]_vars => IInv'
<1> SUFFICES ASSUME IInv, [N2ANext]_vars PROVE IInv'
  OBVIOUS
<1> USE DEF IInv
<1>1. ASSUME NEW s \in Senders, Begin(s) PROVE IInv'
  BY ZenonT(60), <1>1 DEF Begin, Goto, server, TypeOK, SenderInv, ServerInv, Serving, Holding
<1>2. ASSUME NEW s \in Senders, NEW kind \in Kinds, Acquire(s, kind) PROVE IInv'
  <2>x. sent \in Seq(Kinds) /\ sent' = Append(sent, kind)
    BY <1>2 DEF Acquire, TypeOK
  <2>0. /\ sent' \in Seq(Kinds) /\ Len(sent) \in Nat /\ Len(sent) + 1 \in Nat
        /\ Len(sent') = Len(sent) + 1 /\ sent'[Len(sent) + 1] = kind
    BY <2>x, AppendProperties
  <2>y. msg' \in [Senders -> Nat] /\ pos' \in [Senders -> 0 .. 3]
    <3>1. 0 \in 0 .. 3
      OBVIOUS
    <3> QED
      BY <1>2, <2>0, <3>1 DEF Acquire, TypeOK
  <2>z. spc' \in [Senders -> {"idle", "wait", "write", "load", "store", "post"}]
    BY <1>2 DEF Acquire, Goto, TypeOK
  <2>1. TypeOK'
    BY <1>2, <2>0, <2>y, <2>z DEF Acquire, server, TypeOK
  <2>2. SenderInv'
    <3>1. /\ sent' \in Seq(Kinds) /\ Len(sent) \in Nat
          /\ Len(sent') = Len(sent) + 1 /\ sent'[Len(sent) + 1] = kind
      BY <2>0
    <3>2. \A t \in Senders : spc[t] \notin Holding
      BY <1>2 DEF Acquire, SenderInv
    <3>3. \A t \in Senders : spc'[t] = IF t = s THEN "write" ELSE spc[t]
      BY <1>2 DEF Acquire, Goto, TypeOK
    <3>4. msg'[s] = Len(sent) + 1 /\ pos'[s] = 0 /\ n2asem' = 0
      BY <1>2 DEF Acquire, TypeOK
    <3>5. 0 \in 0 .. Arity(sent'[msg'[s]])
      BY <3>1, <3>4, ArityIs
    <3>6. \A t \in Senders : spc'[t] \in Holding => t = s
      BY <3>2, <3>3
    <3> QED
      BY <3>1, <3>3, <3>4, <3>5, <3>6 DEF SenderInv, Holding
  <2>3. ServerInv'
    BY <1>2 DEF Acquire, server, ServerInv, Serving
  <2> QED
    BY <2>1, <2>2, <2>3
<1>3. ASSUME NEW s \in Senders, WriteWord(s) PROVE IInv'
  <2>0. /\ msg[s] \in 1 .. Len(sent) /\ pos[s] \in 0 .. Arity(sent[msg[s]])
        /\ sent \in Seq(Kinds)
    BY <1>3 DEF WriteWord, SenderInv, TypeOK
  <2>1. sent[msg[s]] \in Kinds /\ Arity(sent[msg[s]]) \in 1 .. 2
    BY <2>0, ArityIs
  <2>a. msg[s] \in Nat /\ pos[s] \in 0 .. 2
    BY <2>0, <2>1
  <2>2. Word(msg[s], pos[s]) \in Words
    BY <2>1, <2>a DEF Word, Words
  <2>b. /\ pipe' = Append(pipe, Word(msg[s], pos[s])) /\ Len(pipe) < Capacity
        /\ pipe \in Seq(Words) /\ read' = read
    BY <1>3 DEF WriteWord, Fifo!Put, TypeOK
  <2>c. pipe' \in Seq(Words) /\ Len(pipe') <= Capacity
    BY <2>2, <2>b, N2AAssumption
  <2>d. pos' \in [Senders -> 0 .. 3]
    <3>1. pos[s] + 1 \in 0 .. 3
      BY <2>a
    <3> QED
      BY <1>3, <3>1 DEF WriteWord, TypeOK
  <2>3. TypeOK'
    BY <1>3, <2>b, <2>c, <2>d DEF WriteWord, Goto, server, TypeOK
  <2>e. /\ \A t \in Senders : t # s => spc'[t] = spc[t]
        /\ \A t \in Senders : spc'[t] \in Holding => spc[t] \in Holding
        /\ spc'[s] = "write" => pos[s] # Arity(sent[msg[s]])
        /\ pos'[s] = pos[s] + 1
        /\ \A t \in Senders : t # s => pos'[t] = pos[t]
        /\ UNCHANGED <<n2asem, msg, sent>>
    BY <1>3 DEF WriteWord, Goto, TypeOK, Holding
  <2>f. \A t \in Senders : spc'[t] = "write" => t = s
    BY <1>3, <2>e DEF WriteWord, SenderInv, Holding
  <2>g. spc'[s] = "write" => pos'[s] \in 0 .. Arity(sent[msg[s]])
    BY <2>0, <2>1, <2>e
  <2>4. SenderInv'
    <3>1. \A t \in Senders : spc'[t] \in Holding => n2asem' = 0
      BY <2>e DEF SenderInv
    <3>2. \A t, u \in Senders : spc'[t] \in Holding /\ spc'[u] \in Holding => t = u
      BY <2>e DEF SenderInv
    <3>3. /\ msg'[s] = Len(sent') /\ msg'[s] \in 1 .. Len(sent')
          /\ sent[msg[s]] = sent'[msg'[s]]
      BY <1>3, <2>0, <2>e DEF WriteWord, SenderInv
    <3> QED
      BY <2>f, <2>g, <3>1, <3>2, <3>3 DEF SenderInv
  <2>5. ServerInv'
    BY <1>3 DEF WriteWord, server, ServerInv, Serving
  <2> QED
    BY <2>3, <2>4, <2>5
<1>4. ASSUME NEW s \in Senders, LoadBits(s) \/ StoreBits(s) PROVE IInv'
  <2>1. old' \in [Senders -> SUBSET Bits] /\ requested' \subseteq Bits
    BY <1>4 DEF LoadBits, StoreBits, TypeOK, Bits
  <2>2. TypeOK'
    BY ZenonT(60), <1>4, <2>1 DEF LoadBits, StoreBits, Goto, server, TypeOK
  <2>3. SenderInv'
    BY ZenonT(60), <1>4 DEF LoadBits, StoreBits, Goto, TypeOK, SenderInv, Holding
  <2>4. ServerInv'
    BY <1>4 DEF LoadBits, StoreBits, server, ServerInv, Serving
  <2> QED
    BY <2>2, <2>3, <2>4
<1>5. ASSUME NEW s \in Senders, Post(s) PROVE IInv'
  <2>1. n2asem = 0
    BY <1>5 DEF Post, SenderInv, Holding
  <2>2. n2asem' = 1 /\ 1 \in {0, 1}
    BY <1>5, <2>1 DEF Post
  <2>3. TypeOK'
    BY <1>5, <2>2 DEF Post, Goto, server, TypeOK
  <2>4. /\ \A t \in Senders : spc'[t] = IF t = s THEN "idle" ELSE spc[t]
        /\ UNCHANGED <<msg, pos, sent>>
    BY <1>5 DEF Post, Goto, TypeOK
  <2>5. \A t \in Senders : spc'[t] \notin Holding
    BY <1>5, <2>4 DEF Post, SenderInv, Holding
  <2>6. SenderInv'
    BY <2>5 DEF SenderInv, Holding
  <2>7. ServerInv'
    BY <1>5 DEF Post, server, ServerInv, Serving
  <2> QED
    BY <2>3, <2>6, <2>7
<1>6. CASE Poll \/ NotForUs
  BY <1>6 DEF Poll, NotForUs, sender, TypeOK, SenderInv, ServerInv, Serving
<1>7. CASE ForUs
  <2>1. filesys_in_interrupt' = 1
    BY <1>7 DEF ForUs, Running, ServerInv, Serving
  <2>2. TypeOK'
    BY <1>7, <2>1 DEF ForUs, sender, TypeOK
  <2>3. SenderInv' /\ ServerInv'
    BY <1>7, <2>1 DEF ForUs, sender, SenderInv, ServerInv, Serving
  <2> QED
    BY <2>2, <2>3
<1>15. CASE ClearBit
  <2>1. requested' \subseteq Bits /\ 0 \in 0 .. Units
    BY <1>15, N2AAssumption DEF ClearBit, TypeOK
  <2>2. TypeOK'
    BY <1>15, <2>1 DEF ClearBit, sender, TypeOK
  <2>3. SenderInv' /\ ServerInv'
    BY <1>15 DEF ClearBit, sender, SenderInv, ServerInv, Serving
  <2> QED
    BY <2>2, <2>3
<1>8. CASE ReadCommand
  <2>1. Head(pipe) \in Words /\ Tail(pipe) \in Seq(Words)
        /\ Len(Tail(pipe)) = Len(pipe) - 1
    BY <1>8 DEF ReadCommand, TypeOK
  <2>a. /\ pipe' = Tail(pipe) /\ read' = Append(read, Head(pipe))
        /\ args' = <<>> /\ cmd' = Head(pipe).code
    BY <1>8 DEF ReadCommand, Fifo!Take
  <2>b. /\ pipe' \in Seq(Words) /\ Len(pipe') <= Capacity
        /\ read' \in Seq(Words) /\ args' \in Seq(Words)
    <3>1. read \in Seq(Words) /\ Len(pipe) \in Nat /\ Len(pipe) <= Capacity
      BY LenProperties DEF TypeOK
    <3>2. Append(read, Head(pipe)) \in Seq(Words)
      BY <2>1, <3>1, AppendProperties
    <3>3. <<>> \in Seq(Words)
      BY EmptySeq
    <3> QED
      BY <2>1, <2>a, <3>1, <3>2, <3>3, N2AAssumption
  <2>c. cmd' \in Kinds \cup {"none", "argument"}
    BY <2>1, <2>a DEF Words
  <2>2. TypeOK'
    BY <1>8, <2>b, <2>c DEF ReadCommand, sender, TypeOK
  <2>3. SenderInv' /\ ServerInv'
    BY <1>8 DEF ReadCommand, sender, SenderInv, ServerInv, Serving
  <2> QED
    BY <2>2, <2>3
<1>9. CASE ReadArgument
  <2>1. Head(pipe) \in Words /\ Tail(pipe) \in Seq(Words)
        /\ Len(Tail(pipe)) = Len(pipe) - 1
    BY <1>9 DEF ReadArgument, Fifo!Take, TypeOK
  <2>2. TypeOK'
    BY <1>9, <2>1, N2AAssumption DEF ReadArgument, Fifo!Take, sender, TypeOK
  <2>3. SenderInv' /\ ServerInv'
    BY <1>9 DEF ReadArgument, sender, SenderInv, ServerInv, Serving
  <2> QED
    BY <2>2, <2>3
<1>10. CASE MakeCall
  BY <1>10 DEF MakeCall, sender, TypeOK, SenderInv, ServerInv, Serving
<1>11. CASE ServeUnit
  BY <1>11, N2AAssumption DEF ServeUnit, sender, TypeOK, SenderInv, ServerInv,
     Serving
<1>12. CASE EndServer
  BY <1>12 DEF EndServer, sender, TypeOK, SenderInv, ServerInv, Serving
<1>13. CASE Rethink
  BY <1>13 DEF Rethink, RethinkGoesOn, OtherLoaded, LoadOther, ResetOther,
     ReloadOther, SetOther, Running, sender, TypeOK, Bits, SenderInv, ServerInv, Serving
<1>14. CASE UNCHANGED vars
  BY ZenonT(60), <1>14 DEF vars, sender, server, TypeOK, SenderInv, ServerInv, Serving
<1> QED
  BY <1>1, <1>2, <1>3, <1>4, <1>5, <1>6, <1>7, <1>8, <1>9, <1>10, <1>11, <1>12,
     <1>13, <1>14, <1>15 DEF N2ANext, SendStep, ServerStep, Quiet

LEMMA Invariance == N2ASpec => []IInv
  BY InitInv, StepInv, PTL DEF N2ASpec

\* Types; in particular n2asem and singlethread_int_sem are binary and the
\* server is never entered twice (filesys.cpp:6510).
THEOREM Typing == N2ASpec => []TypeOK
<1>1. IInv => TypeOK
  BY DEF IInv
<1> QED
  BY <1>1, Invariance, PTL

\* A store of rethink_a2065 (a2065.cpp:561) that takes back the bit a sender has
\* set since the load.
LostUpdate ==
    /\ OtherBits = "plain" /\ epc \in {"reset other", "set other"}
    /\ "exter" \in requested \ eold
    /\ Rethink

\* filesys.cpp:6528: "we can get too many interrupts, but never not enough".
\* Of all steps of the senders, the server and the other devices, whatever
\* they do to their bits, only such a store of rethink_a2065 leaves words in
\* the pipe without an interrupt; it can, and that is the failure of 6528.
THEOREM Enough == N2ASpec => [][NeverNotEnough => NeverNotEnough' \/ LostUpdate]_vars
<1> DEFINE J == epc \in {"reset other", "load other", "set other"} => OtherBits # "never"
<1>1. N2AInit => J
  BY DEF N2AInit
<1>2. J /\ [N2ANext]_vars => J'
  <2> SUFFICES ASSUME J, [N2ANext]_vars PROVE J'
    OBVIOUS
  <2>1. CASE \E s \in Senders : Begin(s) \/ SendStep(s)
    BY <2>1 DEF Begin, SendStep, Acquire, WriteWord, LoadBits, StoreBits, Post, server
  <2>2. CASE ServerStep
    BY <2>2 DEF ServerStep, Poll, NotForUs, ForUs, ClearBit, ReadCommand,
       ReadArgument, MakeCall, ServeUnit, EndServer
  <2>3. CASE Rethink
    BY <2>3 DEF Rethink, RethinkGoesOn, LoadOther, ResetOther, ReloadOther, SetOther
  <2>4. CASE UNCHANGED vars
    BY <2>4 DEF vars, server
  <2> QED
    BY <2>1, <2>2, <2>3, <2>4 DEF N2ANext, Quiet
<1>3. IInv /\ J /\ [N2ANext]_vars => (NeverNotEnough => NeverNotEnough' \/ LostUpdate)
  <2> SUFFICES ASSUME IInv, J, NeverNotEnough, [N2ANext]_vars, ~LostUpdate
               PROVE  NeverNotEnough'
    OBVIOUS
  <2> USE DEF NeverNotEnough, Serving
  <2>1. ASSUME NEW s \in Senders, Begin(s) PROVE NeverNotEnough'
    BY <2>1 DEF Begin, Goto, server, IInv, TypeOK
  <2>2. ASSUME NEW s \in Senders, NEW kind \in Kinds, Acquire(s, kind) PROVE NeverNotEnough'
    BY <2>2 DEF Acquire, Goto, server, IInv, TypeOK
  <2>3. ASSUME NEW s \in Senders, WriteWord(s) PROVE NeverNotEnough'
    BY <2>3 DEF WriteWord, Goto, server, IInv, TypeOK
  <2>4. ASSUME NEW s \in Senders, LoadBits(s) PROVE NeverNotEnough'
    BY <2>4 DEF LoadBits, Goto, server, IInv, TypeOK
  <2>5. ASSUME NEW s \in Senders, StoreBits(s) PROVE NeverNotEnough'
    BY <2>5 DEF StoreBits, Goto, server, IInv, TypeOK
  <2>6. ASSUME NEW s \in Senders, Post(s) PROVE NeverNotEnough'
    BY <2>6 DEF Post, Goto, server, IInv, TypeOK
  <2>7. CASE ServerStep
    BY <2>7 DEF ServerStep, Poll, NotForUs, ForUs, ClearBit, ReadCommand,
       ReadArgument, MakeCall, ServeUnit, EndServer, Running, sender, Fifo!Take
  <2>8. CASE Rethink
    <3>1. UNCHANGED <<pipe, spc>> /\ ~Serving
      BY <2>8 DEF Rethink, RethinkGoesOn, LoadOther, ResetOther, ReloadOther,
         SetOther, Running, sender
    <3>2. CASE UNCHANGED requested
      BY <3>1, <3>2
    <3>3. CASE SetOther \/ \E irq \in BOOLEAN : ResetOther(irq)
      <4>1. epc \in {"reset other", "set other"} /\ requested' \in
                {OtherLoaded \ {"a2065"}, OtherLoaded \cup {"a2065"}}
        BY <3>3 DEF SetOther, ResetOther
      <4>2. "exter" \in requested => "exter" \in OtherLoaded
        BY <2>8, <4>1, N2AAssumption DEF OtherLoaded, LostUpdate
      <4> QED  BY <3>1, <4>1, <4>2
    <3> QED
      BY <2>8, <3>2, <3>3 DEF Rethink, RethinkGoesOn, LoadOther, ReloadOther
  <2>9. CASE UNCHANGED vars
    BY <2>9 DEF vars, sender, server
  <2> QED
    BY <2>1, <2>2, <2>3, <2>4, <2>5, <2>6, <2>7, <2>8, <2>9
       DEF N2ANext, SendStep, Quiet
<1> QED
  BY <1>1, <1>2, <1>3, Invariance, PTL DEF N2ASpec

----------------------------------------------------------------------------
(* Framing: the words between the writer and the decoder. *)

\* Where the next word written comes from.
Writing == \E s \in Senders : spc[s] = "write"
Writer  == CHOOSE s \in Senders : spc[s] = "write"
NextIn  == IF Writing THEN <<msg[Writer], pos[Writer]>> ELSE <<Len(sent) + 1, 0>>

\* The word that the decoder takes the next one to be.
NextOut == CASE epc = "args" -> <<Len(calls) + 1, Len(args) + 1>>
             [] epc = "call" -> <<Len(calls) + 2, 0>>
             [] OTHER        -> <<Len(calls) + 1, 0>>

\* The word after word p of the stream, p = <<message, index>>.
After(p) == IF p[2] = Arity(sent[p[1]]) THEN <<p[1] + 1, 0>> ELSE <<p[1], p[2] + 1>>

Place(k) == IF k <= Len(pipe) THEN <<pipe[k].of, pipe[k].at>> ELSE NextIn

\* The pipe holds consecutive words of the stream of messages, from the one the
\* decoder expects to the one before the writer's.
ChainInv ==
    /\ Place(1) = NextOut
    /\ \A k \in 1 .. Len(pipe) :
        /\ pipe[k].of \in 1 .. Len(sent)
        /\ pipe[k].at \in 0 .. Arity(sent[pipe[k].of])
        /\ pipe[k] = Word(pipe[k].of, pipe[k].at)
        /\ Place(k + 1) = After(Place(k))

\* The decoder is inside the message after the last one it made a call for.
DecoderInv ==
    epc \in {"args", "call"} =>
        /\ Len(calls) < Len(sent) /\ cmd = sent[Len(calls) + 1]
        /\ Len(args) \in 0 .. Arity(cmd)
        /\ epc = "call" <=> Len(args) = Arity(cmd)
        /\ \A i \in 1 .. Len(args) : args[i] = Word(Len(calls) + 1, i)

Framing == ChainInv /\ DecoderInv /\ WholeMessages

LEMMA InitFraming == N2AInit => Framing
  BY DEF N2AInit, Framing, ChainInv, DecoderInv, WholeMessages, Place, NextIn,
     NextOut, Writing

\* SenderInv makes the writer unique.
WriterIsNext ==
    /\ \A s \in Senders : spc[s] = "write" => NextIn = <<msg[s], pos[s]>>
    /\ (\A s \in Senders : spc[s] # "write") => NextIn = <<Len(sent) + 1, 0>>

LEMMA NextInIs == SenderInv => WriterIsNext
<1> SUFFICES ASSUME SenderInv PROVE WriterIsNext
  OBVIOUS
<1>1. ASSUME NEW s \in Senders, spc[s] = "write" PROVE NextIn = <<msg[s], pos[s]>>
  <2>1. Writing /\ Writer \in Senders /\ spc[Writer] = "write"
    BY <1>1 DEF Writing, Writer
  <2>2. Writer = s
    BY <1>1, <2>1 DEF SenderInv, Holding
  <2> QED
    BY <2>1, <2>2 DEF NextIn
<1> QED
  BY <1>1 DEF NextIn, Writing, WriterIsNext

LEMMA NextInStays ==
    ASSUME SenderInv, SenderInv', UNCHANGED <<msg, pos, sent>>,
           \A t \in Senders : spc'[t] = "write" <=> spc[t] = "write"
    PROVE  NextIn' = NextIn
<1>1. WriterIsNext /\ WriterIsNext'
  BY NextInIs, PTL
<1> QED
  BY <1>1 DEF WriterIsNext

\* A step that touches neither the stream nor the decoder.
LEMMA FramingStays ==
    ASSUME Framing, UNCHANGED <<pipe, sent, calls, cmd, args>>, NextIn' = NextIn,
           NextOut' = NextOut, epc' \in {"args", "call"} => epc' = epc
    PROVE  Framing'
<1>1. ChainInv'
  BY ZenonT(60) DEF Framing, ChainInv, Place, After, Word, Arity
<1>2. DecoderInv' /\ WholeMessages'
  BY DEF Framing, DecoderInv, WholeMessages, Word, Arity
<1> QED
  BY <1>1, <1>2 DEF Framing

LEMMA AcquireFraming ==
    ASSUME IInv, IInv', Framing, NEW s \in Senders, NEW kind \in Kinds,
           Acquire(s, kind)
    PROVE  Framing'
<1>1. /\ sent \in Seq(Kinds) /\ Len(sent) \in Nat /\ sent' = Append(sent, kind)
      /\ pipe \in Seq(Words) /\ Len(pipe) \in Nat /\ Len(calls) \in Nat
      /\ UNCHANGED <<pipe, calls, cmd, args, epc>>
  BY LenProperties DEF IInv, TypeOK, Acquire, server
<1>2. /\ Len(sent') = Len(sent) + 1
      /\ \A m \in 1 .. Len(sent) : sent'[m] = sent[m]
  BY <1>1, AppendProperties
<1>3. \A t \in Senders : spc[t] # "write"
  BY DEF IInv, Acquire, SenderInv, Holding
<1>4. NextIn = <<Len(sent) + 1, 0>>
  BY <1>3, NextInIs DEF IInv, WriterIsNext
<1>5. spc'[s] = "write" /\ msg'[s] = Len(sent) + 1 /\ pos'[s] = 0
  BY DEF Acquire, Goto, IInv, TypeOK
<1>6. NextIn' = <<msg'[s], pos'[s]>>
  <2>1. SenderInv' => WriterIsNext'
    BY NextInIs, PTL
  <2> QED
    BY <2>1, <1>5 DEF IInv, WriterIsNext
<1>7. NextIn' = NextIn
  BY <1>4, <1>5, <1>6
<1>8. NextOut' = NextOut /\ \A k : Place(k)' = Place(k)
  BY <1>1, <1>7 DEF NextOut, Place
<1>9. \A m \in 1 .. Len(sent), i \in Int : Word(m, i)' = Word(m, i)
  BY <1>2 DEF Word
<1>10. ChainInv'
  <2>1. Place(1)' = NextOut'
    BY <1>8 DEF Framing, ChainInv
  <2>2. ASSUME NEW k \in 1 .. Len(pipe)
        PROVE  /\ pipe[k].of \in 1 .. Len(sent')
               /\ pipe[k].at \in 0 .. Arity(sent'[pipe[k].of])
               /\ pipe[k] = Word(pipe[k].of, pipe[k].at)'
               /\ Place(k + 1)' = After(Place(k))'
    <3>1. /\ pipe[k].of \in 1 .. Len(sent)
          /\ pipe[k].at \in 0 .. Arity(sent[pipe[k].of])
          /\ pipe[k] = Word(pipe[k].of, pipe[k].at)
          /\ Place(k + 1) = After(Place(k))
      BY DEF Framing, ChainInv
    <3>2. sent'[pipe[k].of] = sent[pipe[k].of] /\ pipe[k].of \in 1 .. Len(sent')
      BY <1>1, <1>2, <3>1
    <3>3. pipe[k] = Word(pipe[k].of, pipe[k].at)'
      BY <3>1, <3>2, <1>1 DEF Word
    <3>4. Place(k) = <<pipe[k].of, pipe[k].at>>
      BY DEF Place
    <3>a. Place(k)' = <<pipe[k].of, pipe[k].at>>
      BY <3>4, <1>8
    <3>5. After(Place(k))' = After(Place(k))
      BY <3>2, <3>4, <3>a, <1>1 DEF After
    <3> QED
      BY <3>1, <3>2, <3>3, <3>5, <1>8
  <2> QED
    BY <2>1, <2>2, <1>1 DEF ChainInv
<1>11. DecoderInv'
  <2>1. CASE epc \in {"args", "call"}
    <3>1. Len(calls) + 1 \in 1 .. Len(sent)
      BY <2>1, <1>1 DEF Framing, DecoderInv
    <3>2. sent'[Len(calls) + 1] = sent[Len(calls) + 1]
      BY <3>1, <1>2
    <3>3. Len(calls) < Len(sent')
      BY <3>1, <1>1, <1>2
    <3>4. \A i : Word(Len(calls) + 1, i)' = Word(Len(calls) + 1, i)
      BY <3>2, <1>1 DEF Word
    <3> QED
      BY <2>1, <3>2, <3>3, <3>4, <1>1 DEF Framing, DecoderInv
  <2> QED
    BY <2>1, <1>1 DEF DecoderInv
<1>12. WholeMessages'
  <2>1. Len(calls) <= Len(sent')
    BY <1>1, <1>2 DEF Framing, WholeMessages
  <2>2. ASSUME NEW m \in 1 .. Len(calls)
        PROVE  calls[m] = [kind |-> sent'[m],
                           args |-> [i \in 1 .. Arity(sent'[m]) |-> Word(m, i)']]
    <3>1. m \in 1 .. Len(sent)
      BY <1>1 DEF Framing, WholeMessages
    <3>2. sent'[m] = sent[m]
      BY <3>1, <1>2
    <3>3. \A i : Word(m, i)' = Word(m, i)
      BY <3>2 DEF Word
    <3> QED
      BY <3>2, <3>3 DEF Framing, WholeMessages
  <2> QED
    BY <2>1, <2>2, <1>1 DEF WholeMessages
<1> QED
  BY <1>10, <1>11, <1>12 DEF Framing

LEMMA WriteFraming ==
    ASSUME IInv, IInv', Framing, NEW s \in Senders, WriteWord(s)
    PROVE  Framing'
<1> DEFINE w == Word(msg[s], pos[s])
<1>1. /\ pipe \in Seq(Words) /\ Len(pipe) \in Nat /\ pipe' = Append(pipe, w)
      /\ UNCHANGED <<sent, calls, cmd, args, epc, msg>> /\ spc[s] = "write"
  BY LenProperties DEF IInv, TypeOK, WriteWord, Fifo!Put, server
<1>2. /\ msg[s] = Len(sent) /\ msg[s] \in 1 .. Len(sent)
      /\ pos[s] \in 0 .. Arity(sent[msg[s]])
  BY <1>1 DEF IInv, SenderInv
<1>3. sent[msg[s]] \in Kinds /\ Arity(sent[msg[s]]) \in 1 .. 2 /\ Len(sent) \in Nat
  BY <1>2, ArityIs, LenProperties DEF IInv, TypeOK
<1>4. w \in Words /\ w.of = msg[s] /\ w.at = pos[s]
  BY <1>2, <1>3 DEF Word, Words
<1>5. /\ Len(pipe') = Len(pipe) + 1 /\ pipe'[Len(pipe) + 1] = w
      /\ \A k \in 1 .. Len(pipe) : pipe'[k] = pipe[k]
  BY <1>1, <1>4, AppendProperties
<1>6. NextIn = <<msg[s], pos[s]>>
  BY <1>1, NextInIs DEF IInv, WriterIsNext
<1>7. NextIn' = After(NextIn)
  <2>0. /\ \A t \in Senders : spc'[t] = "write" => NextIn' = <<msg'[t], pos'[t]>>
        /\ (\A t \in Senders : spc'[t] # "write") => NextIn' = <<Len(sent') + 1, 0>>
    <3>1. SenderInv' => WriterIsNext'
      BY NextInIs, PTL
    <3> QED
      BY <3>1 DEF IInv, WriterIsNext
  <2>1. CASE pos[s] = Arity(sent[msg[s]])
    <3>1. \A t \in Senders : spc'[t] # "write"
      BY <2>1, <1>1 DEF WriteWord, Goto, IInv, TypeOK, SenderInv, Holding
    <3>2. NextIn' = <<msg[s] + 1, 0>>
      BY <3>1, <2>0, <1>1, <1>2
    <3> QED
      BY <2>1, <3>2, <1>6 DEF After
  <2>2. CASE pos[s] # Arity(sent[msg[s]])
    <3>1. spc'[s] = "write" /\ pos'[s] = pos[s] + 1
      BY <2>2 DEF WriteWord, Goto, IInv, TypeOK
    <3>2. NextIn' = <<msg[s], pos[s] + 1>>
      BY <3>1, <2>0, <1>1
    <3> QED
      BY <2>2, <3>2, <1>6 DEF After
  <2> QED
    BY <2>1, <2>2
<1>8. \A k \in 1 .. Len(pipe) + 1 : Place(k)' = Place(k)
  <2>1. \A k \in 1 .. Len(pipe) : Place(k)' = Place(k)
    BY <1>1, <1>5 DEF Place
  <2>2. \A k : k = Len(pipe) + 1 => Place(k)' = <<msg[s], pos[s]>>
    BY <1>1, <1>4, <1>5 DEF Place
  <2>3. Place(Len(pipe) + 1) = <<msg[s], pos[s]>>
    BY <1>1, <1>6 DEF Place
  <2> QED
    BY <2>1, <2>2, <2>3, <1>1
<1>9. \A k : k = Len(pipe) + 2 => Place(k)' = NextIn'
  BY <1>1, <1>5 DEF Place
<1>10. \A m, i : Word(m, i)' = Word(m, i) /\ After(<<m, i>>)' = After(<<m, i>>)
  BY <1>1 DEF Word, After
<1>11. ChainInv'
  <2>1. Place(1)' = NextOut'
    BY <1>1, <1>8 DEF Framing, ChainInv, NextOut
  <2>2. ASSUME NEW k \in 1 .. Len(pipe')
        PROVE  /\ pipe'[k].of \in 1 .. Len(sent)
               /\ pipe'[k].at \in 0 .. Arity(sent[pipe'[k].of])
               /\ pipe'[k] = Word(pipe'[k].of, pipe'[k].at)
               /\ Place(k + 1)' = After(Place(k))'
    <3>1. CASE k \in 1 .. Len(pipe)
      <4>1. Place(k + 1) = After(Place(k)) /\ pipe'[k] = pipe[k]
        BY <3>1, <1>5 DEF Framing, ChainInv
      <4>2. Place(k + 1)' = Place(k + 1) /\ Place(k)' = Place(k)
        BY <3>1, <1>1, <1>8
      <4>3. After(Place(k))' = After(Place(k))
        BY <1>1, <4>2 DEF After
      <4> QED
        BY <3>1, <4>1, <4>2, <4>3 DEF Framing, ChainInv
    <3>2. CASE k = Len(pipe) + 1
      <4>1. pipe'[k] = w
        BY <3>2, <1>5
      <4>2. Place(k)' = NextIn /\ Place(k + 1)' = NextIn'
        <5>1. k + 1 = Len(pipe) + 2 /\ k \in 1 .. Len(pipe) + 1
          BY <3>2, <1>1
        <5>2. Place(k) = NextIn
          BY <3>2, <1>1 DEF Place
        <5> QED
          BY <5>1, <5>2, <1>8, <1>9
      <4>3. After(Place(k))' = After(NextIn)
        BY <4>2, <1>1 DEF After
      <4> QED
        BY <4>1, <4>2, <4>3, <1>2, <1>4, <1>7
    <3> QED
      BY <3>1, <3>2, <1>1, <1>5
  <2> QED
    BY <2>1, <2>2, <1>1, <1>10 DEF ChainInv
<1>12. DecoderInv' /\ WholeMessages'
  BY <1>1 DEF Framing, DecoderInv, WholeMessages, Word, Arity
<1> QED
  BY <1>11, <1>12 DEF Framing

\* Taking the head of the pipe shifts the chain by one.
LEMMA TakeChain ==
    ASSUME IInv, Framing, pipe # <<>>, Fifo!Take, UNCHANGED <<sent, sender>>,
           NextOut' = After(NextOut)
    PROVE  ChainInv'
<1>1. /\ pipe \in Seq(Words) /\ Len(pipe) \in Nat \ {0} /\ pipe' = Tail(pipe)
      /\ Len(sent) \in Nat
  BY EmptySeq, LenProperties DEF IInv, TypeOK, Fifo!Take
<1>2. /\ Len(pipe') = Len(pipe) - 1
      /\ \A k \in 1 .. Len(pipe') : pipe'[k] = pipe[k + 1]
  BY <1>1, HeadTailProperties
<1>3. NextIn' = NextIn
  BY DEF NextIn, Writing, Writer, sender
<1>4. \A k \in 1 .. Len(pipe) : Place(k)' = Place(k + 1)
  BY <1>1, <1>2, <1>3 DEF Place
<1>5. \A p : After(p)' = After(p)
  BY DEF After
<1>6. \A m, i : Word(m, i)' = Word(m, i)
  BY DEF Word
<1>7. Place(1)' = NextOut'
  <2>1. 1 \in 1 .. Len(pipe)
    BY <1>1
  <2>2. Place(1)' = Place(2) /\ Place(2) = After(Place(1))
    BY <2>1, <1>4 DEF Framing, ChainInv
  <2> QED
    BY <2>2 DEF Framing, ChainInv
<1>8. ASSUME NEW k \in 1 .. Len(pipe')
      PROVE  /\ pipe'[k].of \in 1 .. Len(sent)
             /\ pipe'[k].at \in 0 .. Arity(sent[pipe'[k].of])
             /\ pipe'[k] = Word(pipe'[k].of, pipe'[k].at)
             /\ Place(k + 1)' = After(Place(k))'
  <2>1. k \in 1 .. Len(pipe) /\ k + 1 \in 1 .. Len(pipe) /\ pipe'[k] = pipe[k + 1]
    BY <1>1, <1>2
  <2>2. Place(k)' = Place(k + 1) /\ Place(k + 1)' = Place(k + 1 + 1)
    BY <2>1, <1>4
  <2>3. Place(k + 1 + 1) = After(Place(k + 1))
    BY <2>1 DEF Framing, ChainInv
  <2>4. After(Place(k))' = After(Place(k + 1))
    BY <2>2 DEF After
  <2> QED
    BY <2>1, <2>2, <2>3, <2>4 DEF Framing, ChainInv
<1> QED
  BY <1>6, <1>7, <1>8 DEF ChainInv, Word

\* The head of the pipe is the word that the decoder expects.
LEMMA HeadIsNext ==
    ASSUME IInv, Framing, pipe # <<>>
    PROVE  /\ Head(pipe) \in Words /\ NextOut = <<Head(pipe).of, Head(pipe).at>>
           /\ Head(pipe) = Word(Head(pipe).of, Head(pipe).at)
           /\ Head(pipe).of \in 1 .. Len(sent)
           /\ Head(pipe).at \in 0 .. Arity(sent[Head(pipe).of])
<1>0. pipe \in Seq(Words)
  BY DEF IInv, TypeOK
<1>1. Len(pipe) \in Nat \ {0} /\ 1 \in 1 .. Len(pipe)
  BY <1>0, EmptySeq
<1>2. Head(pipe) = pipe[1] /\ pipe[1] \in Words
  BY <1>0, <1>1, HeadTailProperties, ElementOfSeq
<1>3. Place(1) = <<pipe[1].of, pipe[1].at>>
  BY <1>1 DEF Place
<1> QED
  BY <1>1, <1>2, <1>3 DEF Framing, ChainInv

LEMMA ReadCommandFraming ==
    ASSUME IInv, Framing, ReadCommand PROVE Framing'
<1> DEFINE d == Len(calls) + 1
<1>1. pipe # <<>> /\ epc = "loop" /\ UNCHANGED <<sent, calls, sender>>
  BY DEF ReadCommand
<1>2. NextOut = <<d, 0>>
  BY <1>1 DEF NextOut
<1>3. Head(pipe).of = d /\ Head(pipe).at = 0 /\ d \in 1 .. Len(sent)
  BY <1>1, <1>2, HeadIsNext
<1>4. Head(pipe).code = sent[d] /\ sent[d] \in Kinds /\ Len(calls) \in Nat
  <2>1. Head(pipe) = Word(d, 0)
    BY <1>1, <1>3, HeadIsNext
  <2>2. sent \in Seq(Kinds) /\ Len(calls) \in Nat
    BY LenProperties DEF IInv, TypeOK
  <2>3. sent[d] \in Kinds
    BY <2>2, <1>3, ElementOfSeq
  <2> QED
    BY <2>1, <2>2, <2>3 DEF Word
<1>5. epc' = "args" /\ args' = <<>> /\ cmd' = sent[d]
  BY <1>4 DEF ReadCommand
<1>6. Arity(sent[d]) \in 1 .. 2
  BY <1>4, ArityIs
<1>7. NextOut' = After(NextOut)
  BY <1>1, <1>2, <1>5, <1>6 DEF NextOut, After
<1>8. ChainInv'
  BY <1>1, <1>7, TakeChain DEF ReadCommand
<1>9. DecoderInv'
  <2>1. Len(args') = 0 /\ Len(calls) < Len(sent) /\ 0 \in 0 .. Arity(sent[d])
        /\ 0 # Arity(sent[d])
    BY <1>3, <1>4, <1>5, <1>6
  <2> QED
    BY <2>1, <1>1, <1>5 DEF DecoderInv
<1>10. WholeMessages'
  BY <1>1 DEF Framing, WholeMessages, Word, Arity
<1> QED
  BY <1>8, <1>9, <1>10 DEF Framing

LEMMA ReadArgumentFraming ==
    ASSUME IInv, Framing, ReadArgument PROVE Framing'
<1> DEFINE d == Len(calls) + 1
<1>1. pipe # <<>> /\ epc = "args" /\ UNCHANGED <<sent, calls, cmd, sender>>
      /\ args' = Append(args, Head(pipe))
  BY DEF ReadArgument, Fifo!Take
<1>2. NextOut = <<d, Len(args) + 1>>
  BY <1>1 DEF NextOut
<1>3. /\ Len(calls) < Len(sent) /\ cmd = sent[d] /\ Len(args) \in 0 .. Arity(cmd)
      /\ Len(args) # Arity(cmd)
      /\ \A i \in 1 .. Len(args) : args[i] = Word(d, i)
  BY <1>1 DEF Framing, DecoderInv
<1>4. cmd \in Kinds /\ Arity(cmd) \in 1 .. 2
  BY <1>1, ArityIs DEF IInv, ServerInv
<1>5. Head(pipe) = Word(d, Len(args) + 1) /\ Head(pipe) \in Words
  BY <1>1, <1>2, HeadIsNext
<1>6. /\ Len(args') = Len(args) + 1 /\ args'[Len(args) + 1] = Head(pipe)
      /\ \A i \in 1 .. Len(args) : args'[i] = args[i]
  BY <1>1, <1>5, AppendProperties DEF IInv, TypeOK
<1>7. epc' = IF Len(args) + 1 = Arity(cmd) THEN "call" ELSE "args"
  BY DEF ReadArgument
<1>8. NextOut' = After(NextOut)
  <2>1. CASE Len(args) + 1 = Arity(cmd)
    <3>1. NextOut' = <<Len(calls) + 2, 0>>
      BY <2>1, <1>1, <1>7 DEF NextOut
    <3>2. After(NextOut) = <<d + 1, 0>>
      BY <2>1, <1>2, <1>3 DEF After
    <3>3. Len(calls) \in Nat
      BY LenProperties DEF IInv, TypeOK
    <3> QED
      BY <3>1, <3>2, <3>3
  <2>2. CASE Len(args) + 1 # Arity(cmd)
    <3>1. NextOut' = <<d, Len(args) + 2>>
      BY <2>2, <1>1, <1>3, <1>6, <1>7 DEF NextOut
    <3>2. After(NextOut) = <<d, Len(args) + 1 + 1>>
      BY <2>2, <1>2, <1>3 DEF After
    <3> QED
      BY <3>1, <3>2, <1>3
  <2> QED
    BY <2>1, <2>2
<1>9. ChainInv'
  BY <1>1, <1>8, TakeChain DEF ReadArgument
<1>10. DecoderInv'
  <2>1. \A i \in 1 .. Len(args') : args'[i] = Word(d, i)
    BY <1>3, <1>5, <1>6
  <2>2. Len(args') \in 0 .. Arity(cmd) /\ (epc' = "call" <=> Len(args') = Arity(cmd))
    BY <1>3, <1>4, <1>6, <1>7
  <2> QED
    BY <2>1, <2>2, <1>1, <1>3 DEF DecoderInv, Word, Arity
<1>11. WholeMessages'
  BY <1>1 DEF Framing, WholeMessages, Word, Arity
<1> QED
  BY <1>9, <1>10, <1>11 DEF Framing

LEMMA MakeCallFraming ==
    ASSUME IInv, Framing, MakeCall PROVE Framing'
<1> DEFINE d == Len(calls) + 1
           c == [kind |-> cmd, args |-> args]
<1>1. /\ epc = "call" /\ epc' = "loop" /\ calls' = Append(calls, c)
      /\ UNCHANGED <<pipe, sent, sender, cmd, args>>
  BY DEF MakeCall
<1>2. /\ Len(calls) < Len(sent) /\ cmd = sent[d] /\ Len(args) = Arity(cmd)
      /\ \A i \in 1 .. Len(args) : args[i] = Word(d, i)
  BY <1>1 DEF Framing, DecoderInv
<1>3. args = [i \in 1 .. Arity(sent[d]) |-> Word(d, i)]
  <2>1. args \in Seq(Words)
    BY DEF IInv, TypeOK
  <2>2. args = [i \in 1 .. Len(args) |-> args[i]]
    BY <2>1
  <2> QED
    BY <2>2, <1>2
<1>4. /\ Len(calls) \in Nat /\ Len(sent) \in Nat
      /\ Len(calls') = Len(calls) + 1 /\ calls'[d] = c
      /\ \A m \in 1 .. Len(calls) : calls'[m] = calls[m]
  <2>1. c \in [kind : Kinds, args : Seq(Words)]
    BY <1>1 DEF IInv, TypeOK, ServerInv
  <2> QED
    BY <2>1, <1>1, AppendProperties, LenProperties DEF IInv, TypeOK
<1>5. NextOut' = NextOut
  BY <1>1, <1>4 DEF NextOut
<1>6. NextIn' = NextIn
  BY <1>1 DEF NextIn, Writing, Writer, sender
<1>7. ChainInv'
  BY <1>1, <1>5, <1>6 DEF Framing, ChainInv, Place, After, Word
<1>8. DecoderInv'
  BY <1>1 DEF DecoderInv
<1>9. WholeMessages'
  <2>1. Len(calls') <= Len(sent)
    BY <1>2, <1>4
  <2>2. ASSUME NEW m \in 1 .. Len(calls')
        PROVE  calls'[m] = [kind |-> sent[m],
                            args |-> [i \in 1 .. Arity(sent[m]) |-> Word(m, i)]]
    <3>1. CASE m \in 1 .. Len(calls)
      BY <3>1, <1>4 DEF Framing, WholeMessages
    <3>2. CASE m = d
      BY <3>2, <1>2, <1>3, <1>4
    <3> QED
      BY <3>1, <3>2, <1>4
  <2> QED
    BY <2>1, <2>2, <1>1 DEF WholeMessages, Word
<1> QED
  BY <1>7, <1>8, <1>9 DEF Framing

LEMMA StepFraming == IInv /\ IInv' /\ Framing /\ [N2ANext]_vars => Framing'
<1> SUFFICES ASSUME IInv, IInv', Framing, [N2ANext]_vars PROVE Framing'
  OBVIOUS
<1>1. ASSUME NEW s \in Senders,
             Begin(s) \/ LoadBits(s) \/ StoreBits(s) \/ Post(s)
      PROVE  Framing'
  <2>1. /\ UNCHANGED <<msg, pos, pipe, sent, calls, cmd, args, epc>>
        /\ \A t \in Senders : spc'[t] = "write" <=> spc[t] = "write"
    BY <1>1 DEF Begin, LoadBits, StoreBits, Post, Goto, server, IInv, TypeOK
  <2>2. NextIn' = NextIn
    BY <2>1, NextInStays DEF IInv
  <2>3. NextOut' = NextOut
    BY <2>1 DEF NextOut
  <2> QED
    BY <2>1, <2>2, <2>3, FramingStays
<1>2. ASSUME NEW s \in Senders, NEW kind \in Kinds, Acquire(s, kind)
      PROVE  Framing'
  BY <1>2, AcquireFraming
<1>3. ASSUME NEW s \in Senders, WriteWord(s) PROVE Framing'
  BY <1>3, WriteFraming
<1>4. CASE Poll \/ NotForUs \/ ForUs \/ ClearBit \/ ServeUnit \/ EndServer \/ Rethink
           \/ UNCHANGED vars
  <2>1. /\ UNCHANGED <<sender, pipe, sent, calls, cmd, args>>
        /\ epc' # epc => epc \notin {"args", "call"} /\ epc' \notin {"args", "call"}
    BY <1>4 DEF Poll, NotForUs, ForUs, ClearBit, ServeUnit, EndServer, Rethink, RethinkGoesOn,
       LoadOther, ResetOther, ReloadOther, SetOther, Running, vars, server
  <2>2. NextIn' = NextIn
    BY <2>1 DEF NextIn, Writing, Writer, sender
  <2>3. NextOut' = NextOut
    BY <2>1 DEF NextOut
  <2> QED
    BY <2>1, <2>2, <2>3, FramingStays
<1>5. CASE ReadCommand \/ ReadArgument \/ MakeCall
  BY <1>5, ReadCommandFraming, ReadArgumentFraming, MakeCallFraming
<1> QED
  BY <1>1, <1>2, <1>3, <1>4, <1>5 DEF N2ANext, SendStep, ServerStep, Quiet

\* The interrupt server decodes exactly the messages that were sent, in the order
\* in which their senders got n2asem (native2amiga.cpp:59-105, filesys.cpp:6573).
THEOREM Whole == N2ASpec => []WholeMessages
<1>1. Framing => WholeMessages
  BY DEF Framing
<1> QED
  BY <1>1, InitFraming, StepFraming, Invariance, PTL DEF N2ASpec
=============================================================================
