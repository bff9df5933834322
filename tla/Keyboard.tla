------------------------------ MODULE Keyboard ------------------------------
(***************************************************************************)
(* The way of a key from the host to the guest: the ring of keybuf.cpp,    *)
(* filled by the host's input, and the keyboard that cia.cpp emulates at   *)
(* the serial port of CIA-A.  A code is sent, an interrupt is raised, and  *)
(* the guest answers with a pulse (bit 6 of CRA); without an answer the    *)
(* code is sent again.  The keys of a reset take the same way: the guest   *)
(* is warned twice and may delay the reset.                                *)
(*                                                                         *)
(* Everything but HostKey runs on the emulation thread.  The host's input  *)
(* may run there too, or on a thread of its own, as console_thread of      *)
(* consolehook.cpp does, which fills the ring without a lock.              *)
(*                                                                         *)
(* Keys are numbered in the order in which the ring takes them.  Codes     *)
(* that are no keys are numbers below 1.                                   *)
(***************************************************************************)
EXTENDS Integers, Sequences

CONSTANTS KEYBUF_SIZE,
          MaxKeys,          \* bound: keys in a behaviour
          LostSync,         \* frames before a code is sent again (64)
          WarnTime,         \* lines the guest has to answer a warning (5 frames)
          HoldTime,         \* lines the guest may delay the reset (10 seconds)
          MaxMisses,        \* bound: keyboard interrupts the guest loses
          OwnThread,        \* TRUE: the host's input runs on a thread of its own
          PromptAck         \* TRUE: the pulse of a guest that lives is never late

ASSUME KeyboardAssumption ==
    /\ KEYBUF_SIZE \in Nat \ {0, 1} /\ MaxKeys \in Nat
    /\ LostSync \in Nat \ {0} /\ WarnTime \in Nat \ {0} /\ HoldTime \in Nat \ {0}
    /\ MaxMisses \in Nat /\ {OwnThread, PromptAck} \subseteq BOOLEAN

VARIABLES
    keybuf, kpb_first, kpb_last,    \* the ring
    kbstate, kbcode, kblostsynccnt, \* keyboard: power-up state, code sent, frames left
    ciaasdr, ciaaicr, ciaacra,      \* CIA-A: data, serial interrupt, output mode
    resetwarning_phase, resetwarning_timer,
    quit_program,                   \* a reset is asked for
    guest,                          \* its keyboard interrupt: "idle", "read", "pulse", "dead"
    recorded, taken, overrun,       \* last key the ring took, last one it gave up; one too many
    draining,                       \* the keys of a warning's line are being thrown away
    seen, greeted, misses,          \* guest: last key read, power-up codes, lost interrupts
    warned, midway                  \* warnings read; the first came in the middle of an answer

ring   == <<keybuf, kpb_first, kpb_last, recorded, taken, overrun>>
cia    == <<kbcode, kblostsynccnt, ciaasdr, ciaaicr>>
reset  == <<resetwarning_phase, resetwarning_timer, quit_program>>
amiga  == <<guest, seen, greeted, misses>>
notice == <<warned, midway>>
kbvars == <<ring, kbstate, cia, ciaacra, reset, draining, amiga, notice>>

RESYNC == 0
INIT_POWERUP == -1
TERM_POWERUP == -2
RESETWARNING == -3
Codes == RESETWARNING .. MaxKeys

Slots == 0 .. KEYBUF_SIZE - 1

KeyboardInit ==
    /\ keybuf = [i \in Slots |-> 0] /\ kpb_first = 0 /\ kpb_last = 0
    /\ kbstate = 0 /\ kbcode = 0 /\ kblostsynccnt = 0
    /\ ciaasdr = 0 /\ ciaaicr = FALSE /\ ciaacra = FALSE
    /\ resetwarning_phase = 0 /\ resetwarning_timer = 0 /\ quit_program = FALSE
    /\ guest = "idle" /\ draining = FALSE /\ midway = FALSE /\ overrun = FALSE
    /\ recorded = 0 /\ taken = 0 /\ seen = 0 /\ greeted = 0 /\ warned = 0 /\ misses = 0

-----------------------------------------------------------------------------
(* keybuf.cpp *)

Wrapped(i) == IF i = KEYBUF_SIZE THEN 0 ELSE i

keys_available == kpb_first # kpb_last

\* Between the increment of kpb_last and its wrap another thread sees KEYBUF_SIZE.
Whole == kpb_last # KEYBUF_SIZE

\* The emulation thread is at the end of a line, a frame or an instruction of the guest.
Ready == Whole /\ ~draining

\* The slot after kpb_first holds the oldest key, whichever index kpb_last shows.
Full == Wrapped(kpb_first + 1) = Wrapped(kpb_last)

\* Mutant: a full ring is told from an empty one only in the middle of the array.
HasRoomUnwrapped == kpb_first + 1 # kpb_last

\* record_key_direct, and record_key while the emulation is not paused: a key for
\* which there is no room is dropped.
HasRoom == Wrapped(kpb_first + 1) # kpb_last

record_key ==
    /\ IF recorded < MaxKeys /\ HasRoom
       THEN /\ recorded' = recorded + 1
            /\ keybuf' = [keybuf EXCEPT ![kpb_first] = recorded + 1]
            /\ kpb_first' = Wrapped(kpb_first + 1)
            /\ overrun' = (overrun \/ (Full /\ ~Whole))
       ELSE UNCHANGED <<recorded, keybuf, kpb_first, overrun>>
    /\ UNCHANGED <<kpb_last, taken>>

\* The index is incremented here and wrapped by a second store.
get_next_key ==
    /\ kpb_last' = kpb_last + 1
    /\ taken' = keybuf[kpb_last]
    /\ UNCHANGED <<keybuf, kpb_first, recorded, overrun>>

Wrap ==
    /\ ~Whole /\ kpb_last' = 0
    /\ UNCHANGED <<keybuf, kpb_first, recorded, taken, overrun>>
    /\ UNCHANGED <<kbstate, cia, ciaacra, reset, draining, amiga, notice>>

-----------------------------------------------------------------------------
(* cia.cpp, the keyboard's side. *)

\* keyreq and sendrw: a code appears at the port.
Send(code) ==
    /\ kbcode' = code /\ ciaasdr' = code
    /\ kblostsynccnt' = LostSync /\ ciaaicr' = TRUE

\* Mutant: the keyboard does not wait for the answer to the last code.
check_impatient ==
    /\ Ready /\ resetwarning_phase = 0
    /\ \/ /\ kbstate < 3 /\ kbstate' = kbstate + 1
          /\ Send(-kbstate) /\ UNCHANGED ring
       \/ /\ kbstate = 3 /\ keys_available /\ UNCHANGED kbstate
          /\ get_next_key /\ Send(keybuf[kpb_last])
    /\ UNCHANGED <<ciaacra, reset, draining, amiga, notice>>

\* check_keyboard; every sixteenth line of CIA_hsync_posthandler.
check_keyboard ==
    /\ Ready /\ resetwarning_phase = 0 /\ kblostsynccnt = 0
    /\ \/ /\ kbstate < 3 /\ kbstate' = kbstate + 1
          /\ Send(-kbstate) /\ UNCHANGED ring
       \/ /\ kbstate = 3 /\ keys_available /\ UNCHANGED kbstate
          /\ get_next_key /\ Send(keybuf[kpb_last])
    /\ UNCHANGED <<ciaacra, reset, draining, amiga, notice>>

\* Mutant: after the last frame the code is at the port again, without an interrupt.
ResendSilently ==
    /\ kbcode' = kbcode /\ ciaasdr' = kbcode
    /\ kblostsynccnt' = LostSync /\ UNCHANGED ciaaicr

Resend == Send(kbcode)

\* CIA_vsync_prehandler.
CIA_vsync ==
    /\ Ready /\ kblostsynccnt > 0
    /\ PromptAck /\ kblostsynccnt = 1 => guest \in {"idle", "dead"}
    /\ IF kblostsynccnt = 1 THEN Resend
       ELSE kblostsynccnt' = kblostsynccnt - 1 /\ UNCHANGED <<kbcode, ciaasdr, ciaaicr>>
    /\ UNCHANGED <<ring, kbstate, ciaacra, reset, draining, amiga, notice>>

\* resetwarning_do when no warning is under way; else it forgets the one that is.
resetwarning_do ==
    /\ resetwarning_phase = 0
    /\ resetwarning_phase' = 1 /\ resetwarning_timer' = WarnTime
    /\ Send(RESETWARNING) /\ warned' = 0 /\ midway' = (guest \in {"read", "pulse"})

\* The keys of a reset in inputdevice_do_keyboard.  resetwarning_do is not asked when
\* an Alt key is down or warnings are off.  Without a new warning the machine is
\* reset at once, and the key is recorded all the same.
ResetKeys ==
    /\ Ready
    /\ \/ resetwarning_do /\ UNCHANGED <<ring, quit_program>>
       \/ /\ \/ resetwarning_phase' = 0 /\ resetwarning_timer' = 0
             \/ UNCHANGED <<resetwarning_phase, resetwarning_timer>>
          /\ quit_program' = TRUE /\ record_key
          /\ UNCHANGED <<cia, notice>>
    /\ UNCHANGED <<kbstate, ciaacra, draining, amiga>>

\* resetwarning_check, every line of CIA_hsync_posthandler while a warning is under
\* way; the timer has been counted down before the phases are looked at.
Forced ==
    /\ resetwarning_timer = 1
    /\ resetwarning_timer' = 0 /\ resetwarning_phase' = -1 /\ quit_program' = TRUE
    /\ kblostsynccnt' = 0 /\ UNCHANGED <<kbcode, ciaasdr, ciaaicr>>

CountDown == resetwarning_timer' = IF resetwarning_timer > 0 THEN resetwarning_timer - 1 ELSE 0

\* Mutants: the second warning has no limit, or does not wait for the first answer.
SecondUnlimited ==
    /\ resetwarning_timer # 1 /\ resetwarning_phase = 1 /\ kblostsynccnt = 0
    /\ resetwarning_phase' = 2 /\ resetwarning_timer' = 0
    /\ Send(RESETWARNING) /\ UNCHANGED quit_program

SecondAtOnce ==
    /\ resetwarning_timer # 1 /\ resetwarning_phase = 1
    /\ resetwarning_phase' = 2 /\ resetwarning_timer' = WarnTime
    /\ Send(RESETWARNING) /\ UNCHANGED quit_program

SecondWarning ==
    /\ resetwarning_timer # 1 /\ resetwarning_phase = 1 /\ kblostsynccnt = 0
    /\ resetwarning_phase' = 2 /\ resetwarning_timer' = WarnTime
    /\ Send(RESETWARNING) /\ UNCHANGED quit_program

HoldBegins ==
    /\ resetwarning_timer # 1 /\ resetwarning_phase = 2 /\ ciaacra
    /\ resetwarning_phase' = 3 /\ resetwarning_timer' = HoldTime
    /\ UNCHANGED <<cia, quit_program>>

HoldEnds ==
    /\ resetwarning_timer # 1 /\ resetwarning_phase = 3 /\ ~ciaacra
    /\ resetwarning_phase' = -1 /\ CountDown /\ quit_program' = TRUE
    /\ kblostsynccnt' = 0 /\ UNCHANGED <<kbcode, ciaasdr, ciaaicr>>

Waiting ==
    /\ resetwarning_timer # 1
    /\ \/ resetwarning_phase = 1 /\ kblostsynccnt # 0
       \/ resetwarning_phase = 2 /\ ~ciaacra
       \/ resetwarning_phase = 3 /\ ciaacra
       \/ resetwarning_phase = -1
    /\ CountDown /\ UNCHANGED <<cia, resetwarning_phase, quit_program>>

resetwarning_check ==
    /\ Ready /\ resetwarning_phase # 0
    /\ Forced \/ SecondWarning \/ HoldBegins \/ HoldEnds \/ Waiting
    /\ draining' = TRUE
    /\ UNCHANGED <<ring, kbstate, ciaacra, amiga, notice>>

\* ... and the line goes on to take and forget every key.
Drain ==
    /\ Whole /\ draining
    /\ IF keys_available THEN get_next_key /\ UNCHANGED draining
       ELSE draining' = FALSE /\ UNCHANGED ring
    /\ UNCHANGED <<kbstate, cia, ciaacra, reset, amiga, notice>>

\* The machine is reset.  The ring is not.
CIA_reset ==
    /\ Ready /\ quit_program
    /\ kbstate' = 0 /\ kblostsynccnt' = 0 /\ UNCHANGED kbcode
    /\ ciaasdr' = 0 /\ ciaaicr' = FALSE /\ ciaacra' = FALSE
    /\ resetwarning_phase' = 0 /\ resetwarning_timer' = 0 /\ quit_program' = FALSE
    /\ guest' = "idle" /\ seen' = taken /\ greeted' = 0
    /\ warned' = 0 /\ midway' = FALSE
    /\ UNCHANGED <<ring, draining, misses>>

-----------------------------------------------------------------------------
(* The guest's keyboard interrupt reads the code and answers with a pulse. *)

GuestRead ==
    /\ Ready /\ guest = "idle" /\ ciaaicr
    /\ guest' = "read" /\ ciaaicr' = FALSE
    /\ seen' = IF ciaasdr > 0 THEN ciaasdr ELSE seen
    /\ greeted' = IF greeted < 3 /\ ciaasdr = -greeted THEN greeted + 1 ELSE greeted
    /\ warned' = IF ciaasdr = RESETWARNING /\ warned < 2 THEN warned + 1 ELSE warned
    /\ UNCHANGED <<ring, kbstate, kbcode, kblostsynccnt, ciaasdr, ciaacra, reset, draining,
                   misses, midway>>

\* WriteCIAA of CRA: the end of the pulse is the answer.
GuestPulse ==
    /\ Ready /\ guest = "read"
    /\ guest' = "pulse" /\ ciaacra' = TRUE
    /\ UNCHANGED <<ring, kbstate, cia, reset, draining, seen, greeted, misses, notice>>

GuestAnswer ==
    /\ Ready /\ guest = "pulse"
    /\ guest' = "idle" /\ ciaacra' = FALSE /\ kblostsynccnt' = 0
    /\ UNCHANGED <<ring, kbstate, kbcode, ciaasdr, ciaaicr, reset, draining, seen, greeted, misses,
                   notice>>

\* Code that reads ICR for another reason takes the keyboard's interrupt with it.
GuestMiss ==
    /\ Ready /\ guest = "idle" /\ ciaaicr /\ misses < MaxMisses
    /\ ciaaicr' = FALSE /\ misses' = misses + 1
    /\ UNCHANGED <<ring, kbstate, kbcode, kblostsynccnt, ciaasdr, ciaacra, reset, draining, guest,
                   seen, greeted, notice>>

GuestDies ==
    /\ Ready /\ guest # "dead" /\ guest' = "dead"
    /\ UNCHANGED <<ring, kbstate, cia, ciaacra, reset, draining, seen, greeted, misses, notice>>

HostKey ==
    /\ OwnThread \/ Ready
    /\ record_key /\ UNCHANGED <<kbstate, cia, ciaacra, reset, draining, amiga, notice>>

GuestStep == GuestRead \/ GuestPulse \/ GuestAnswer

KeyboardNext ==
    \/ HostKey \/ Wrap
    \/ check_keyboard \/ CIA_vsync \/ ResetKeys \/ resetwarning_check \/ Drain \/ CIA_reset
    \/ GuestStep \/ GuestMiss \/ GuestDies

KeyboardSpec == KeyboardInit /\ [][KeyboardNext]_kbvars

\* Lines and frames go by, a reset that is asked for is done, and a guest that lives
\* serves its interrupts.
KeyboardFairSpec ==
    /\ KeyboardSpec
    /\ WF_kbvars(Wrap) /\ WF_kbvars(check_keyboard) /\ WF_kbvars(CIA_vsync)
    /\ WF_kbvars(resetwarning_check) /\ WF_kbvars(Drain) /\ WF_kbvars(CIA_reset)
    /\ WF_kbvars(GuestStep)

-----------------------------------------------------------------------------
(* Properties. *)

\* Every variable keeps its type; the indexes stay in the array.
KeyTypes ==
    /\ keybuf \in [Slots -> 0 .. MaxKeys] /\ kpb_first \in Slots
    /\ kpb_last \in 0 .. KEYBUF_SIZE
    /\ kbstate \in 0 .. 3 /\ kbcode \in Codes /\ kblostsynccnt \in 0 .. LostSync
    /\ ciaasdr \in Codes /\ ciaaicr \in BOOLEAN /\ ciaacra \in BOOLEAN
    /\ resetwarning_phase \in -1 .. 3 /\ quit_program \in BOOLEAN
    /\ resetwarning_timer \in 0 .. (WarnTime + HoldTime)
    /\ guest \in {"idle", "read", "pulse", "dead"}
    /\ recorded \in 0 .. MaxKeys /\ taken \in 0 .. MaxKeys /\ seen \in 0 .. MaxKeys
    /\ greeted \in 0 .. 3 /\ warned \in 0 .. 2 /\ misses \in 0 .. MaxMisses
    /\ {draining, midway, overrun} \subseteq BOOLEAN

\* The ring holds the keys that were recorded and not taken, in order: "This code
\* should be perfectly thread safe" (keybuf.cpp:9).
Used == IF kpb_last <= kpb_first THEN kpb_first - kpb_last
        ELSE kpb_first - kpb_last + KEYBUF_SIZE
Place(i) == IF kpb_last + i < KEYBUF_SIZE THEN kpb_last + i ELSE kpb_last + i - KEYBUF_SIZE

RingExact ==
    Whole => /\ recorded - taken = Used
             /\ \A i \in 0 .. Used - 1 : keybuf[Place(i)] = taken + 1 + i

\* It is so with two threads, too, as long as nobody records a key in a full ring
\* between the increment of kpb_last and its wrap (keybuf.cpp:44); only there does
\* record_key find room that is not there.
RingSafe == ~overrun => RingExact

\* The guest reads each key once and in order, after the codes of power-up, although
\* codes are sent again when an answer is overdue.
KeysInOrder ==
    [][GuestRead /\ ciaasdr > 0 /\ ~quit_program /\ ~overrun
       => ciaasdr = seen + 1 /\ greeted = 3]_kbvars

\* A machine that is reset because the guest let go of the line was warned twice; a
\* guest that was answering a key when the first warning came was warned once at
\* least, since the end of that answer is taken for the warning's (cia.cpp:695).
ResetAnnounced ==
    [][resetwarning_phase = 3 /\ resetwarning_phase' = -1 /\ resetwarning_timer # 1
       => warned = 2 \/ (midway /\ warned = 1)]_kbvars

\* A guest that lives reads every key that was recorded, also when its interrupt is
\* lost, unless a reset comes first.  (There are MaxKeys keys; then it has caught up.)
KeysArrive ==
    recorded > seen ~> seen = recorded \/ overrun \/ resetwarning_phase # 0 \/ quit_program
                       \/ guest = "dead"

\* A warning always ends in a reset, whatever the guest does.
ResetHappens == resetwarning_phase # 0 ~> quit_program
=============================================================================
