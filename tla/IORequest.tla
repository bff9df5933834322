----------------------------- MODULE IORequest -----------------------------
(***************************************************************************)
(* What exec expects of a device and what the devices of the emulator      *)
(* promise: a request that was begun belongs to the device until the reply *)
(* to it arrives.  Hardfile implements this specification.                 *)
(*                                                                         *)
(* A device never sends more replies than it was given requests, whatever  *)
(* the guest does (it may lose some); and while nobody breaks exec's rules *)
(* (polite) there is one reply to a request, sent while the device has it. *)
(***************************************************************************)
EXTENDS Naturals

CONSTANTS Request

VARIABLES owner,        \* per request: "guest" or "device"
          replies,      \* per request: ReplyMsg calls on their way to the guest
          owed,         \* per request: calls of BeginIO that are not answered yet
          polite        \* nobody has broken the rules

ioVars == <<owner, replies, owed, polite>>

IOInit == /\ owner = [r \in Request |-> "guest"] /\ replies = [r \in Request |-> 0]
          /\ owed = [r \in Request |-> 0]

Lose(R) == \A r \in R : owed'[r] <= owed[r]

Begun(r) ==
    /\ owner' = [owner EXCEPT ![r] = "device"] /\ UNCHANGED replies
    /\ owed'[r] <= owed[r] + 1 /\ Lose(Request \ {r})

Replied(r) ==
    /\ replies' = [replies EXCEPT ![r] = @ + 1] /\ UNCHANGED owner
    /\ owed'[r] < owed[r] /\ Lose(Request \ {r})

Taken(r) ==
    /\ replies[r] > 0 /\ replies' = [replies EXCEPT ![r] = @ - 1]
    /\ owner' = [owner EXCEPT ![r] = "guest"] /\ Lose(Request)

\* A quick request is finished when BeginIO returns.
DoneQuick(r) ==
    /\ owner' = [owner EXCEPT ![r] = "guest"] /\ UNCHANGED replies
    /\ owed'[r] < owed[r] /\ Lose(Request \ {r})

\* A request that the device keeps (a change interrupt) or loses is not answered.
Dropped == UNCHANGED <<owner, replies>> /\ Lose(Request)

\* The machine is reset: nobody remembers a request.
Forgotten ==
    /\ owner' = [r \in Request |-> "guest"] /\ replies' = [r \in Request |-> 0]
    /\ Lose(Request)

IONext == \/ Dropped \/ Forgotten
          \/ \E r \in Request : Begun(r) \/ Replied(r) \/ Taken(r) \/ DoneQuick(r)

\* One answer to a request that is the device's, and none to any other.
OneAnswerNext ==
    \/ owner' = [r \in Request |-> "guest"] /\ replies' = [r \in Request |-> 0]
    \/ \E r \in Request :
          \/ /\ owner[r] = "guest" /\ replies[r] = 0
             /\ owner' = [owner EXCEPT ![r] = "device"] /\ UNCHANGED replies
          \/ /\ owner[r] = "device" /\ replies[r] = 0
             /\ replies' = [replies EXCEPT ![r] = 1] /\ UNCHANGED owner
          \/ /\ replies[r] = 1 /\ replies' = [replies EXCEPT ![r] = 0]
             /\ owner' = [owner EXCEPT ![r] = "guest"]
          \/ /\ owner[r] = "device" /\ replies[r] = 0
             /\ owner' = [owner EXCEPT ![r] = "guest"] /\ UNCHANGED replies

OneAnswer == [][polite' => OneAnswerNext]_<<owner, replies>>

IOSpec == IOInit /\ [][IONext]_ioVars /\ OneAnswer
=============================================================================
