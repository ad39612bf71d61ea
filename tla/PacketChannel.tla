--------------------------- MODULE PacketChannel ---------------------------
(***************************************************************************)
(* What a PacketQueue promises to its two users, the thread that pushes    *)
(* and the thread that pops, with no packet pool, ring buffer, condition   *)
(* variable or timeout in sight: a bounded first-in first-out channel.     *)
(*                                                                         *)
(* A message the consumer is working on still counts against the capacity: *)
(* the pool lends the packet to the consumer until its action returned.    *)
(***************************************************************************)
EXTENDS Naturals, Sequences

CONSTANTS
  Messages,   \* what a packet can carry
  Capacity,   \* messages the channel and its consumer hold at most
  NoMessage   \* the consumer is working on nothing

VARIABLES
  chan,       \* messages accepted and not yet taken, oldest first
  out         \* the message handed to the consumer's action, or NoMessage

vars == <<chan, out>>

Outstanding == Len(chan) + (IF out = NoMessage THEN 0 ELSE 1)

Init ==
  /\ chan = <<>>
  /\ out = NoMessage

(* push() took the message: it will be delivered once, after the earlier.  *)
Accept(m) ==
  /\ Outstanding < Capacity
  /\ chan' = Append(chan, m)
  /\ UNCHANGED out

(* pop() hands the oldest message to the consumer's action.                *)
Take ==
  /\ out = NoMessage
  /\ chan # <<>>
  /\ out' = Head(chan)
  /\ chan' = Tail(chan)

(* The consumer's action returned, whatever it returned: the message is    *)
(* consumed, never offered again.                                          *)
Finish ==
  /\ out # NoMessage
  /\ out' = NoMessage
  /\ UNCHANGED chan

Next ==
  \/ \E m \in Messages : Accept(m)
  \/ Take
  \/ Finish

Spec == Init /\ [][Next]_vars

(* A consumer that keeps calling pop() is served and finishes.             *)
Fairness == WF_vars(Take) /\ WF_vars(Finish)
=============================================================================
