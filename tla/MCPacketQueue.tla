--------------------------- MODULE MCPacketQueue ---------------------------
(***************************************************************************)
(* PacketQueue on small pools.  Two payloads of different length tell a    *)
(* reordered, repeated or overwritten packet from the right one.           *)
(***************************************************************************)
EXTENDS PacketQueue

MCLength == [d \in Payloads |-> IF d = "ping" THEN 1 ELSE 2]

(* The counters the accounting laws relate.                                *)
FlowCounters ==
  {"allocOk", "pushActionFailed", "pushFailed", "pushOk", "popOk",
   "popActionFailed", "pushPacketSize", "popPacketSize"}
=============================================================================
