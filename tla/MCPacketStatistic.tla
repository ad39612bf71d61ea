------------------------- MODULE MCPacketStatistic -------------------------
(***************************************************************************)
(* PacketStatistic with one counter of the pushing and one of the popping  *)
(* thread, so that a collect() can meet both in any order.                 *)
(***************************************************************************)
EXTENDS PacketStatistic

MCFields == {"pushOk", "popOk"}
MCWriter == [f \in Fields |-> IF f = "pushOk" THEN "pushing" ELSE "popping"]
=============================================================================
