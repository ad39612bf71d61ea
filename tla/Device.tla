------------------------------- MODULE Device -------------------------------
(***************************************************************************)
(* What a TunDevice promises to the connection that uses it: start() makes *)
(* it run or leaves it as it was, it may fail by itself, and it is stopped *)
(* once for every start, by a stop() that returns with the device's        *)
(* threads gone.  TunDevice.tla implements it, TunaServer.tla relies on it *)
(* for each device it makes.                                               *)
(***************************************************************************)
VARIABLE state

States == {"none", "running", "failed", "stopping", "stopped"}

Init == state = "none"

Moves(from, to) == state \in from /\ state' = to

Start == Moves({"none", "stopped"}, "running")

(* The tun failed and the threads have ended.                              *)
Fail == Moves({"running"}, "failed")

StopCall == Moves({"running", "failed"}, "stopping")

StopReturn == Moves({"stopping"}, "stopped")

Next == Start \/ Fail \/ StopCall \/ StopReturn

Spec == Init /\ [][Next]_state
=============================================================================
