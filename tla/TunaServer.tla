----------------------------- MODULE TunaServer -----------------------------
(***************************************************************************)
(* TunaServer (src/tuna_server.hpp) and the stop() of TunaTor              *)
(* (src/tunator.cpp): the websocket's connections, the pool of io threads  *)
(* that runs their handlers, the devices the handlers make, and the map    *)
(* tunDevices from a connection to its device.                             *)
(*                                                                         *)
(* The websocket library runs the handlers of one connection one after the *)
(* other, and those of different connections on any io thread that is      *)
(* free.  Nothing locks the map: its find(), insert(), erase() and size()  *)
(* take a step to begin and a step to end, and a state in which one thread *)
(* changes the map while another is at it is final: what the program does  *)
(* from there on is undefined.                                             *)
(*                                                                         *)
(* A device is what Device.tla says and TunDevice.tla implements: start()  *)
(* fails or leaves it running with four threads, its tun may fail, and     *)
(* stop() returns.  A second stop() of one device joins threads that are   *)
(* joined already, which throws: the device is then "broken".              *)
(***************************************************************************)
EXTENDS Integers, FiniteSets

CONSTANTS
  Connections,  \* every connection a client ever opens
  IoThreads,    \* how many io threads run the handlers, at most
  MaxInits      \* bound: devices made for one connection

ASSUME ServerAssumption ==
  /\ IsFiniteSet(Connections)
  /\ IoThreads \in Nat \ {0} /\ MaxInits \in Nat

VARIABLES
  conn,        \* each connection: new, open, closing (onclose or onerror is
               \* due), closed (one of them has come), gone (both have)
  at,          \* where each connection's handler is, "idle" if none runs
  message,     \* the message a handler is looking at, "none" if it is not
  inits,       \* how many devices were made for each connection
  hand,        \* the device actionInit() is about to insert, or 0
  tunDevices,  \* the map: a connection's device, 0 if it has no entry
  dev,         \* each connection's devices, by their number
  server,      \* TunaTor: serving, or where its stop() is
  threads      \* how many io threads run the handlers (--threads)

vars == <<conn, at, message, inits, hand, tunDevices, dev, server, threads>>

(* "json" is a JSON message that is no init: a pong, one that does not     *)
(* parse, one of an unknown action.  "other" is any other header.          *)
Messages == {"init", "json", "PAKT", "other"}

Init ==
  /\ conn = [c \in Connections |-> "new"]
  /\ at = [c \in Connections |-> "idle"]
  /\ message = [c \in Connections |-> "none"]
  /\ inits = [c \in Connections |-> 0]
  /\ hand = [c \in Connections |-> 0]
  /\ tunDevices = [c \in Connections |-> 0]
  /\ dev = [c \in Connections |-> [n \in 1..MaxInits |-> "none"]]
  /\ server = "serving"
  /\ threads \in 1..IoThreads
-----------------------------------------------------------------------------
(* Who is at the map, and who of them changes it.                          *)
Readers == {c \in Connections : at[c] \in {"find", "closeFind"}}
Changers == {c \in Connections : at[c] \in {"insert", "erase"}}

Race ==
  \/ Cardinality(Changers) > 1
  \/ Changers # {} /\ (Readers # {} \/ server = "size")

(* A device whose threads have ended by themselves, that nothing refers    *)
(* to: ~TunDevice() destroys threads nobody joined, which ends the process *)
Unjoined(c, n) ==
  dev[c][n] = "failed" /\ tunDevices[c] # n /\ hand[c] # n

Terminated == \E c \in Connections, n \in 1..MaxInits : Unjoined(c, n)

Halted == Race \/ Terminated

(* The handler of c goes on.                                               *)
Step(c, from, to) ==
  /\ ~Halted
  /\ at[c] = from
  /\ at' = [at EXCEPT ![c] = to]

(* The library runs a handler on a free io thread until it is stopped.     *)
Dispatch(c, to) ==
  /\ server \in {"serving", "size", "sleep"}
  /\ Cardinality({d \in Connections : at[d] # "idle"}) < threads
  /\ Step(c, "idle", to)
-----------------------------------------------------------------------------
(* The client's side.                                                      *)

(* onopen() only logs.                                                     *)
Open(c) ==
  /\ ~Halted /\ server \in {"serving", "size", "sleep"}
  /\ conn[c] = "new"
  /\ conn' = [conn EXCEPT ![c] = "open"]
  /\ UNCHANGED <<at, message, inits, hand, tunDevices, dev, server, threads>>

(* The client closes, or the connection fails.                             *)
Close(c) ==
  /\ ~Halted
  /\ conn[c] = "open"
  /\ conn' = [conn EXCEPT ![c] = "closing"]
  /\ UNCHANGED <<at, message, inits, hand, tunDevices, dev, server, threads>>
-----------------------------------------------------------------------------
(* onmessage().                                                            *)

OnMessage(c, m) ==
  /\ conn[c] = "open"
  /\ m = "init" => inits[c] < MaxInits
  /\ Dispatch(c, "find")
  /\ message' = [message EXCEPT ![c] = m]
  /\ UNCHANGED <<conn, inits, hand, tunDevices, dev, server, threads>>

(* Mutant: a packet does not need a device.                                *)
Found_Unchecked(c) ==
  /\ Step(c, "find", IF message[c] = "init" THEN "init"
                     ELSE IF message[c] = "PAKT" THEN "push" ELSE "idle")
  /\ message' = [message EXCEPT ![c] = "none"]
  /\ UNCHANGED <<conn, inits, hand, tunDevices, dev, server, threads>>

(* An init goes to actionInit() whether the connection has a device or not *)
Found(c) ==
  /\ Step(c, "find", IF message[c] = "init" THEN "init"
                     ELSE IF message[c] = "PAKT" /\ tunDevices[c] # 0 THEN "push"
                     ELSE "idle")
  /\ message' = [message EXCEPT ![c] = "none"]
  /\ UNCHANGED <<conn, inits, hand, tunDevices, dev, server, threads>>

(* processPacket(): push() takes the packet or drops it; both return.      *)
Pushed(c) ==
  /\ Step(c, "push", "idle")
  /\ UNCHANGED <<conn, message, inits, hand, tunDevices, dev, server, threads>>

(* actionInit(): the data is no ifAddrs, and the client gets no answer.    *)
InitRefused(c) ==
  /\ Step(c, "init", "idle")
  /\ UNCHANGED <<conn, message, inits, hand, tunDevices, dev, server, threads>>

(* start() fails; the device has no thread yet and goes with the answer.   *)
InitFails(c) ==
  /\ Step(c, "init", "reply")
  /\ UNCHANGED <<conn, message, inits, hand, tunDevices, dev, server, threads>>

(* The device starts, with the stat and the recv thread.                   *)
InitStarts(c) ==
  /\ Step(c, "init", "insert")
  /\ inits' = [inits EXCEPT ![c] = @ + 1]
  /\ hand' = [hand EXCEPT ![c] = inits[c] + 1]
  /\ dev' = [dev EXCEPT ![c][inits[c] + 1] = "running"]
  /\ UNCHANGED <<conn, message, tunDevices, server, threads>>

(* Mutant: a second device takes the entry of the first.                   *)
Inserted_Overwrites(c) ==
  /\ Step(c, "insert", "reply")
  /\ tunDevices' = [tunDevices EXCEPT ![c] = hand[c]]
  /\ UNCHANGED <<conn, message, inits, hand, dev, server, threads>>

(* std::map::insert() leaves an entry that is there as it is.              *)
Inserted(c) ==
  /\ Step(c, "insert", "reply")
  /\ tunDevices' = [tunDevices EXCEPT ![c] = IF @ = 0 THEN hand[c] ELSE @]
  /\ UNCHANGED <<conn, message, inits, hand, dev, server, threads>>

(* sendTun("init-res"); the handler lets go of the device.                 *)
Replied(c) ==
  /\ Step(c, "reply", "idle")
  /\ hand' = [hand EXCEPT ![c] = 0]
  /\ UNCHANGED <<conn, message, inits, tunDevices, dev, server, threads>>

(* tunDevError(): a device's tun fails, and its threads end.               *)
DeviceFails(c, n) ==
  /\ ~Halted
  /\ dev[c][n] = "running"
  /\ dev' = [dev EXCEPT ![c][n] = "failed"]
  /\ UNCHANGED <<conn, at, message, inits, hand, tunDevices, server, threads>>
-----------------------------------------------------------------------------
(* onclose() and onerror(): disconnect().  A connection whose close failed *)
(* may get both.                                                           *)

OnClose(c) ==
  /\ conn[c] \in {"closing", "closed"}
  /\ Dispatch(c, "closeFind")
  /\ conn' = [conn EXCEPT ![c] = IF @ = "closing" THEN "closed" ELSE "gone"]
  /\ UNCHANGED <<message, inits, hand, tunDevices, dev, server, threads>>

(* Mutant: a device that failed needs no disconnect().                     *)
CloseFound_OnlyRunning(c) ==
  /\ Step(c, "closeFind",
          IF tunDevices[c] # 0 /\ dev[c][tunDevices[c]] = "running"
          THEN "stop" ELSE "idle")
  /\ UNCHANGED <<conn, message, inits, hand, tunDevices, dev, server, threads>>

CloseFound(c) ==
  /\ Step(c, "closeFind", IF tunDevices[c] # 0 THEN "stop" ELSE "idle")
  /\ UNCHANGED <<conn, message, inits, hand, tunDevices, dev, server, threads>>

(* Mutant: the device is taken off the map without a stop().               *)
Stopped_Not(c) ==
  /\ Step(c, "stop", "erase")
  /\ UNCHANGED <<conn, message, inits, hand, tunDevices, dev, server, threads>>

(* The device's stop() returns, its threads joined.                        *)
Stopped(c) ==
  /\ Step(c, "stop", "erase")
  /\ dev' = [dev EXCEPT ![c][tunDevices[c]] =
                IF @ \in {"running", "failed"} THEN "stopped" ELSE "broken"]
  /\ UNCHANGED <<conn, message, inits, hand, tunDevices, server, threads>>

(* Mutant: the entry stays.                                                *)
Erased_Not(c) ==
  /\ Step(c, "erase", "idle")
  /\ UNCHANGED <<conn, message, inits, hand, tunDevices, dev, server, threads>>

Erased(c) ==
  /\ Step(c, "erase", "idle")
  /\ tunDevices' = [tunDevices EXCEPT ![c] = 0]
  /\ UNCHANGED <<conn, message, inits, hand, dev, server, threads>>
-----------------------------------------------------------------------------
(* TunaTor::stop(): waitGraceFull() polls the map's size, then the library *)
(* is stopped; start() returns when the io threads are through.            *)

StopMoves(from, to) ==
  /\ ~Halted
  /\ server = from /\ server' = to
  /\ UNCHANGED <<conn, at, message, inits, hand, tunDevices, dev, threads>>

StopCall == StopMoves("serving", "size")

(* Mutant: the size is polled once.                                        *)
SizeRead_Once == StopMoves("size", "stopping")

SizeRead ==
  StopMoves("size", IF \A c \in Connections : tunDevices[c] = 0
                    THEN "stopping" ELSE "sleep")

Slept == StopMoves("sleep", "size")

Ended == (\A c \in Connections : at[c] = "idle") /\ StopMoves("stopping", "ended")
-----------------------------------------------------------------------------
(* What a handler does once it has begun.                                  *)
Handle(c) ==
  \/ Found(c) \/ Pushed(c)
  \/ InitRefused(c) \/ InitFails(c) \/ InitStarts(c) \/ Inserted(c) \/ Replied(c)
  \/ CloseFound(c) \/ Stopped(c) \/ Erased(c)

Stop == SizeRead \/ Slept \/ Ended

Next ==
  \/ \E c \in Connections :
       \/ Open(c) \/ Close(c) \/ OnClose(c) \/ Handle(c)
       \/ \E m \in Messages : OnMessage(c, m)
       \/ \E n \in 1..MaxInits : DeviceFails(c, n)
  \/ StopCall \/ Stop

Spec == Init /\ [][Next]_vars

(* Every handler returns: push() and stop() end by themselves.  The        *)
(* library queues what is ready in order, so a callback that waits for an  *)
(* io thread again and again gets one: SF.  Clients need do nothing.       *)
FairSpec ==
  /\ Spec
  /\ \A c \in Connections :
       /\ WF_vars(Handle(c))
       /\ SF_vars(conn[c] = "closing" /\ OnClose(c))
  /\ WF_vars(Stop)
-----------------------------------------------------------------------------
(* Properties.                                                             *)

(* Every variable keeps its type, and a handler that is about to use the   *)
(* entry of its connection has one (tuna_server.hpp:216-221, 250-257).     *)
TypeOK ==
  /\ conn \in [Connections -> {"new", "open", "closing", "closed", "gone"}]
  /\ at \in [Connections -> {"idle", "find", "push", "init", "insert", "reply",
                             "closeFind", "stop", "erase"}]
  /\ message \in [Connections -> Messages \cup {"none"}]
  /\ inits \in [Connections -> 0..MaxInits]
  /\ hand \in [Connections -> 0..MaxInits]
  /\ tunDevices \in [Connections -> 0..MaxInits]
  /\ dev \in [Connections ->
               [1..MaxInits -> {"none", "running", "failed", "stopped", "broken"}]]
  /\ server \in {"serving", "size", "sleep", "stopping", "ended"}
  /\ threads \in 1..IoThreads
  /\ \A c \in Connections :
       at[c] \in {"push", "stop", "erase"} => tunDevices[c] # 0

(* The device that came first for its connection; insert() drops those     *)
(* that a client makes by a second init.                                   *)
First(n) == n = 1

(* When disconnect() is through, the connection is off the map and its     *)
(* device has been stopped, the device whose tun failed included           *)
(* (tuna_server.hpp:247-260).                                              *)
ClosedIsClean ==
  \A c \in Connections :
    conn[c] \in {"closed", "gone"} /\ at[c] = "idle" =>
      /\ tunDevices[c] = 0
      /\ \A n \in 1..MaxInits : First(n) => dev[c][n] \in {"none", "stopped"}

(* No device is destroyed with threads nobody joined, unless it came       *)
(* second for its connection (tuna_server.hpp:127, tun_device.hpp:152).    *)
JoinedBeforeDestroyed ==
  \A c \in Connections, n \in 1..MaxInits : Unjoined(c, n) => ~First(n)

(* What the device n of a connection is to its contract: the first one is  *)
(* being stopped while disconnect() is in its stop().                      *)
DeviceState(c, n) ==
  IF at[c] = "stop" /\ tunDevices[c] = n /\ dev[c][n] # "stopped"
  THEN "stopping" ELSE dev[c][n]

Contract(c, n) == INSTANCE Device WITH state <- DeviceState(c, n)

(* The server uses every device as its contract asks: each is started      *)
(* once and never stopped twice, whichever of onclose() and onerror() come *)
(* for the connection, and however many times it sent init                 *)
(* (tuna_server.hpp:100-130, 230-260).                                     *)
UsesDevices ==
  /\ \A c \in Connections, n \in 1..MaxInits : Contract(c, n)!Init
  /\ [][\A c \in Connections, n \in 1..MaxInits :
          Contract(c, n)!Next \/ UNCHANGED DeviceState(c, n)]_vars

(* waitGraceFull() completes only when no device runs, but for one whose   *)
(* actionInit() has not reached the map yet and the second ones            *)
(* (tuna_server.hpp:187-199).                                              *)
WaitsForDevices ==
  [][server = "size" /\ server' = "stopping" =>
       \A c \in Connections, n \in 1..MaxInits :
         dev[c][n] = "running" => hand[c] = n \/ ~First(n)]_vars

(* A connection that closes is taken off the map, however busy the io      *)
(* threads are, while the library runs (tuna_server.hpp:230-260).          *)
CloseIsHandled ==
  \A c \in Connections :
    conn[c] = "closing" ~>
      (conn[c] # "closing" /\ at[c] = "idle" /\ tunDevices[c] = 0)
      \/ Halted \/ server \in {"stopping", "ended"}

(* stop() returns when every client closes its connection sooner or later  *)
(* (tunator.cpp:19-30).                                                    *)
StopEnds ==
  (\A c \in Connections : WF_vars(Close(c))) =>
    (server = "size" ~> server = "ended" \/ Halted)

=============================================================================
