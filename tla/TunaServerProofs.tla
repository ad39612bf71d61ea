-------------------------- MODULE TunaServerProofs --------------------------
(***************************************************************************)
(* What holds of TunaServer for any connections, number of io threads and  *)
(* number of inits.                                                        *)
(***************************************************************************)
EXTENDS TunaServer, TLAPS

Types ==
  /\ conn \in [Connections -> {"new", "open", "closing", "closed", "gone"}]
  /\ at \in [Connections -> {"idle", "find", "push", "init", "insert", "reply",
                             "closeFind", "stop", "erase"}]
  /\ message \in [Connections -> Messages \cup {"none"}]
  /\ inits \in [Connections -> 0..MaxInits]
  /\ hand \in [Connections -> 0..MaxInits]
  /\ tunDevices \in [Connections -> 0..MaxInits]
  /\ dev \in [Connections ->
               [1..MaxInits -> {"none", "running", "failed", "stopped", "broken"}]]
  /\ server \in {"serving", "size", "sleep", "stopping", "ended"}
  /\ threads \in 1..IoThreads

(* Which handler can run where the connection is.                          *)
HandlerOf(c) ==
  /\ conn[c] = "new" => at[c] = "idle" /\ inits[c] = 0
  /\ at[c] \in {"find", "push", "init", "insert", "reply"}
       => conn[c] \in {"open", "closing"}
  /\ at[c] = "closeFind" => conn[c] \in {"closed", "gone"}
  /\ at[c] \in {"stop", "erase"} => conn[c] = "closed"
  /\ at[c] \in {"push", "insert", "stop", "erase"} => inits[c] # 0
  /\ at[c] = "init" \/ (at[c] = "find" /\ message[c] = "init")
       => inits[c] < MaxInits
  /\ hand[c] = 0 \/ (hand[c] = inits[c] /\ at[c] \in {"insert", "reply"})
  /\ at[c] = "insert" => hand[c] # 0

(* The map has the first device from its insert() to its erase().          *)
Entered(c) ==
  /\ inits[c] # 0
  /\ \/ conn[c] \in {"open", "closing"} /\ ~(inits[c] = 1 /\ at[c] = "insert")
     \/ conn[c] = "closed" /\ at[c] # "idle"

Disconnected(c) ==
  conn[c] = "gone" \/ (conn[c] = "closed" /\ at[c] \in {"idle", "erase"})

(* A connection's devices are numbered as they are made; the first is in   *)
(* the map, and disconnect() stops it, and no other.                       *)
DevicesOf(c) ==
  /\ tunDevices[c] = IF Entered(c) THEN 1 ELSE 0
  /\ \A n \in 1..MaxInits :
       /\ dev[c][n] = "none" <=> n > inits[c]
       /\ dev[c][n] # "broken"
       /\ dev[c][n] = "stopped" <=> n = 1 /\ inits[c] # 0 /\ Disconnected(c)

Orderly == \A c \in Connections : HandlerOf(c) /\ DevicesOf(c)
-----------------------------------------------------------------------------
LEMMA OrderlyInit == Init => Types /\ Orderly
<1> SUFFICES ASSUME Init
             PROVE  Types /\ Orderly
  OBVIOUS
<1>1. Types
  BY ServerAssumption DEF Init, Types, Messages
<1>2. ASSUME NEW c \in Connections
      PROVE  HandlerOf(c) /\ DevicesOf(c)
  BY ServerAssumption DEF Init, HandlerOf, DevicesOf, Entered, Disconnected
<1> QED BY <1>1, <1>2 DEF Orderly

(* What the rest of the system sees of a connection.                       *)
Connection(c) ==
  <<conn[c], at[c], message[c], inits[c], hand[c], tunDevices[c], dev[c]>>

LEMMA OthersKeep ==
  ASSUME Orderly, NEW c \in Connections, HandlerOf(c)', DevicesOf(c)',
         \A d \in Connections \ {c} : UNCHANGED Connection(d)
  PROVE  Orderly'
<1>1. ASSUME NEW d \in Connections, d # c
      PROVE  HandlerOf(d)' /\ DevicesOf(d)'
  <2>1. UNCHANGED Connection(d)
    BY <1>1
  <2> QED BY <2>1
          DEF Orderly, Connection, HandlerOf, DevicesOf, Entered, Disconnected
<1> QED BY <1>1 DEF Orderly

(* One connection's step: the types, its own order, and nothing else.      *)
Keeps(c) ==
  /\ Types'
  /\ HandlerOf(c)' /\ DevicesOf(c)'
  /\ \A d \in Connections \ {c} : UNCHANGED Connection(d)

LEMMA ConnectionStep ==
  ASSUME Types, Orderly, NEW c \in Connections,
         Open(c) \/ Close(c) \/ OnClose(c) \/ Handle(c)
         \/ (\E m \in Messages : OnMessage(c, m))
         \/ \E n \in 1..MaxInits : DeviceFails(c, n)
  PROVE  Keeps(c)
<1> USE ServerAssumption
    DEF Types, Keeps, Connection, HandlerOf, DevicesOf, Entered, Disconnected
<1>0. HandlerOf(c) /\ DevicesOf(c)
  BY DEF Orderly
<1>1. CASE Open(c)
  BY <1>0, <1>1 DEF Open
<1>2. CASE Close(c)
  BY <1>0, <1>2 DEF Close
<1>3. CASE OnClose(c)
  BY <1>0, <1>3 DEF OnClose, Dispatch, Step
<1>4. CASE Found(c)
  BY <1>0, <1>4 DEF Found, Step
<1>5. CASE Pushed(c)
  BY <1>0, <1>5 DEF Pushed, Step
<1>6. CASE InitRefused(c)
  BY <1>0, <1>6 DEF InitRefused, Step
<1>7. CASE InitFails(c)
  BY <1>0, <1>7 DEF InitFails, Step
<1>8. CASE InitStarts(c)
  BY <1>0, <1>8 DEF InitStarts, Step
<1>9. CASE Inserted(c)
  BY <1>0, <1>9 DEF Inserted, Step
<1>10. CASE Replied(c)
  BY <1>0, <1>10 DEF Replied, Step
<1>11. CASE CloseFound(c)
  BY <1>0, <1>11 DEF CloseFound, Step
<1>12. CASE Stopped(c)
  BY <1>0, <1>12 DEF Stopped, Step
<1>13. CASE Erased(c)
  BY <1>0, <1>13 DEF Erased, Step
<1>14. ASSUME NEW m \in Messages, OnMessage(c, m)
       PROVE  Keeps(c)
  BY <1>0, <1>14 DEF OnMessage, Dispatch, Step
<1>15. ASSUME NEW n \in 1..MaxInits, DeviceFails(c, n)
       PROVE  Keeps(c)
  BY <1>0, <1>15 DEF DeviceFails
<1> QED BY <1>1, <1>2, <1>3, <1>4, <1>5, <1>6, <1>7, <1>8, <1>9, <1>10, <1>11, <1>12, <1>13, <1>14, <1>15 DEF Handle

LEMMA OrderlyStep == Types /\ Orderly /\ [Next]_vars => Types' /\ Orderly'
<1> SUFFICES ASSUME Types, Orderly, [Next]_vars
             PROVE  Types' /\ Orderly'
  OBVIOUS
<1>1. ASSUME NEW c \in Connections,
             Open(c) \/ Close(c) \/ OnClose(c) \/ Handle(c)
             \/ (\E m \in Messages : OnMessage(c, m))
             \/ \E n \in 1..MaxInits : DeviceFails(c, n)
      PROVE  Types' /\ Orderly'
  <2>1. Keeps(c)
    BY <1>1, ConnectionStep
  <2> QED BY <2>1, OthersKeep DEF Keeps
<1>2. CASE StopCall \/ Stop
  <2>1. /\ UNCHANGED <<conn, at, message, inits, hand, tunDevices, dev, threads>>
        /\ server' \in {"size", "sleep", "stopping", "ended"}
    BY <1>2 DEF StopCall, Stop, SizeRead, Slept, Ended, StopMoves
  <2> QED BY <2>1 DEF Types, Orderly, HandlerOf, DevicesOf, Entered, Disconnected
<1>3. CASE UNCHANGED vars
  BY <1>3 DEF vars, Types, Orderly, HandlerOf, DevicesOf, Entered, Disconnected
<1> QED BY <1>1, <1>2, <1>3 DEF Next

(* The handlers, the map and the devices of each connection go together    *)
(* (tuna_server.hpp:70-260).                                               *)
THEOREM ConnectionsAreOrderly == Spec => [](Types /\ Orderly)
BY OrderlyInit, OrderlyStep, PTL DEF Spec

(* A handler that is about to use its connection's entry of the map has    *)
(* one (tuna_server.hpp:216-221, 250-257).                                 *)
THEOREM TypeCorrect == Spec => []TypeOK
<1>1. Types /\ Orderly => TypeOK
  <2> SUFFICES ASSUME Types, Orderly, NEW c \in Connections,
                      at[c] \in {"push", "stop", "erase"}
               PROVE  tunDevices[c] # 0
    BY DEF Types, TypeOK
  <2>1. HandlerOf(c) /\ DevicesOf(c)
    BY DEF Orderly
  <2>2. Entered(c)
    BY <2>1 DEF HandlerOf, Entered
  <2> QED BY <2>1, <2>2 DEF DevicesOf
<1> QED BY <1>1, ConnectionsAreOrderly, PTL

(* A connection that disconnect() is through with has no entry and no      *)
(* running device but those of its later inits (tuna_server.hpp:247-260).  *)
THEOREM DisconnectCleans == Spec => []ClosedIsClean
<1>1. Types /\ Orderly => ClosedIsClean
  <2> SUFFICES ASSUME Types, Orderly, NEW c \in Connections,
                      conn[c] \in {"closed", "gone"}, at[c] = "idle"
               PROVE  /\ tunDevices[c] = 0
                      /\ \A n \in 1..MaxInits : First(n) => dev[c][n] \in {"none", "stopped"}
    BY DEF ClosedIsClean
  <2>1. HandlerOf(c) /\ DevicesOf(c)
    BY DEF Orderly
  <2>2. tunDevices[c] = 0
    BY <2>1 DEF DevicesOf, Entered
  <2>3. ASSUME NEW n \in 1..MaxInits, First(n)
        PROVE  dev[c][n] \in {"none", "stopped"}
    BY <2>1, <2>3 DEF Types, DevicesOf, Disconnected, First
  <2> QED BY <2>2, <2>3
<1> QED BY <1>1, ConnectionsAreOrderly, PTL

(* A first device that runs or failed is in the map, or its actionInit()   *)
(* holds it.                                                               *)
LEMMA FirstIsReferred ==
  ASSUME Types, Orderly, NEW c \in Connections, 1 \in 1..MaxInits,
         dev[c][1] \in {"running", "failed"}
  PROVE  tunDevices[c] = 1 \/ hand[c] = 1
BY DEF Types, Orderly, HandlerOf, DevicesOf, Entered, Disconnected

(* No device but one of a later init is destroyed with threads that nobody *)
(* joined (tuna_server.hpp:127, tun_device.hpp:152).                       *)
THEOREM ThreadsAreJoined == Spec => []JoinedBeforeDestroyed
<1>1. Types /\ Orderly => JoinedBeforeDestroyed
  BY FirstIsReferred DEF JoinedBeforeDestroyed, Unjoined, First
<1> QED BY <1>1, ConnectionsAreOrderly, PTL

(* waitGraceFull() completes with a first device running only while its    *)
(* actionInit() is on its way to the map (tuna_server.hpp:187-199).        *)
THEOREM StopWaitsForDevices == Spec => WaitsForDevices
<1> DEFINE Waited == server = "size" /\ server' = "stopping" =>
             \A c \in Connections, n \in 1..MaxInits :
               dev[c][n] = "running" => hand[c] = n \/ ~First(n)
<1>1. Types /\ Orderly /\ [Next]_vars => Waited
  <2> SUFFICES ASSUME Types, Orderly, [Next]_vars,
                      server = "size", server' = "stopping",
                      NEW c \in Connections, NEW n \in 1..MaxInits,
                      dev[c][n] = "running", First(n)
               PROVE  hand[c] = n
    OBVIOUS
  <2>1. SizeRead
    BY DEF Next, Open, Close, OnClose, Dispatch, Step, Handle, Found, Pushed,
       InitRefused, InitFails, InitStarts, Inserted, Replied, CloseFound, Stopped,
       Erased, OnMessage, DeviceFails, StopCall, Stop, Slept, Ended, StopMoves, vars
  <2>2. tunDevices[c] = 0
    BY <2>1 DEF SizeRead, StopMoves
  <2> QED BY <2>2, FirstIsReferred DEF First
<1>2. Spec => [][Waited]_vars
  BY <1>1, ConnectionsAreOrderly, PTL DEF Spec
<1> QED BY <1>2 DEF WaitsForDevices
-----------------------------------------------------------------------------
(* The contract's state of a device follows from its connection.           *)
LEMMA SameDevice ==
  ASSUME NEW c \in Connections, NEW n \in 1..MaxInits, UNCHANGED Connection(c)
  PROVE  UNCHANGED DeviceState(c, n)
BY DEF Connection, DeviceState

ContractStep(c, n) == Contract(c, n)!Next \/ UNCHANGED DeviceState(c, n)

LEMMA ConnectionKeepsContract ==
  ASSUME Types, Orderly, NEW c \in Connections, NEW n \in 1..MaxInits,
         Open(c) \/ Close(c) \/ OnClose(c) \/ Handle(c)
         \/ (\E m \in Messages : OnMessage(c, m))
         \/ \E k \in 1..MaxInits : DeviceFails(c, k)
  PROVE  ContractStep(c, n)
<1> USE ServerAssumption
    DEF Types, HandlerOf, DevicesOf, Entered, Disconnected
<1>0. HandlerOf(c) /\ DevicesOf(c)
  BY DEF Orderly
<1>1. ASSUME NEW k \in 1..MaxInits, DeviceFails(c, k)
      PROVE  ContractStep(c, n)
  <2>1. /\ dev[c][k] = "running" /\ at' = at /\ tunDevices' = tunDevices
        /\ dev'[c][k] = "failed" /\ (k # n => dev'[c][n] = dev[c][n])
    BY <1>1 DEF DeviceFails
  <2> QED BY <2>1
          DEF ContractStep, DeviceState, Contract!Next, Contract!Fail, Contract!Moves
<1>2. CASE InitStarts(c)
  <2>1. /\ at[c] = "init" /\ at'[c] = "insert"
        /\ dev[c][inits[c] + 1] = "none" /\ dev'[c][inits[c] + 1] = "running"
        /\ n # inits[c] + 1 => dev'[c][n] = dev[c][n]
    BY <1>0, <1>2 DEF InitStarts, Step
  <2> QED BY <2>1
          DEF ContractStep, DeviceState, Contract!Next, Contract!Start, Contract!Moves
<1>3. CASE CloseFound(c)
  <2>1. /\ at[c] = "closeFind" /\ at'[c] = IF tunDevices[c] # 0 THEN "stop" ELSE "idle"
        /\ dev' = dev /\ tunDevices' = tunDevices
    BY <1>3 DEF CloseFound, Step
  <2>2. tunDevices[c] # 0 => tunDevices[c] = 1 /\ dev[c][1] \in {"running", "failed"}
    BY <1>0, <2>1
  <2> QED BY <2>1, <2>2
          DEF ContractStep, DeviceState, Contract!Next, Contract!StopCall, Contract!Moves
<1>4. CASE Stopped(c)
  <2>1. /\ at[c] = "stop" /\ at'[c] = "erase" /\ tunDevices' = tunDevices
        /\ tunDevices[c] = 1 /\ dev[c][1] \in {"running", "failed"}
    BY <1>0, <1>4 DEF Stopped, Step
  <2>2. /\ dev'[c][1] = "stopped"
        /\ n # 1 => dev'[c][n] = dev[c][n]
    BY <1>4, <2>1 DEF Stopped
  <2> QED BY <2>1, <2>2
          DEF ContractStep, DeviceState, Contract!Next, Contract!StopReturn,
              Contract!Moves
<1>5. CASE \/ Open(c) \/ Close(c) \/ OnClose(c)
           \/ (\E m \in Messages : OnMessage(c, m))
           \/ Found(c) \/ Pushed(c) \/ InitRefused(c) \/ InitFails(c)
           \/ Inserted(c) \/ Replied(c) \/ Erased(c)
  <2>1. dev' = dev /\ at[c] # "stop" /\ at'[c] # "stop"
    BY <1>0, <1>5
    DEF Open, Close, OnClose, OnMessage, Dispatch, Step, Found, Pushed, InitRefused,
        InitFails, Inserted, Replied, Erased
  <2> QED BY <2>1 DEF ContractStep, DeviceState
<1> QED BY <1>1, <1>2, <1>3, <1>4, <1>5 DEF Handle

(* Each device is started once and stopped once at most, whatever          *)
(* callbacks come and however often the client says init                   *)
(* (tuna_server.hpp:100-130, 230-260).                                     *)
THEOREM DevicesAreUsedAsAgreed == Spec => UsesDevices
<1> DEFINE Starts == \A c \in Connections, n \in 1..MaxInits : Contract(c, n)!Init
           Agreed == \A c \in Connections, n \in 1..MaxInits :
                       Contract(c, n)!Next \/ UNCHANGED DeviceState(c, n)
<1>1. Init => Starts
  BY DEF Init, Contract!Init, DeviceState
<1>2. Types /\ Orderly /\ [Next]_vars => Agreed
  <2> SUFFICES ASSUME Types, Orderly, [Next]_vars,
                      NEW c \in Connections, NEW n \in 1..MaxInits
               PROVE  ContractStep(c, n)
    BY DEF ContractStep
  <2>1. ASSUME NEW d \in Connections,
               Open(d) \/ Close(d) \/ OnClose(d) \/ Handle(d)
               \/ (\E m \in Messages : OnMessage(d, m))
               \/ \E k \in 1..MaxInits : DeviceFails(d, k)
        PROVE  ContractStep(c, n)
    <3>1. CASE d = c
      BY <2>1, <3>1, ConnectionKeepsContract
    <3>2. CASE d # c
      <4>1. UNCHANGED Connection(c)
        BY <2>1, <3>2, ConnectionStep DEF Keeps
      <4> QED BY <4>1, SameDevice DEF ContractStep
    <3> QED BY <3>1, <3>2
  <2>2. CASE StopCall \/ Stop \/ UNCHANGED vars
    <3>1. UNCHANGED <<at, tunDevices, dev>>
      BY <2>2 DEF StopCall, Stop, SizeRead, Slept, Ended, StopMoves, vars
    <3> QED BY <3>1 DEF ContractStep, DeviceState
  <2> QED BY <2>1, <2>2 DEF Next
<1>3. Spec => Starts /\ [][Agreed]_vars
  BY <1>1, <1>2, ConnectionsAreOrderly, PTL DEF Spec
<1> QED BY <1>3 DEF UsesDevices
=============================================================================
