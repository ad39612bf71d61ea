-------------------------- MODULE TunDeviceProofs --------------------------
(***************************************************************************)
(* What holds of a TunDevice for every size of its queues and any number   *)
(* of packets, starts and reports.                                         *)
(***************************************************************************)
EXTENDS TunDevice, TLAPS, SequenceTheorems

USE DEF device, reports, queues, traffic, At, Goto, End

(* A thread object holds a thread, running or returned, from its creation  *)
(* to its join.                                                            *)
HeldWhile(t, callers) ==
  thr[t] \in {"running", "ended"} <=> caller \in callers

JoinedBy(t, callers) == caller \in callers => thr[t] = "joined"

(* Which threads exist where the handler is in start() and stop().         *)
ThreadsOfCall ==
  /\ HeldWhile("fromTun", {"spawnTo", "spawnStat", "spawnRecv", "started", "up",
                           "joinFrom"})
  /\ HeldWhile("toTun", {"spawnStat", "spawnRecv", "started", "up", "joinFrom",
                         "joinTo"})
  /\ HeldWhile("recv", {"started", "up", "joinFrom", "joinTo", "joinRecv"})
  /\ HeldWhile("stat", {"spawnRecv", "started", "up", "joinFrom", "joinTo",
                        "joinRecv", "joinStat"})
  /\ JoinedBy("fromTun", {"joinTo", "joinRecv", "joinStat", "close", "down"})
  /\ JoinedBy("toTun", {"joinRecv", "joinStat", "close", "down"})
  /\ JoinedBy("recv", {"joinStat", "close", "down"})
  /\ JoinedBy("stat", {"close", "down"})

(* Only the descriptor of the last start() can be open, and it is from     *)
(* tun_alloc() to close().                                                 *)
DescriptorOfCall ==
  /\ open \subseteq {tunFd}
  /\ echo => tunFd = -1 /\ caller \notin {"alloc", "configure"}
  /\ caller \in {"new", "alloc", "down"} => open = {}
  /\ ~echo /\ caller \in {"configure", "spawnFrom", "spawnTo", "spawnStat",
                          "spawnRecv", "started", "up", "close"} \cup Stopping
       => tunFd \in open

CallTypes ==
  /\ echo \in BOOLEAN /\ running \in BOOLEAN
  /\ tunFd \in -1..MaxStarts /\ open \subseteq 1..MaxStarts
  /\ caller \in CallerAt
  /\ thr \in [Threads -> {"none", "running", "ended", "joined"}]
  /\ starts \in 0..MaxStarts
  /\ starts = 0 <=> caller = "new"

(* The handler is in sendTun() only between start() and what follows it.   *)
Reporting ==
  /\ seq \in Nat
  /\ reg \in [Senders -> [at : {"begin", "loaded", "stored"}, seq : Nat,
                          running : BOOLEAN]]
  /\ reg["caller"].at # "begin" => caller \in {"started", "failed"}

Lifecycle == CallTypes /\ ThreadsOfCall /\ DescriptorOfCall /\ Reporting

(* A thread that does not run has left its loop where it polls `running`,  *)
(* and in echo mode nobody reads a tun.                                    *)
Positions ==
  /\ pc \in [Threads -> {"check", "read", "pop", "write", "send", "sleep", "report"}]
  /\ pc["fromTun"] \in {"check", "read"}
  /\ pc["toTun"] \in {"check", "pop", "write"}
  /\ pc["recv"] \in {"check", "pop", "send"}
  /\ pc["stat"] \in {"check", "sleep", "report"}
  /\ \A t \in {"fromTun", "toTun", "recv"} : thr[t] # "running" => pc[t] = "check"
  /\ echo => pc["fromTun"] # "read"

Contents ==
  /\ pc["toTun"] = "write" <=> toOut # NoPacket
  /\ pc["recv"] = "send" <=> fromOut # NoPacket
  /\ toChan \in Seq(PacketIds) /\ fromChan \in Seq(PacketIds)
  /\ toOut \in PacketIds \cup {NoPacket}
  /\ fromOut \in PacketIds \cup {NoPacket}
  /\ accepted \in 0..MaxPackets /\ read \in 0..MaxPackets

(* The ages of the packets in a sequence, and of the one in a thread's     *)
(* hands.                                                                  *)
Ages(s) == {Age(s[i]) : i \in 1..Len(s)}
HeldAge(p) == IF p = NoPacket THEN {} ELSE {Age(p)}
Older(S, T) == \A a \in S, b \in T : a < b

ToWaits == HeldAge(toOut) \cup Ages(toChan)
FromWaits == HeldAge(fromOut) \cup Ages(fromChan)

(* What is behind in a queue is younger than what is ahead of it; echoed   *)
(* packets are ahead of those that toTun still holds.                      *)
Lines ==
  /\ written \in Seq(PacketIds) /\ got \in Seq(PacketIds)
  /\ InOrder(written) /\ InOrder(toChan) /\ InOrder(got) /\ InOrder(fromChan)
  /\ Older(Ages(written), ToWaits) /\ Older(HeldAge(toOut), Ages(toChan))
  /\ Older(Ages(got), FromWaits) /\ Older(HeldAge(fromOut), Ages(fromChan))
  /\ Ages(written) \cup ToWaits \subseteq 1..accepted
  /\ IF echo
     THEN /\ Ages(got) \cup FromWaits \subseteq 1..accepted
          /\ Older(Ages(got) \cup FromWaits, ToWaits)
     ELSE Ages(got) \cup FromWaits \subseteq 1..read
-----------------------------------------------------------------------------
LEMMA LifecycleInit == Init => Lifecycle
<1> SUFFICES ASSUME Init
             PROVE  Lifecycle
  OBVIOUS
<1> USE DeviceAssumption DEF Init
<1>1. echo \in BOOLEAN /\ running \in BOOLEAN
  BY Zenon
<1>2. CallTypes
  BY <1>1 DEF CallTypes, CallerAt
<1>3. ThreadsOfCall
  BY DEF ThreadsOfCall, HeldWhile, JoinedBy, Threads
<1>4. DescriptorOfCall
  BY DEF DescriptorOfCall, Stopping
<1>5. Reporting
  BY DEF Reporting, NoReport, Senders
<1> QED BY <1>2, <1>3, <1>4, <1>5 DEF Lifecycle

(* A step of a thread's loop, which may return.                            *)
LEMMA LoopStep ==
  ASSUME Lifecycle, NEW t \in Threads, running' \in BOOLEAN,
         UNCHANGED <<echo, tunFd, open, caller, starts, seq, reg>>,
         thr' = thr \/ (thr[t] = "running" /\ End(t))
  PROVE  Lifecycle'
<1> USE DEF Lifecycle
<1>1. CallTypes'
  BY DEF CallTypes, Threads
<1>2. ThreadsOfCall'
  BY DEF CallTypes, ThreadsOfCall, HeldWhile, JoinedBy, Threads
<1>3. DescriptorOfCall'
  BY DEF DescriptorOfCall, Stopping
<1>4. Reporting'
  BY DEF Reporting
<1> QED BY <1>1, <1>2, <1>3, <1>4

(* A loop polls `running`.                                                 *)
LEMMA PollStep ==
  ASSUME Lifecycle, NEW t \in Threads, NEW l, At(t, "check") \/ At(t, "sleep"),
         Poll(t, l)
  PROVE  Lifecycle'
<1>1. UNCHANGED <<echo, tunFd, open, caller, starts, running, seq, reg>>
  BY DEF Poll
<1>2. thr' = thr \/ (thr[t] = "running" /\ End(t))
  <2>1. CASE running
    BY <2>1 DEF Poll
  <2>2. CASE ~running
    BY <2>2 DEF Poll
  <2> QED BY <2>1, <2>2
<1>3. running' \in BOOLEAN
  BY <1>1 DEF Lifecycle, CallTypes
<1> QED BY <1>1, <1>2, <1>3, LoopStep

LEMMA ReportStep ==
  ASSUME Lifecycle, NEW s \in Senders, LoadSeq(s) \/ StoreSeq(s) \/ Send(s)
  PROVE  Reporting'
<1> USE DEF Lifecycle, CallTypes, Reporting, Senders
<1>1. CASE LoadSeq(s)
  BY <1>1 DEF LoadSeq, Reports, NoReport
<1>2. CASE StoreSeq(s)
  BY <1>2 DEF StoreSeq
<1>3. CASE Send(s)
  BY <1>3 DEF Send, NoReport
<1> QED BY <1>1, <1>2, <1>3

LEMMA LifecycleStep == Lifecycle /\ [Next]_vars => Lifecycle'
<1> SUFFICES ASSUME Lifecycle, [Next]_vars
             PROVE  Lifecycle'
  OBVIOUS
<1> USE DeviceAssumption
    DEF Lifecycle, CallTypes, ThreadsOfCall, HeldWhile, JoinedBy, DescriptorOfCall,
        Reporting, Threads, CallerAt, Stopping
<1>1. ASSUME NEW fits \in BOOLEAN, StartCall(fits)
      PROVE  Lifecycle'
  <2>1. CallTypes'
    <3>1. CASE running \/ ~fits
      BY <1>1, <3>1 DEF StartCall
    <3>2. CASE ~running /\ fits
      BY <1>1, <3>2 DEF StartCall
    <3> QED BY <3>1, <3>2
  <2>2. ThreadsOfCall'
    BY <1>1 DEF StartCall
  <2>3. DescriptorOfCall'
    BY <1>1 DEF StartCall
  <2>4. Reporting'
    BY <1>1 DEF StartCall
  <2> QED BY <2>1, <2>2, <2>3, <2>4
<1>2. CASE TunAllocFails
  BY <1>2 DEF TunAllocFails
<1>3. CASE TunAlloc
  BY <1>3 DEF TunAlloc
<1>4. ASSUME NEW ok \in BOOLEAN, Configure(ok)
      PROVE  Lifecycle'
  BY <1>4 DEF Configure
<1>5. ASSUME NEW i \in 1..4, Spawn(i)
      PROVE  Lifecycle'
  <2>1. CASE i = 1
    BY <1>5, <2>1 DEF Spawn, SpawnOrder, SpawnStates
  <2>2. CASE i = 2
    BY <1>5, <2>2 DEF Spawn, SpawnOrder, SpawnStates
  <2>3. CASE i = 3
    BY <1>5, <2>3 DEF Spawn, SpawnOrder, SpawnStates
  <2>4. CASE i = 4
    BY <1>5, <2>4 DEF Spawn, SpawnOrder, SpawnStates
  <2> QED BY <2>1, <2>2, <2>3, <2>4
<1>6. ASSUME NEW s \in Senders, LoadSeq(s) \/ StoreSeq(s)
      PROVE  Lifecycle'
  <2>1. UNCHANGED <<echo, device, caller, thr, starts>>
    BY <1>6 DEF LoadSeq, StoreSeq
  <2>2. CallTypes' /\ ThreadsOfCall' /\ DescriptorOfCall'
    BY <2>1
  <2> QED BY <1>6, <2>2, ReportStep
<1>7. ASSUME NEW s \in Senders, Send(s)
      PROVE  Lifecycle'
  <2>1. UNCHANGED <<echo, device, thr, starts>>
    BY <1>7 DEF Send
  <2>2. \/ UNCHANGED caller
        \/ (caller = "started" /\ caller' = "up")
        \/ (caller = "failed" /\ caller' = "released")
    BY <1>7 DEF Send, Reporting, Senders
  <2>3. CallTypes' /\ ThreadsOfCall' /\ DescriptorOfCall'
    BY <2>1, <2>2
  <2> QED BY <1>7, <2>3, ReportStep
<1>8. CASE ClientPacket \/ ClientPacketDropped
  <2>1. UNCHANGED <<echo, device, caller, thr, starts, seq, reg>>
    BY <1>8 DEF ClientPacket, ClientPacketDropped
  <2> QED BY <2>1
<1>9. CASE StopCall
  BY <1>9 DEF StopCall
<1>10. ASSUME NEW i \in 1..4, Join(i)
       PROVE  Lifecycle'
  <2>1. CASE i = 1
    BY <1>10, <2>1 DEF Join, JoinOrder, JoinStates
  <2>2. CASE i = 2
    BY <1>10, <2>2 DEF Join, JoinOrder, JoinStates
  <2>3. CASE i = 3
    BY <1>10, <2>3 DEF Join, JoinOrder, JoinStates
  <2>4. CASE i = 4
    BY <1>10, <2>4 DEF Join, JoinOrder, JoinStates
  <2> QED BY <2>1, <2>2, <2>3, <2>4
<1>11. CASE Close
  BY <1>11 DEF Close
<1>12. CASE FromThread
  <2>1. CASE FromEcho
    BY <1>12, <2>1, LoopStep DEF FromEcho
  <2>2. CASE FromCheck
    BY <2>2, PollStep DEF FromCheck
  <2>3. CASE ReadPacket \/ ReadNothing
    <3>1. UNCHANGED <<echo, device, caller, thr, starts, seq, reg>>
      BY <2>3 DEF ReadPacket, ReadNothing
    <3> QED BY <3>1
  <2>4. CASE ReadError
    BY <2>4, LoopStep DEF ReadError
  <2> QED BY <1>12, <2>1, <2>2, <2>3, <2>4 DEF FromThread
<1>13. CASE ToThread
  <2>1. CASE ToCheck
    BY <2>1, PollStep DEF ToCheck
  <2>2. CASE ~ToCheck
    <3>1. UNCHANGED <<echo, device, caller, thr, starts, seq, reg>>
      BY <1>13, <2>2
      DEF ToThread, ToTake, ToTimesOut, WriteTun, EchoPush, EchoDropped
    <3> QED BY <3>1
  <2> QED BY <2>1, <2>2
<1>14. CASE RecvThread
  <2>1. CASE RecvCheck
    BY <2>1, PollStep DEF RecvCheck
  <2>2. CASE ~RecvCheck
    <3>1. UNCHANGED <<echo, device, caller, thr, starts, seq, reg>>
      BY <1>14, <2>2 DEF RecvThread, RecvTake, RecvTimesOut, RecvSend
    <3> QED BY <3>1
  <2> QED BY <2>1, <2>2
<1>15. CASE StatCheck \/ StatWake
  BY <1>15, PollStep DEF StatCheck, StatWake
<1>16. CASE UNCHANGED vars
  BY <1>16 DEF vars
<1> QED
  BY <1>1, <1>2, <1>3, <1>4, <1>5, <1>6, <1>7, <1>8, <1>9, <1>10, <1>11, <1>12,
     <1>13, <1>14, <1>15, <1>16 DEF Next, Start, Stop, StatThread, Senders

(* The handler, the threads and the descriptor go through start() and      *)
(* stop() together (tun_device.hpp:43-110, 207-256).                       *)
THEOREM LifecycleKept == Spec => []Lifecycle
BY LifecycleInit, LifecycleStep, PTL DEF Spec

(* No thread uses a descriptor that is not open, and stop() closes none    *)
(* twice (tun_device.hpp:72-106, 227-235).                                 *)
THEOREM DescriptorIsOpen == Spec => []FdSafety
<1>1. Lifecycle => FdSafety
  BY DEF Lifecycle, CallTypes, ThreadsOfCall, HeldWhile, DescriptorOfCall,
     Stopping, CallerAt, Threads, FdSafety
<1> QED BY <1>1, LifecycleKept, PTL

(* After stop() returned nothing of the device is left                     *)
(* (tun_device.hpp:227-256).                                               *)
THEOREM StopLeavesNothing == Spec => []StoppedIsQuiet
<1>1. Lifecycle => StoppedIsQuiet
  BY DEF Lifecycle, ThreadsOfCall, JoinedBy, DescriptorOfCall, Threads,
     StoppedIsQuiet
<1> QED BY <1>1, LifecycleKept, PTL
-----------------------------------------------------------------------------
LEMMA PacketIdsAreNumbers ==
  /\ PacketIds \subseteq Int /\ NoPacket \notin PacketIds
  /\ \A n \in 1..MaxPackets : n \in PacketIds /\ -n \in PacketIds
BY DeviceAssumption DEF PacketIds

LEMMA PositionsInit == Init => Positions /\ Contents
<1> SUFFICES ASSUME Init
             PROVE  Positions /\ Contents
  OBVIOUS
<1>1. Positions
  BY DEF Init, Positions, Threads
<1>2. << >> \in Seq(PacketIds)
  BY EmptySeq
<1>3. toChan = << >> /\ fromChan = << >> /\ toOut = NoPacket /\ fromOut = NoPacket
  BY DEF Init, To!Init, From!Init
<1>4. accepted = 0 /\ read = 0 /\ pc["toTun"] = "check" /\ pc["recv"] = "check"
  BY DEF Init, Threads
<1> QED BY <1>1, <1>2, <1>3, <1>4, DeviceAssumption DEF Contents

(* What the handler does leaves the loops where they are, but for the      *)
(* thread that it starts.                                                  *)
LEMMA HandlerStep ==
  ASSUME Positions, Contents, UNCHANGED <<echo, pc, queues, accepted, read>>,
         thr' \in [Threads -> {"none", "running", "ended", "joined"}],
         \A t \in Threads : thr[t] = "running" => thr'[t] = "running"
  PROVE  Positions' /\ Contents'
BY DEF Positions, Contents, queues, Threads

LEMMA SpawnStep ==
  ASSUME Lifecycle, Positions, Contents, NEW i \in 1..4, Spawn(i)
  PROVE  Positions' /\ Contents'
<1> USE DEF Spawn, SpawnOrder, SpawnStates, Positions, Contents, Lifecycle,
            ThreadsOfCall, HeldWhile, CallTypes, Threads, queues
<1>1. CASE i = 1
  BY <1>1
<1>2. CASE i = 2
  BY <1>2
<1>3. CASE i = 3
  BY <1>3
<1>4. CASE i = 4
  BY <1>4
<1> QED BY <1>1, <1>2, <1>3, <1>4

LEMMA PollPosition ==
  ASSUME Lifecycle, Positions, Contents, NEW t \in Threads, NEW l,
         At(t, "check") \/ (t = "stat" /\ At(t, "sleep")), Poll(t, l),
         <<t, l>> \in {<<"fromTun", "read">>, <<"toTun", "pop">>, <<"recv", "pop">>,
                      <<"stat", "sleep">>, <<"stat", "report">>, <<"stat", "check">>},
         l = "read" => ~echo
  PROVE  Positions' /\ Contents'
<1> USE DEF Poll, Positions, Contents, Lifecycle, CallTypes, Threads, queues
<1>1. CASE running
  BY <1>1
<1>2. CASE ~running
  BY <1>2
<1> QED BY <1>1, <1>2

LEMMA PositionsStep ==
  Lifecycle /\ Positions /\ Contents /\ [Next]_vars => Positions' /\ Contents'
<1> SUFFICES ASSUME Lifecycle, Positions, Contents, [Next]_vars
             PROVE  Positions' /\ Contents'
  OBVIOUS
<1>0. thr \in [Threads -> {"none", "running", "ended", "joined"}]
  BY DEF Lifecycle, CallTypes
<1>1. ASSUME NEW fits \in BOOLEAN, StartCall(fits)
      PROVE  Positions' /\ Contents'
  BY <1>0, <1>1, HandlerStep DEF StartCall
<1>2. CASE TunAllocFails \/ TunAlloc
  BY <1>0, <1>2, HandlerStep DEF TunAllocFails, TunAlloc
<1>3. ASSUME NEW ok \in BOOLEAN, Configure(ok)
      PROVE  Positions' /\ Contents'
  BY <1>0, <1>3, HandlerStep DEF Configure
<1>4. ASSUME NEW i \in 1..4, Spawn(i)
      PROVE  Positions' /\ Contents'
  BY <1>4, SpawnStep
<1>5. ASSUME NEW s \in Senders, LoadSeq(s) \/ StoreSeq(s)
      PROVE  Positions' /\ Contents'
  BY <1>0, <1>5, HandlerStep DEF LoadSeq, StoreSeq
<1>6. ASSUME NEW s \in Senders, Send(s)
      PROVE  Positions' /\ Contents'
  <2>1. CASE s = "stat"
    BY <1>6, <2>1 DEF Send, Positions, Contents, Threads, queues
  <2>2. CASE s # "stat"
    BY <1>0, <1>6, <2>2, HandlerStep DEF Send
  <2> QED BY <2>1, <2>2
<1>7. CASE ClientPacket
  <2>1. accepted + 1 \in PacketIds /\ accepted + 1 \in 0..MaxPackets
    BY <1>7, PacketIdsAreNumbers, DeviceAssumption DEF ClientPacket, Contents
  <2>2. toChan' \in Seq(PacketIds)
    BY <1>7, <2>1, AppendProperties DEF ClientPacket, To!Accept, Contents
  <2> QED BY <1>7, <2>1, <2>2 DEF ClientPacket, To!Accept, Positions, Contents
<1>8. CASE ClientPacketDropped
  BY <1>8, DeviceAssumption
  DEF ClientPacketDropped, Positions, Contents, queues
<1>9. CASE StopCall \/ Close
  BY <1>0, <1>9, HandlerStep DEF StopCall, Close
<1>10. ASSUME NEW i \in 1..4, Join(i)
       PROVE  Positions' /\ Contents'
  BY <1>0, <1>10, HandlerStep DEF Join, JoinOrder, Threads
<1>11. CASE FromEcho
  BY <1>0, <1>11 DEF FromEcho, Positions, Contents, Threads, queues
<1>12. CASE FromCheck
  BY <1>12, PollPosition DEF FromCheck, Threads
<1>13. CASE ReadPacket
  <2>1. read + 1 \in 1..MaxPackets
    BY <1>13, DeviceAssumption DEF ReadPacket, Contents
  <2>2. fromChan' \in Seq(PacketIds)
    BY <1>13, <2>1, PacketIdsAreNumbers, AppendProperties
    DEF ReadPacket, From!Accept, Contents
  <2> QED BY <1>13, <2>1, <2>2
          DEF ReadPacket, From!Accept, Positions, Contents, Threads
<1>14. CASE ReadNothing \/ ReadError
  BY <1>14 DEF ReadNothing, ReadError, Positions, Contents, Threads, queues
<1>15. CASE ToCheck
  BY <1>15, PollPosition DEF ToCheck, Threads
<1>16. CASE ToTake
  <2>1. Head(toChan) \in PacketIds /\ Tail(toChan) \in Seq(PacketIds)
    BY <1>16, HeadTailProperties DEF ToTake, To!Take, Contents
  <2> QED BY <1>16, <2>1, PacketIdsAreNumbers
          DEF ToTake, To!Take, Positions, Contents, Threads
<1>17. CASE ToTimesOut
  BY <1>17 DEF ToTimesOut, Positions, Contents, Threads, queues
<1>18. ASSUME NEW ok \in BOOLEAN, WriteTun(ok)
       PROVE  Positions' /\ Contents'
  BY <1>18 DEF WriteTun, To!Finish, Positions, Contents, Threads
<1>19. CASE EchoPush
  <2>1. toOut \in PacketIds
    BY <1>19 DEF EchoPush, Contents
  <2>2. fromChan' \in Seq(PacketIds)
    BY <1>19, <2>1, AppendProperties DEF EchoPush, From!Accept, Contents
  <2> QED BY <1>19, <2>2
          DEF EchoPush, From!Accept, To!Finish, Positions, Contents, Threads
<1>20. CASE EchoDropped
  BY <1>20 DEF EchoDropped, To!Finish, Positions, Contents, Threads
<1>21. CASE RecvTake
  <2>1. Head(fromChan) \in PacketIds /\ Tail(fromChan) \in Seq(PacketIds)
    BY <1>21, HeadTailProperties DEF RecvTake, From!Take, Contents
  <2> QED BY <1>21, <2>1, PacketIdsAreNumbers
          DEF RecvTake, From!Take, Positions, Contents, Threads
<1>22. CASE RecvTimesOut
  BY <1>22 DEF RecvTimesOut, Positions, Contents, Threads, queues
<1>23. CASE RecvSend
  BY <1>23 DEF RecvSend, From!Finish, Positions, Contents, Threads
<1>24. CASE RecvCheck
  BY <1>24, PollPosition DEF RecvCheck, Threads
<1>25. CASE StatCheck \/ StatWake
  BY <1>25, PollPosition DEF StatCheck, StatWake, Threads
<1>26. CASE UNCHANGED vars
  BY <1>0, <1>26, HandlerStep DEF vars
<1>27. CASE Start \/ StopCall \/ Stop
  BY <1>1, <1>2, <1>3, <1>4, <1>5, <1>6, <1>9, <1>10, <1>27
  DEF Start, Stop, Senders
<1>28. CASE FromThread \/ ToThread \/ RecvThread \/ StatThread
  BY <1>5, <1>6, <1>11, <1>12, <1>13, <1>14, <1>15, <1>16, <1>17, <1>18, <1>19,
     <1>20, <1>21, <1>22, <1>23, <1>24, <1>25, <1>28
  DEF FromThread, ToThread, RecvThread, StatThread, Senders
<1> QED BY <1>7, <1>8, <1>26, <1>27, <1>28 DEF Next

THEOREM PositionsKept == Spec => [](Positions /\ Contents)
BY PositionsInit, PositionsStep, LifecycleKept, PTL DEF Spec

(* The device's state has its type whatever its threads do                 *)
(* (tun_device.hpp:23-134, 207-256).                                       *)
THEOREM TypeCorrect == Spec => []TypeOK
<1>1. Lifecycle /\ Positions /\ Contents => TypeOK
  BY DEF Lifecycle, CallTypes, Reporting, Positions, Contents, TypeOK
<1> QED BY <1>1, LifecycleKept, PositionsKept, PTL
-----------------------------------------------------------------------------
(* A packet at the end of a sequence.                                      *)
LEMMA AgesAppend ==
  ASSUME NEW s \in Seq(PacketIds), NEW p \in PacketIds
  PROVE  /\ Ages(Append(s, p)) = Ages(s) \cup {Age(p)}
         /\ InOrder(s) /\ Older(Ages(s), {Age(p)}) => InOrder(Append(s, p))
<1> DEFINE a == Append(s, p)
<1>1. /\ Len(s) \in Nat /\ Len(a) = Len(s) + 1 /\ a[Len(s) + 1] = p
      /\ \A i \in 1..Len(s) : a[i] = s[i]
  BY AppendProperties, LenProperties
<1> HIDE DEF a
<1>2. Ages(a) = Ages(s) \cup {Age(p)}
  BY <1>1 DEF Ages
<1>3. ASSUME InOrder(s), Older(Ages(s), {Age(p)}),
             NEW i \in 1..Len(a), NEW j \in 1..Len(a), i < j
      PROVE  Age(a[i]) < Age(a[j])
  <2>1. i \in 1..Len(s)
    BY <1>1, <1>3
  <2>2. CASE j = Len(s) + 1
    <3>1. Age(s[i]) \in Ages(s)
      BY <2>1 DEF Ages
    <3> QED BY <1>1, <1>3, <2>1, <2>2, <3>1 DEF Older
  <2>3. CASE j # Len(s) + 1
    <3>1. j \in 1..Len(s)
      BY <1>1, <2>3
    <3> QED BY <1>1, <1>3, <2>1, <3>1 DEF InOrder
  <2> QED BY <2>2, <2>3
<1>4. InOrder(s) /\ Older(Ages(s), {Age(p)}) => InOrder(a)
  BY <1>3 DEF InOrder
<1> QED BY <1>2, <1>4 DEF a

(* The packet at the head of a sequence.                                   *)
LEMMA AgesHead ==
  ASSUME NEW s \in Seq(PacketIds), s # << >>
  PROVE  /\ Head(s) \in PacketIds
         /\ Ages(s) = {Age(Head(s))} \cup Ages(Tail(s))
         /\ InOrder(s) => InOrder(Tail(s)) /\ Older({Age(Head(s))}, Ages(Tail(s)))
<1> DEFINE t == Tail(s)
<1>1. /\ Head(s) \in PacketIds /\ Head(s) = s[1]
      /\ Len(s) \in Nat /\ Len(s) > 0 /\ Len(t) = Len(s) - 1
      /\ \A i \in 1..Len(t) : t[i] = s[i + 1]
  BY HeadTailProperties, LenProperties, EmptySeq
<1> HIDE DEF t
<1>2. Ages(s) = {Age(Head(s))} \cup Ages(t)
  <2>1. ASSUME NEW i \in 1..Len(s)
        PROVE  i = 1 \/ (i - 1 \in 1..Len(t) /\ s[i] = t[i - 1])
    BY <1>1
  <2>2. Ages(s) \subseteq {Age(Head(s))} \cup Ages(t)
    BY <1>1, <2>1 DEF Ages
  <2>3. {Age(Head(s))} \cup Ages(t) \subseteq Ages(s)
    BY <1>1 DEF Ages
  <2> QED BY <2>2, <2>3
<1>3. ASSUME InOrder(s)
      PROVE  InOrder(t) /\ Older({Age(Head(s))}, Ages(t))
  <2>1. \A i, j \in 1..Len(s) : i < j => Age(s[i]) < Age(s[j])
    BY <1>3 DEF InOrder
  <2>2. \A i \in 1..Len(t) : i + 1 \in 1..Len(s) /\ 1 \in 1..Len(s) /\ 1 < i + 1
    BY <1>1
  <2>3. \A i, j \in 1..Len(t) : i < j => Age(t[i]) < Age(t[j])
    BY <1>1, <2>1, <2>2
  <2>4. \A i \in 1..Len(t) : Age(Head(s)) < Age(t[i])
    BY <1>1, <2>1, <2>2
  <2> QED BY <2>3, <2>4 DEF InOrder, Older, Ages
<1> QED BY <1>1, <1>2, <1>3 DEF t

LEMMA AgesOfNone == Ages(<< >>) = {} /\ InOrder(<< >>)
BY DEF Ages, InOrder

LEMMA AgesAreNumbers ==
  /\ \A p \in PacketIds : Age(p) \in Int
  /\ \A s \in Seq(PacketIds) : Ages(s) \subseteq Int
<1>1. \A p \in PacketIds : Age(p) \in Int
  BY PacketIdsAreNumbers DEF Age
<1> QED BY <1>1, ElementOfSeq DEF Ages
-----------------------------------------------------------------------------
lines == <<echo, toChan, toOut, fromChan, fromOut, accepted, read, written, got>>

LEMMA LinesInit == Init => Lines
<1> SUFFICES ASSUME Init
             PROVE  Lines
  OBVIOUS
<1>1. /\ toChan = << >> /\ fromChan = << >> /\ written = << >> /\ got = << >>
      /\ toOut = NoPacket /\ fromOut = NoPacket
  BY DEF Init, To!Init, From!Init
<1> QED BY <1>1, AgesOfNone, EmptySeq DEF Lines, ToWaits, FromWaits, HeldAge, Older

LEMMA LinesStep ==
  Positions /\ Contents /\ Lines /\ [Next]_vars => Lines'
<1> SUFFICES ASSUME Positions, Contents, Lines, [Next]_vars
             PROVE  Lines'
  OBVIOUS
<1> USE DEF Lines, ToWaits, FromWaits, HeldAge, Older
<1>0. /\ accepted \in Nat /\ read \in Nat
      /\ toChan \in Seq(PacketIds) /\ fromChan \in Seq(PacketIds)
      /\ toOut \in PacketIds \cup {NoPacket} /\ NoPacket \notin PacketIds
      /\ fromOut \in PacketIds \cup {NoPacket}
  BY PacketIdsAreNumbers, DeviceAssumption DEF Contents
<1>1. CASE ClientPacket
  <2>1. accepted + 1 \in PacketIds /\ Age(accepted + 1) = accepted + 1
    BY <1>0, <1>1, PacketIdsAreNumbers, DeviceAssumption DEF ClientPacket, Age
  <2>2. /\ toChan' = Append(toChan, accepted + 1) /\ accepted' = accepted + 1
        /\ UNCHANGED <<echo, toOut, fromChan, fromOut, read, written, got>>
    BY <1>1 DEF ClientPacket, To!Accept
  <2>3. Ages(toChan) \subseteq 1..accepted /\ InOrder(toChan)
    OBVIOUS
  <2>4. Ages(toChan') = Ages(toChan) \cup {accepted + 1} /\ InOrder(toChan')
    BY <1>0, <2>1, <2>2, <2>3, AgesAppend
  <2>5. ToWaits' = ToWaits \cup {accepted + 1}
    BY <2>2, <2>4
  <2>6. ASSUME NEW S, NEW T, S \subseteq 1..accepted, Older(S, T)
        PROVE  S \subseteq 1..accepted' /\ Older(S, T \cup {accepted + 1})
    BY <1>0, <2>2, <2>6
  <2>7. Ages(written)' \cup ToWaits' \subseteq 1..accepted'
    BY <1>0, <2>2, <2>5
  <2>8. /\ Ages(written) \subseteq 1..accepted /\ Older(Ages(written), ToWaits)
        /\ HeldAge(toOut) \subseteq 1..accepted /\ Older(HeldAge(toOut), Ages(toChan))
        /\ echo => /\ Ages(got) \cup FromWaits \subseteq 1..accepted
                   /\ Older(Ages(got) \cup FromWaits, ToWaits)
    OBVIOUS
  <2>9. /\ Ages(written)' = Ages(written) /\ HeldAge(toOut)' = HeldAge(toOut)
        /\ Ages(toChan)' = Ages(toChan) \cup {accepted + 1}
        /\ (Ages(got) \cup FromWaits)' = Ages(got) \cup FromWaits
    BY <2>2, <2>4
  <2>10. /\ Older(Ages(written)', ToWaits')
         /\ Older(HeldAge(toOut)', Ages(toChan)')
         /\ echo => /\ (Ages(got) \cup FromWaits)' \subseteq 1..accepted'
                    /\ Older((Ages(got) \cup FromWaits)', ToWaits')
    <3> HIDE DEF Lines, ToWaits, FromWaits, HeldAge, Older
    <3>1. Older(Ages(written), ToWaits') /\ Older(HeldAge(toOut), Ages(toChan)')
      BY <2>5, <2>6, <2>8, <2>9
    <3>2. echo => /\ Ages(got) \cup FromWaits \subseteq 1..accepted'
                  /\ Older(Ages(got) \cup FromWaits, ToWaits')
      BY <2>5, <2>6, <2>8
    <3>3. /\ Older(Ages(written)', ToWaits')
          /\ Older(HeldAge(toOut)', Ages(toChan)')
      BY <2>9, <3>1
    <3>4. echo => /\ (Ages(got) \cup FromWaits)' \subseteq 1..accepted'
                  /\ Older((Ages(got) \cup FromWaits)', ToWaits')
      BY <2>9, <3>2
    <3> QED BY <3>3, <3>4
  <2> QED BY <2>2, <2>4, <2>7, <2>10
<1>2. CASE ClientPacketDropped
  BY <1>0, <1>2 DEF ClientPacketDropped, queues
<1>3. CASE ReadPacket
  <2>1. ~echo /\ read + 1 \in 1..MaxPackets
    BY <1>0, <1>3, DeviceAssumption DEF ReadPacket, Positions
  <2>2. -(read + 1) \in PacketIds /\ Age(-(read + 1)) = read + 1
    BY <1>0, <2>1, PacketIdsAreNumbers DEF Age
  <2>3. /\ fromChan' = Append(fromChan, -(read + 1)) /\ read' = read + 1
        /\ UNCHANGED <<echo, toChan, toOut, fromOut, accepted, written, got>>
    BY <1>3 DEF ReadPacket, From!Accept
  <2>4. Ages(fromChan) \subseteq 1..read /\ InOrder(fromChan)
    BY <2>1
  <2>5. Ages(fromChan') = Ages(fromChan) \cup {read + 1} /\ InOrder(fromChan')
    BY <1>0, <2>2, <2>3, <2>4, AgesAppend
  <2>6. FromWaits' = FromWaits \cup {read + 1}
    BY <2>3, <2>5
  <2>7. ASSUME NEW S, NEW T, S \subseteq 1..read, Older(S, T)
        PROVE  Older(S, T \cup {read + 1})
    BY <1>0, <2>7
  <2>8. Ages(got)' \cup FromWaits' \subseteq 1..read'
    BY <1>0, <2>1, <2>3, <2>6
  <2>9. /\ Ages(got) \subseteq 1..read /\ Older(Ages(got), FromWaits)
        /\ HeldAge(fromOut) \subseteq 1..read /\ Older(HeldAge(fromOut), Ages(fromChan))
    BY <2>1
  <2>10. /\ Ages(got)' = Ages(got) /\ HeldAge(fromOut)' = HeldAge(fromOut)
         /\ Ages(fromChan)' = Ages(fromChan) \cup {read + 1}
    BY <2>3, <2>5
  <2>11. Older(Ages(got)', FromWaits') /\ Older(HeldAge(fromOut)', Ages(fromChan)')
    <3> HIDE DEF Lines, ToWaits, FromWaits, HeldAge, Older
    <3> QED BY <2>6, <2>7, <2>9, <2>10
  <2> QED BY <2>1, <2>3, <2>5, <2>8, <2>11
<1>4. CASE ToTake
  <2>1. /\ toOut = NoPacket /\ toChan # << >>
        /\ toOut' = Head(toChan) /\ toChan' = Tail(toChan)
        /\ UNCHANGED <<echo, fromChan, fromOut, accepted, read, written, got>>
    BY <1>4 DEF ToTake, To!Take
  <2>2. /\ toOut' \in PacketIds
        /\ Ages(toChan) = {Age(toOut')} \cup Ages(toChan')
        /\ InOrder(toChan') /\ Older({Age(toOut')}, Ages(toChan'))
    BY <1>0, <2>1, AgesHead
  <2>3. HeldAge(toOut') = {Age(toOut')} /\ ToWaits' = ToWaits
    BY <1>0, <2>1, <2>2
  <2> QED BY <2>1, <2>2, <2>3
<1>5. ASSUME NEW ok \in BOOLEAN, WriteTun(ok)
      PROVE  Lines'
  <2>1. /\ toOut # NoPacket /\ toOut' = NoPacket
        /\ UNCHANGED <<echo, toChan, fromChan, fromOut, accepted, read, got>>
        /\ written' = written \/ written' = Append(written, toOut)
    BY <1>5 DEF WriteTun, To!Finish
  <2>2. HeldAge(toOut) = {Age(toOut)} /\ HeldAge(toOut') = {} /\ toOut \in PacketIds
    BY <1>0, <2>1
  <2>3. CASE written' = written
    BY <2>1, <2>2, <2>3
  <2>4. CASE written' = Append(written, toOut)
    <3>1. /\ written' \in Seq(PacketIds) /\ InOrder(written')
          /\ Ages(written') = Ages(written) \cup {Age(toOut)}
      BY <2>2, <2>4, AgesAppend, AppendProperties
    <3> QED BY <2>1, <2>2, <3>1
  <2> QED BY <2>1, <2>3, <2>4
<1>6. CASE EchoPush
  <2>1. /\ echo /\ toOut # NoPacket /\ toOut' = NoPacket
        /\ fromChan' = Append(fromChan, toOut)
        /\ UNCHANGED <<echo, toChan, fromOut, accepted, read, written, got>>
    BY <1>6 DEF EchoPush, From!Accept, To!Finish
  <2>2. HeldAge(toOut) = {Age(toOut)} /\ HeldAge(toOut') = {} /\ toOut \in PacketIds
    BY <1>0, <2>1
  <2>3. Older(Ages(fromChan), {Age(toOut)}) /\ InOrder(fromChan)
    BY <2>1, <2>2
  <2>4. Ages(fromChan') = Ages(fromChan) \cup {Age(toOut)} /\ InOrder(fromChan')
    BY <1>0, <2>1, <2>2, <2>3, AgesAppend
  <2> QED BY <2>1, <2>2, <2>4
<1>7. CASE EchoDropped
  <2>1. /\ toOut' = NoPacket
        /\ UNCHANGED <<echo, toChan, fromChan, fromOut, accepted, read, written, got>>
    BY <1>7 DEF EchoDropped, To!Finish
  <2> QED BY <2>1
<1>8. CASE RecvTake
  <2>1. /\ fromOut = NoPacket /\ fromChan # << >>
        /\ fromOut' = Head(fromChan) /\ fromChan' = Tail(fromChan)
        /\ UNCHANGED <<echo, toChan, toOut, accepted, read, written, got>>
    BY <1>8 DEF RecvTake, From!Take
  <2>2. /\ fromOut' \in PacketIds
        /\ Ages(fromChan) = {Age(fromOut')} \cup Ages(fromChan')
        /\ InOrder(fromChan') /\ Older({Age(fromOut')}, Ages(fromChan'))
    BY <1>0, <2>1, AgesHead
  <2>3. HeldAge(fromOut') = {Age(fromOut')} /\ FromWaits' = FromWaits
    BY <1>0, <2>1, <2>2
  <2> QED BY <2>1, <2>2, <2>3
<1>9. CASE RecvSend
  <2>1. /\ fromOut # NoPacket /\ fromOut' = NoPacket /\ got' = Append(got, fromOut)
        /\ UNCHANGED <<echo, toChan, toOut, fromChan, accepted, read, written>>
    BY <1>9 DEF RecvSend, From!Finish
  <2>2. HeldAge(fromOut) = {Age(fromOut)} /\ HeldAge(fromOut') = {}
        /\ fromOut \in PacketIds
    BY <1>0, <2>1
  <2>3. /\ got' \in Seq(PacketIds) /\ InOrder(got')
        /\ Ages(got') = Ages(got) \cup {Age(fromOut)}
    BY <2>1, <2>2, AgesAppend, AppendProperties
  <2> QED BY <2>1, <2>2, <2>3
<1>10. CASE UNCHANGED lines
  BY <1>10 DEF lines
<1>11. CASE Start \/ StopCall \/ Stop \/ StatThread \/ UNCHANGED vars
  <2>1. UNCHANGED lines
    BY <1>11
    DEF lines, Start, StartCall, TunAllocFails, TunAlloc, Configure, Spawn, StopCall,
        Stop, Join, Close, StatThread, StatCheck, StatWake, Poll, LoadSeq, StoreSeq,
        Send, queues, vars
  <2> QED BY <1>10, <2>1
<1>12. CASE FromThread \/ ToThread \/ RecvThread
  <2>1. \/ ReadPacket \/ ToTake \/ (\E ok \in BOOLEAN : WriteTun(ok))
        \/ EchoPush \/ EchoDropped \/ RecvTake \/ RecvSend \/ UNCHANGED lines
    BY <1>12
    DEF lines, FromThread, FromEcho, FromCheck, ReadNothing, ReadError, ToThread,
        ToCheck, ToTimesOut, RecvThread, RecvTimesOut, RecvCheck, Poll, queues
  <2> QED BY <1>3, <1>4, <1>5, <1>6, <1>7, <1>8, <1>9, <1>10, <2>1
<1> QED BY <1>1, <1>2, <1>11, <1>12 DEF Next

(* Packets may be dropped on their way but not repeated or reordered       *)
(* (tun_device.hpp:101-108, 122-131; tuna_server.hpp:61-78).               *)
THEOREM PacketsStayInOrder == Spec => []PacketsInOrder
<1>1. Spec => []Lines
  BY LinesInit, LinesStep, PositionsKept, PTL DEF Spec
<1>2. Lines => PacketsInOrder
  BY DEF Lines, PacketsInOrder
<1> QED BY <1>1, <1>2, PTL
-----------------------------------------------------------------------------
(* Without a thread the device is what the handler made of it.             *)
LEMMA DownIsStopped ==
  ASSUME Lifecycle, caller = "down"
  PROVE  ~Alive /\ DeviceState = "stopped"
BY DEF Lifecycle, ThreadsOfCall, JoinedBy, Threads, Alive, DeviceState, Stopping

ContractStep == [Contract!Next]_DeviceState

(* Where the handler does nothing, the last thread that returns makes the  *)
(* device a failed one.                                                    *)
LEMMA LoopKeepsContract ==
  ASSUME Lifecycle, UNCHANGED <<caller, starts>>, Alive' => Alive
  PROVE  ContractStep
<1>1. CASE caller \in {"started", "up"}
  <2>1. DeviceState = (IF Alive THEN "running" ELSE "failed")
    BY <1>1 DEF DeviceState
  <2>2. DeviceState' = (IF Alive' THEN "running" ELSE "failed")
    BY <1>1 DEF DeviceState
  <2> QED BY <2>1, <2>2 DEF ContractStep, Contract!Next, Contract!Fail, Contract!Moves
<1>2. CASE caller \notin {"started", "up"}
  <2>1. DeviceState' = DeviceState
    BY <1>2, DownIsStopped DEF DeviceState
  <2> QED BY <2>1 DEF ContractStep
<1> QED BY <1>1, <1>2

LEMMA HandlerKeepsContract ==
  ASSUME Lifecycle, Lifecycle', Start \/ StopCall \/ Stop
  PROVE  ContractStep
<1> USE DEF Lifecycle, CallTypes, CallerAt, Stopping
<1>1. ASSUME NEW fits \in BOOLEAN, StartCall(fits)
      PROVE  ContractStep
  <2>1. /\ caller \in {"new", "down"}
        /\ caller' \in {"failed", "spawnFrom", "alloc"} /\ starts' = starts + 1
    BY <1>1 DEF StartCall
  <2>2. DeviceState' = (IF starts' > 1 THEN "stopped" ELSE "none")
    BY <2>1 DEF DeviceState
  <2>3. DeviceState = (IF starts > 0 THEN "stopped" ELSE "none")
    BY <2>1, DownIsStopped DEF DeviceState
  <2> QED BY <2>1, <2>2, <2>3 DEF ContractStep
<1>2. ASSUME UNCHANGED starts,
             caller \in {"alloc", "configure", "spawnFrom", "spawnTo", "spawnStat",
                        "spawnRecv", "failed"},
             caller' \in {"alloc", "configure", "spawnFrom", "spawnTo", "spawnStat",
                         "spawnRecv", "failed", "released"}
      PROVE  ContractStep
  BY <1>2 DEF DeviceState, ContractStep
<1>3. CASE TunAllocFails \/ TunAlloc
  BY <1>2, <1>3 DEF TunAllocFails, TunAlloc
<1>4. ASSUME NEW ok \in BOOLEAN, Configure(ok)
      PROVE  ContractStep
  BY <1>2, <1>4 DEF Configure
<1>5. ASSUME NEW i \in 1..4, Spawn(i)
      PROVE  ContractStep
  <2>1. CASE i = 4
    <3>1. /\ caller = "spawnRecv" /\ caller' = "started" /\ starts' = starts
          /\ thr'["recv"] = "running"
      BY <1>5, <2>1 DEF Spawn, SpawnOrder, SpawnStates, Threads
    <3>2. Alive'
      BY <3>1 DEF Alive, Threads
    <3>3. DeviceState' = "running" /\ DeviceState \in {"none", "stopped"}
      BY <3>1, <3>2 DEF DeviceState
    <3> QED BY <3>3 DEF ContractStep, Contract!Next, Contract!Start, Contract!Moves
  <2>2. CASE i \in 1..3
    <3>1. UNCHANGED starts /\ caller \in {"spawnFrom", "spawnTo", "spawnStat"}
          /\ caller' \in {"spawnTo", "spawnStat", "spawnRecv"}
      BY <1>5, <2>2 DEF Spawn, SpawnStates
    <3> QED BY <1>2, <3>1
  <2> QED BY <2>1, <2>2
<1>6. ASSUME NEW s \in Senders, LoadSeq(s) \/ StoreSeq(s)
      PROVE  ContractStep
  <2>1. UNCHANGED <<caller, starts, thr>>
    BY <1>6 DEF LoadSeq, StoreSeq
  <2> QED BY <2>1, LoopKeepsContract DEF Alive
<1>7. CASE Send("caller")
  <2>1. UNCHANGED <<starts, thr>>
    BY <1>7 DEF Send
  <2>2. \/ caller = "started" /\ caller' = "up"
        \/ caller = "failed" /\ caller' = "released"
    BY <1>7 DEF Send, Reporting, Senders
  <2>3. CASE caller = "started"
    BY <2>1, <2>2, <2>3 DEF DeviceState, Alive, ContractStep
  <2>4. CASE caller = "failed"
    BY <1>2, <2>1, <2>2, <2>4
  <2> QED BY <2>2, <2>3, <2>4
<1>8. CASE StopCall
  <2>1. DeviceState \in {"running", "failed"} /\ DeviceState' = "stopping"
    BY <1>8 DEF StopCall, DeviceState
  <2> QED BY <2>1 DEF ContractStep, Contract!Next, Contract!StopCall, Contract!Moves
<1>9. ASSUME NEW i \in 1..4, Join(i)
      PROVE  ContractStep
  <2>1. caller \in Stopping /\ caller' \in Stopping
    BY <1>9 DEF Join, JoinStates
  <2> QED BY <2>1 DEF DeviceState, ContractStep
<1>10. CASE Close
  <2>1. caller = "close" /\ caller' = "down"
    BY <1>10 DEF Close
  <2>2. DeviceState' = "stopped"
    BY <2>1 DEF ThreadsOfCall, JoinedBy, Threads, Alive, DeviceState
  <2>3. DeviceState = "stopping"
    BY <2>1 DEF DeviceState
  <2> QED BY <2>2, <2>3
          DEF ContractStep, Contract!Next, Contract!StopReturn, Contract!Moves
<1> QED BY <1>1, <1>3, <1>4, <1>5, <1>6, <1>7, <1>8, <1>9, <1>10
        DEF Start, Stop, Senders

(* The device is started, fails and is stopped as its connection may       *)
(* expect: each step of the handler or of a thread is one of Device or     *)
(* changes nothing that the connection sees (tun_device.hpp:207-256).      *)
THEOREM DeviceImplementsContract == Spec => ImplementsDevice
<1>1. Init => Contract!Init
  BY DEF Init, Contract!Init, DeviceState, Stopping
<1>2. Lifecycle /\ Lifecycle' /\ [Next]_vars => ContractStep
  <2> SUFFICES ASSUME Lifecycle, Lifecycle', [Next]_vars
               PROVE  ContractStep
    OBVIOUS
  <2>1. CASE Start \/ StopCall \/ Stop
    BY <2>1, HandlerKeepsContract
  <2>2. CASE FromThread \/ ToThread \/ RecvThread \/ StatThread
    <3>1. UNCHANGED <<caller, starts>>
      BY <2>2
      DEF FromThread, FromEcho, FromCheck, ReadPacket, ReadNothing, ReadError,
          ToThread, ToCheck, ToTake, ToTimesOut, WriteTun, EchoPush, EchoDropped,
          RecvThread, RecvTake, RecvTimesOut, RecvSend, RecvCheck, StatThread,
          StatCheck, StatWake, LoadSeq, StoreSeq, Send, Poll
    <3>2. thr' = thr \/ \E t \in Threads : thr' = [thr EXCEPT ![t] = "ended"]
      BY <2>2
      DEF FromThread, FromEcho, FromCheck, ReadPacket, ReadNothing, ReadError,
          ToThread, ToCheck, ToTake, ToTimesOut, WriteTun, EchoPush, EchoDropped,
          RecvThread, RecvTake, RecvTimesOut, RecvSend, RecvCheck, StatThread,
          StatCheck, StatWake, LoadSeq, StoreSeq, Send, Poll, Threads
    <3>3. Alive' => Alive
      BY <3>2 DEF Alive, Lifecycle, CallTypes
    <3> QED BY <3>1, <3>3, LoopKeepsContract
  <2>3. CASE ClientPacket \/ ClientPacketDropped \/ UNCHANGED vars
    <3>1. UNCHANGED <<caller, starts, thr>>
      BY <2>3 DEF ClientPacket, ClientPacketDropped, vars
    <3> QED BY <3>1, LoopKeepsContract DEF Alive
  <2> QED BY <2>1, <2>2, <2>3 DEF Next
<1>3. Spec => Contract!Spec
  BY <1>1, <1>2, LifecycleKept, PTL DEF Spec, Contract!Spec, ContractStep
<1> QED BY <1>3 DEF ImplementsDevice
=============================================================================
