----------------------------- MODULE TunDevice -----------------------------
(***************************************************************************)
(* One TunDevice (src/tun_device.hpp) with its four threads, as one        *)
(* websocket connection uses it (actionInit(), processPacket() and         *)
(* disconnect() of src/tuna_server.hpp).                                   *)
(*                                                                         *)
(*   client --push--> toTun --(toTun thread)--> tun                        *)
(*   tun --(fromTun thread)--> fromTun --(recv thread)--> client           *)
(*   echo mode: toTun --(toTun thread)--> fromTun                          *)
(*   stat thread, and the caller once: sendTun()                           *)
(*                                                                         *)
(* The two queues are bounded channels (PacketChannel); that PacketQueue   *)
(* implements one is shown there.  A call of push() that finds no room and *)
(* a call of pop() that finds no packet time out.  A step is what a thread *)
(* does between two accesses to `running`, the descriptor, the sequence    *)
(* number, a queue, or the connection.                                     *)
(***************************************************************************)
EXTENDS Integers, Sequences, FiniteSets

CONSTANTS
  QSize,      \* packets in each queue's pool
  MaxPackets, \* bound: packets from the client, and packets from the tun
  MaxStarts,  \* bound: calls of start()
  MaxStats,   \* bound: stat-res messages
  NoPacket    \* a queue's consumer holds no packet

ASSUME DeviceAssumption ==
  /\ QSize \in Nat \ {0}
  /\ MaxPackets \in Nat /\ MaxStarts \in Nat /\ MaxStats \in Nat
  /\ NoPacket \notin Int

VARIABLES
  echo,       \* ifAddrs.isEcho()
  running,    \* the volatile flag every loop polls
  tunFd,      \* tunFd, -1 before the first tun_alloc()
  open,       \* the kernel's side: the device's open descriptors
  caller,     \* where the connection's handler is
  thr,        \* each thread object: none, running, ended or joined
  pc,         \* where each thread is in its loop
  seq,        \* the sequence number of the reports
  reg,        \* per reporting thread: how far asJson() is, and its values
  toChan, toOut,      \* the toTun queue
  fromChan, fromOut,  \* the fromTun queue
  accepted,   \* history: packets taken from the client so far
  read,       \* history: packets read from the tun so far
  written,    \* packets written to the tun
  got,        \* packets sent to the client
  res,        \* reports sent to the client
  starts      \* history: calls of start()

queues == <<toChan, toOut, fromChan, fromOut>>
device == <<running, tunFd, open>>
reports == <<seq, reg, res>>
traffic == <<accepted, read, written, got>>
vars == <<echo, device, caller, thr, pc, reports, queues, traffic, starts>>

Threads == {"fromTun", "toTun", "recv", "stat"}
Senders == {"caller", "stat"}

(* The client's packets are 1, 2, ... and the tun's -1, -2, ...            *)
PacketIds == (1..MaxPackets) \cup {-n : n \in 1..MaxPackets}

To == INSTANCE PacketChannel WITH
  Messages <- PacketIds, Capacity <- QSize, NoMessage <- NoPacket,
  chan <- toChan, out <- toOut

From == INSTANCE PacketChannel WITH
  Messages <- PacketIds, Capacity <- QSize, NoMessage <- NoPacket,
  chan <- fromChan, out <- fromOut

(* sendTun() before asJson() has begun.                                    *)
NoReport == [at |-> "begin", seq |-> 0, running |-> FALSE]

Goto(t, l) == pc' = [pc EXCEPT ![t] = l]

(* A thread's function returns.                                            *)
End(t) == thr' = [thr EXCEPT ![t] = "ended"]

At(t, l) == thr[t] = "running" /\ pc[t] = l

Init ==
  /\ echo \in BOOLEAN
  /\ running = FALSE /\ tunFd = -1 /\ open = {}
  /\ caller = "new"
  /\ thr = [t \in Threads |-> "none"]
  /\ pc = [t \in Threads |-> "check"]
  /\ seq = 0 /\ reg = [s \in Senders |-> NoReport]
  /\ To!Init /\ From!Init
  /\ accepted = 0 /\ read = 0
  /\ written = <<>> /\ got = <<>> /\ res = <<>>
  /\ starts = 0
-----------------------------------------------------------------------------
(* start(), and what actionInit() does after it.                           *)

(* start() refuses a running device, and an mtu beyond the packets'.       *)
StartCall(mtuFits) ==
  /\ caller \in {"new", "down"} /\ starts < MaxStarts
  /\ starts' = starts + 1
  /\ IF running \/ ~mtuFits
     THEN caller' = "failed" /\ UNCHANGED running
     ELSE caller' = (IF echo THEN "spawnFrom" ELSE "alloc") /\ running' = TRUE
  /\ UNCHANGED <<echo, tunFd, open, thr, pc, reports, queues, traffic>>

TunAllocFails ==
  /\ caller = "alloc"
  /\ caller' = "failed"
  /\ UNCHANGED <<echo, device, thr, pc, reports, queues, traffic, starts>>

TunAlloc ==
  /\ caller = "alloc"
  /\ tunFd' = starts
  /\ open' = open \cup {tunFd'}
  /\ caller' = "configure"
  /\ UNCHANGED <<echo, running, thr, pc, reports, queues, traffic, starts>>

(* The commands' results are dropped; only fcntl() can fail the start.     *)
Configure(ok) ==
  /\ caller = "configure"
  /\ caller' = IF ok THEN "spawnFrom" ELSE "failed"
  /\ UNCHANGED <<echo, device, thr, pc, reports, queues, traffic, starts>>

(* The threads start one by one; the first ones run before the last exist. *)
SpawnOrder == <<"fromTun", "toTun", "stat", "recv">>
SpawnStates == <<"spawnFrom", "spawnTo", "spawnStat", "spawnRecv">>

Spawn(i) ==
  /\ caller = SpawnStates[i]
  /\ thr' = [thr EXCEPT ![SpawnOrder[i]] = "running"]
  /\ Goto(SpawnOrder[i], IF SpawnOrder[i] = "recv" THEN "pop" ELSE "check")
  /\ caller' = IF i = 4 THEN "started" ELSE SpawnStates[i + 1]
  /\ UNCHANGED <<echo, device, reports, queues, traffic, starts>>
-----------------------------------------------------------------------------
(* sendTun(): asJson(), then the send.  The caller sends one init-res for  *)
(* a start, the stat thread sends a stat-res now and then.                 *)

Reports(s) == IF s = "stat" THEN At("stat", "report")
              ELSE caller \in {"started", "failed"}

(* ++seq is a load and a store.                                            *)
LoadSeq(s) ==
  /\ Reports(s) /\ reg[s].at = "begin"
  /\ reg' = [reg EXCEPT ![s] = [NoReport EXCEPT !.at = "loaded", !.seq = seq]]
  /\ UNCHANGED <<echo, device, caller, thr, pc, seq, res, queues, traffic, starts>>

StoreSeq(s) ==
  /\ reg[s].at = "loaded"
  /\ seq' = reg[s].seq + 1
  /\ reg' = [reg EXCEPT ![s] = [at |-> "stored", seq |-> seq', running |-> running]]
  /\ UNCHANGED <<echo, device, caller, thr, pc, res, queues, traffic, starts>>

Send(s) ==
  /\ reg[s].at = "stored"
  /\ res' = Append(res, [action |-> IF s = "stat" THEN "stat-res" ELSE "init-res",
                         seq |-> reg[s].seq, running |-> reg[s].running,
                         started |-> caller # "failed"])
  /\ reg' = [reg EXCEPT ![s] = NoReport]
  /\ IF s = "stat"
     THEN Goto("stat", "check") /\ UNCHANGED caller
     ELSE /\ caller' = IF caller = "started" THEN "up" ELSE "released"
          /\ UNCHANGED pc
  /\ UNCHANGED <<echo, device, thr, seq, queues, traffic, starts>>
-----------------------------------------------------------------------------
(* The connection's packets: processPacket() pushes into toTun.            *)

ClientPacket ==
  /\ caller = "up" /\ accepted < MaxPackets
  /\ To!Accept(accepted + 1)
  /\ accepted' = accepted + 1
  /\ UNCHANGED <<echo, device, caller, thr, pc, reports, fromChan, fromOut, read,
                 written, got, starts>>

(* The packet is dropped: push() found no room for blockWait, or copyOut() *)
(* had nothing to copy.                                                    *)
ClientPacketDropped ==
  /\ caller = "up" /\ accepted < MaxPackets
  /\ accepted' = accepted + 1
  /\ UNCHANGED <<echo, device, caller, thr, pc, reports, queues, read, written, got,
                 starts>>
-----------------------------------------------------------------------------
(* A loop that polls `running` goes on or returns.                         *)
Poll(t, next) ==
  /\ IF running THEN Goto(t, next) /\ UNCHANGED thr
                ELSE End(t) /\ UNCHANGED pc
  /\ UNCHANGED <<echo, device, caller, reports, queues, traffic, starts>>

(* The fromTun thread.  In echo mode it has nothing to do.                 *)
FromEcho ==
  /\ At("fromTun", "check") /\ echo
  /\ End("fromTun")
  /\ UNCHANGED <<echo, device, caller, pc, reports, queues, traffic, starts>>

FromCheck == At("fromTun", "check") /\ ~echo /\ Poll("fromTun", "read")

ReadPacket ==
  /\ At("fromTun", "read") /\ read < MaxPackets
  /\ From!Accept(-(read + 1))
  /\ read' = read + 1
  /\ Goto("fromTun", "check")
  /\ UNCHANGED <<echo, device, caller, thr, reports, toChan, toOut, accepted,
                 written, got, starts>>

(* No packet within select()'s time, or no room in fromTun.                *)
ReadNothing ==
  /\ At("fromTun", "read")
  /\ Goto("fromTun", "check")
  /\ UNCHANGED <<echo, device, caller, thr, reports, queues, traffic, starts>>

(* tunDevError(): end of file or an error.                                 *)
ReadError ==
  /\ At("fromTun", "read") /\ From!Outstanding < QSize
  /\ running' = FALSE
  /\ Goto("fromTun", "check")
  /\ UNCHANGED <<echo, tunFd, open, caller, thr, reports, queues, traffic, starts>>

(* The toTun thread.                                                       *)
ToCheck == At("toTun", "check") /\ Poll("toTun", "pop")

ToTake ==
  /\ At("toTun", "pop")
  /\ To!Take
  /\ Goto("toTun", "write")
  /\ UNCHANGED <<echo, device, caller, thr, reports, fromChan, fromOut, traffic,
                 starts>>

ToTimesOut ==
  /\ At("toTun", "pop") /\ toChan = <<>>
  /\ Goto("toTun", "check")
  /\ UNCHANGED <<echo, device, caller, thr, reports, queues, traffic, starts>>

(* tun_write(): whatever it returns, the packet is consumed.               *)
WriteTun(ok) ==
  /\ At("toTun", "write") /\ ~echo
  /\ written' = IF ok THEN Append(written, toOut) ELSE written
  /\ To!Finish
  /\ Goto("toTun", "check")
  /\ UNCHANGED <<echo, device, caller, thr, reports, fromChan, fromOut, accepted,
                 read, got, starts>>

(* The echo: the popping thread pushes a copy into fromTun, ...            *)
EchoPush ==
  /\ At("toTun", "write") /\ echo
  /\ From!Accept(toOut)
  /\ To!Finish
  /\ Goto("toTun", "check")
  /\ UNCHANGED <<echo, device, caller, thr, reports, traffic, starts>>

(* Mutant: the push inside the pop waits for room as long as it takes.     *)
EchoDropped_Waits == FALSE /\ UNCHANGED vars

(* ... and drops it when fromTun has no room for blockWait.  A packet is   *)
(* given back only some time after its consumer's action is done.          *)
EchoDropped ==
  /\ At("toTun", "write") /\ echo
  /\ From!Outstanding >= QSize - 1
  /\ To!Finish
  /\ Goto("toTun", "check")
  /\ UNCHANGED <<echo, device, caller, thr, reports, fromChan, fromOut, traffic,
                 starts>>

(* The recv thread: do pop() while running.                                *)
RecvTake ==
  /\ At("recv", "pop")
  /\ From!Take
  /\ Goto("recv", "send")
  /\ UNCHANGED <<echo, device, caller, thr, reports, toChan, toOut, traffic, starts>>

RecvTimesOut ==
  /\ At("recv", "pop") /\ fromChan = <<>>
  /\ Goto("recv", "check")
  /\ UNCHANGED <<echo, device, caller, thr, reports, queues, traffic, starts>>

(* Mutant: the packet is sent again before it is given back.               *)
RecvSend_Twice ==
  /\ At("recv", "send")
  /\ got' = got \o <<fromOut, fromOut>>
  /\ From!Finish
  /\ Goto("recv", "check")
  /\ UNCHANGED <<echo, device, caller, thr, reports, toChan, toOut, accepted,
                 read, written, starts>>

(* Mutant: the packet is not given back.                                   *)
RecvSend_NeverFrees ==
  /\ At("recv", "send")
  /\ got' = Append(got, fromOut)
  /\ Goto("recv", "check")
  /\ UNCHANGED <<echo, device, caller, thr, reports, queues, accepted, read,
                 written, starts>>

(* wsServer->send() copies the packet's bytes before it returns.           *)
RecvSend ==
  /\ At("recv", "send")
  /\ got' = Append(got, fromOut)
  /\ From!Finish
  /\ Goto("recv", "check")
  /\ UNCHANGED <<echo, device, caller, thr, reports, toChan, toOut, accepted,
                 read, written, starts>>

(* Mutant: the recv thread waits for the next packet whatever `running` is. *)
RecvCheck_Endless ==
  /\ At("recv", "check")
  /\ Goto("recv", "pop")
  /\ UNCHANGED <<echo, device, caller, thr, reports, queues, traffic, starts>>

RecvCheck == At("recv", "check") /\ Poll("recv", "pop")

(* The stat thread sleeps between two looks at `running`.                  *)
StatCheck == At("stat", "check") /\ Poll("stat", "sleep")

Stats == Cardinality({i \in 1..Len(res) : res[i].action = "stat-res"})

(* Beyond the bound the model's stat thread sleeps on.                     *)
StatWake ==
  /\ At("stat", "sleep")
  /\ Poll("stat", IF Stats < MaxStats THEN "report" ELSE "check")
-----------------------------------------------------------------------------
(* stop(), when the connection closes or fails.                            *)

StopCall ==
  /\ caller = "up"
  /\ running' = FALSE
  /\ caller' = "joinFrom"
  /\ UNCHANGED <<echo, tunFd, open, thr, pc, reports, queues, traffic, starts>>

JoinOrder == <<"fromTun", "toTun", "recv", "stat">>
JoinStates == <<"joinFrom", "joinTo", "joinRecv", "joinStat">>

(* Mutant: the descriptor is closed once the reading thread is gone.       *)
Join_ClosesEarly(i) ==
  /\ caller = JoinStates[i]
  /\ thr[JoinOrder[i]] = "ended"
  /\ thr' = [thr EXCEPT ![JoinOrder[i]] = "joined"]
  /\ caller' = IF i = 4 THEN "close" ELSE JoinStates[i + 1]
  /\ open' = IF i = 1 THEN open \ {tunFd} ELSE open
  /\ UNCHANGED <<echo, running, tunFd, pc, reports, queues, traffic, starts>>

(* Mutant: the stat thread is left to itself.                              *)
Join_NotStat(i) ==
  /\ caller = JoinStates[i]
  /\ i = 4 \/ thr[JoinOrder[i]] = "ended"
  /\ thr' = IF i = 4 THEN thr ELSE [thr EXCEPT ![JoinOrder[i]] = "joined"]
  /\ caller' = IF i = 4 THEN "close" ELSE JoinStates[i + 1]
  /\ UNCHANGED <<echo, device, pc, reports, queues, traffic, starts>>

(* A thread is joined when its function has returned.                      *)
Join(i) ==
  /\ caller = JoinStates[i]
  /\ thr[JoinOrder[i]] = "ended"
  /\ thr' = [thr EXCEPT ![JoinOrder[i]] = "joined"]
  /\ caller' = IF i = 4 THEN "close" ELSE JoinStates[i + 1]
  /\ UNCHANGED <<echo, device, pc, reports, queues, traffic, starts>>

(* tunFd keeps the number of the closed descriptor.                        *)
Close ==
  /\ caller = "close"
  /\ open' = open \ {tunFd}
  /\ caller' = "down"
  /\ UNCHANGED <<echo, running, tunFd, thr, pc, reports, queues, traffic, starts>>
-----------------------------------------------------------------------------
FromThread == FromEcho \/ FromCheck \/ ReadPacket \/ ReadNothing \/ ReadError

ToThread ==
  \/ ToCheck \/ ToTake \/ ToTimesOut
  \/ \E ok \in BOOLEAN : WriteTun(ok)
  \/ EchoPush \/ EchoDropped

RecvThread == RecvTake \/ RecvTimesOut \/ RecvSend \/ RecvCheck

StatThread ==
  StatCheck \/ StatWake \/ LoadSeq("stat") \/ StoreSeq("stat") \/ Send("stat")

Start ==
  \/ \E fits \in BOOLEAN : StartCall(fits)
  \/ TunAllocFails \/ TunAlloc
  \/ \E ok \in BOOLEAN : Configure(ok)
  \/ \E i \in 1..4 : Spawn(i)
  \/ LoadSeq("caller") \/ StoreSeq("caller") \/ Send("caller")

Stop == (\E i \in 1..4 : Join(i)) \/ Close

Next ==
  \/ Start \/ ClientPacket \/ ClientPacketDropped \/ StopCall \/ Stop
  \/ FromThread \/ ToThread \/ RecvThread \/ StatThread

Spec == Init /\ [][Next]_vars

(* Every thread runs on: pop(), push(), select(), the sleep and the writes *)
(* to a non-blocking descriptor all end by themselves.  The handler goes   *)
(* through stop(); nothing obliges the client to send, or to close.        *)
FairSpec ==
  /\ Spec
  /\ WF_vars(FromThread) /\ WF_vars(ToThread) /\ WF_vars(RecvThread)
  /\ WF_vars(StatThread) /\ WF_vars(Stop)
-----------------------------------------------------------------------------
(* Properties.                                                             *)

CallerAt ==
  {"new", "alloc", "configure", "spawnFrom", "spawnTo", "spawnStat",
   "spawnRecv", "started", "failed", "up", "joinFrom", "joinTo", "joinRecv",
   "joinStat", "close", "down", "released"}

(* Every variable keeps its type; a loop's position is one of its own.     *)
TypeOK ==
  /\ echo \in BOOLEAN /\ running \in BOOLEAN
  /\ tunFd \in -1..MaxStarts /\ open \subseteq 1..MaxStarts
  /\ caller \in CallerAt
  /\ thr \in [Threads -> {"none", "running", "ended", "joined"}]
  /\ pc["fromTun"] \in {"check", "read"}
  /\ pc["toTun"] \in {"check", "pop", "write"}
  /\ pc["recv"] \in {"check", "pop", "send"}
  /\ pc["stat"] \in {"check", "sleep", "report"}
  /\ pc["toTun"] = "write" <=> toOut # NoPacket
  /\ pc["recv"] = "send" <=> fromOut # NoPacket
  /\ seq \in Nat
  /\ toChan \in Seq(PacketIds) /\ fromChan \in Seq(PacketIds)
  /\ toOut \in PacketIds \cup {NoPacket}
  /\ fromOut \in PacketIds \cup {NoPacket}
  /\ accepted \in 0..MaxPackets /\ read \in 0..MaxPackets

(* No thread reads, writes or selects on a descriptor that is not open,    *)
(* and stop() closes none twice, restarts and the tun's errors included    *)
(* (tun_device.hpp:72-106, 227-235).                                       *)
FdSafety ==
  /\ ~echo /\ (At("fromTun", "read") \/ At("toTun", "write")) => tunFd \in open
  /\ caller = "close" /\ tunFd # -1 => tunFd \in open

(* After stop() returned no thread of the device runs and no descriptor of *)
(* it is open (tun_device.hpp:227-256).                                    *)
StoppedIsQuiet ==
  caller = "down" =>
    /\ \A t \in Threads : thr[t] = "joined"
    /\ open = {}

Age(p) == IF p < 0 THEN -p ELSE p
InOrder(s) == \A i, j \in 1..Len(s) : i < j => Age(s[i]) < Age(s[j])

(* Packets may be dropped on their way but not repeated or reordered, in   *)
(* echo mode through both queues and across a restart                      *)
(* (tun_device.hpp:101-108, 122-131; tuna_server.hpp:61-78).               *)
PacketsInOrder == InOrder(written) /\ InOrder(got)

(* What the connection sees of the device: its threads, once start() is    *)
(* through, and how far stop() is.                                         *)
Alive == \E t \in Threads : thr[t] = "running"

Stopping == {"joinFrom", "joinTo", "joinRecv", "joinStat", "close"}

DeviceState ==
  IF caller \in {"started", "up"} THEN IF Alive THEN "running" ELSE "failed"
  ELSE IF caller \in Stopping THEN "stopping"
  ELSE IF caller = "down" /\ Alive THEN "running"
  ELSE IF caller = "down" \/ starts > 1 THEN "stopped"
  ELSE "none"

Contract == INSTANCE Device WITH state <- DeviceState

(* The device keeps to its contract: it runs when start() is through, it   *)
(* fails only as a whole, and after stop() no thread of it is left, before *)
(* and after a restart (tun_device.hpp:207-256; tuna_server.hpp:100-130).  *)
ImplementsDevice == Contract!Spec

(* stop() returns, whatever the threads were doing: the echo's push in the *)
(* middle of a pop gives up although nobody pops any more                  *)
(* (tun_device.hpp:227-256).                                               *)
StopReturns == caller = "joinFrom" ~> caller = "down"

(* A device that failed stops all its threads although nobody stops it     *)
(* (tun_device.hpp:36-40, 65, 104; tuna_server.hpp:44-51, 77).             *)
ErrorEndsThreads ==
  (caller = "up" /\ ~running) ~> (\A t \in Threads : thr[t] # "running")

(* A report of a start that failed shows the device as not running         *)
(* (test/tuna_server_test.cpp:44-46).                                      *)
FailedStartIsNotRunning ==
  \A i \in 1..Len(res) :
    res[i].action = "init-res" /\ res[i].running => res[i].started

(* The client sees init-res first and then the stat-res, numbered 1, 2,    *)
(* ... (test/tuna_server_test.cpp:148-161).                                *)
ReportsNumbered ==
  \A i \in 1..Len(res) :
    /\ res[i].seq = i
    /\ res[i].action = IF i = 1 THEN "init-res" ELSE "stat-res"
=============================================================================
