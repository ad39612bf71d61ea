---------------------------- MODULE TunnelProofs ----------------------------
(***************************************************************************)
(* Proofs about Tunnel, for addresses, options and requests of any size,   *)
(* any mtu of the kernel and any number of commands, each of which may     *)
(* fail.                                                                   *)
(***************************************************************************)
EXTENDS Tunnel, IfAddrsProofs, FiniteSetTheorems, TLAPS

Configured == {"commands", "tun", "listed"}

(* The parts of the inductive invariant: what the options and the request  *)
(* are, ...                                                                *)
Asked ==
  /\ os \in {"linux", "macos"}
  /\ phase \in Begun \cup {"serving", "refused", "throws"}
  /\ options.mtu \in 0..ShortMod - 1 /\ options.qsize \in 0..ShortMod - 1
  /\ ifAddrs \in IfAddrsOf(0..SizeMod - 1)
  /\ phase \in Configured \cup {"alloc", "echo"} => ifAddrs.mtu <= options.mtu

(* ... the kernel and the commands, ...                                    *)
KernelTypes ==
  /\ kernel \in [mtu : Nat, up : BOOLEAN, addrs : SUBSET Address, routes : SUBSET RouteCommand]
  /\ cmds \in Seq(AnyCommand) /\ lost \in SUBSET AnyCommand
  /\ UpIsLast(cmds, ifAddrs.mtu)
  /\ phase # "commands" => cmds = <<>>

NotYet ==
  phase \notin Configured \cup {"failed"} =>
    ~kernel.up /\ kernel.addrs = {} /\ kernel.routes = {} /\ lost = {}

(* ... that whatever is asked for is done, failed or still to come, ...    *)
NoneLeftOut ==
  phase \in Configured =>
    /\ \A a \in Range(ifAddrs.addrs) :
         \/ IsSet(a) \/ Lost(a) \/ \E c \in Range(cmds) : Sets(c, a)
         \/ os = "macos" /\ \A d \in Range(ifAddrs.dests) : d.kind # a.kind
    /\ Range(RouteCmds(ifAddrs)) \subseteq kernel.routes \cup lost \cup Range(cmds)
    /\ kernel.mtu = ifAddrs.mtu \/ UpCmd(ifAddrs.mtu) \in lost \cup Range(cmds)

(* ... that on Linux the device goes up last, ...                          *)
LinuxIsUpLast ==
  os = "linux" =>
    kernel.routes = {} /\ (kernel.up => cmds = <<>> /\ kernel.mtu = ifAddrs.mtu)

(* ... and the packet.                                                     *)
CarriedWhole ==
  carried # Nothing =>
    /\ phase \in {"tun", "echo"}
    /\ carried.slot \in Slots /\ carried.got.len \in 0..options.mtu
    /\ carried.got # carried.sent =>
         \/ carried.sent.version = "other"
         \/ /\ carried.from = "client"
            /\ carried.sent.len > options.mtu
            /\ carried.got = [carried.sent EXCEPT !.len = options.mtu]
         \/ /\ carried.from = "tun" /\ os = "macos"
            /\ UpCmd(ifAddrs.mtu) \in lost

IInv ==
  Asked /\ KernelTypes /\ NotYet /\ NoneLeftOut /\ LinuxIsUpLast /\ CarriedWhole
-----------------------------------------------------------------------------
(* What the operators of PacketBytes return.                               *)

(* Whatever the command line says, the mtu and the queues' size fit in an  *)
(* unsigned short.                                                         *)
LEMMA OptionsFit ==
  ASSUME NEW argv, IsCommandLine(argv), NEW name \in Shorts
  PROVE  Args(argv)[name] \in 0..ShortMod - 1
<1> DEFINE given == {i \in DOMAIN argv : argv[i].name = name}
<1>1. /\ Len(argv) \in Nat /\ DOMAIN argv = 1..Len(argv)
      /\ name \in DOMAIN Defaults /\ Defaults[name] \in 0..ShortMod - 1
  BY BytesAssumption DEF IsCommandLine
<1>2. Args(argv)[name] = IF given = {} THEN Defaults[name]
                         ELSE Argument(name, argv[Max(given)].arg)
  BY <1>1 DEF Args
<1>3. CASE given = {}
  BY <1>1, <1>2, <1>3
<1>4. CASE given # {}
  <2>1. given \in SUBSET (0..Len(argv))
    BY <1>1
  <2> HIDE DEF given
  <2>2. \E x \in given : \A y \in given : y =< x
    BY <1>1, <1>4, <2>1, GreatestExists
  <2>3. \A x, y \in given : y =< x <=> x >= y
    BY <1>1, <2>1
  <2>4. \E x \in given : \A y \in given : x >= y
    BY <2>2, <2>3
  <2>5. Max(given) \in given
    BY <2>4 DEF Max
  <2>6. argv[Max(given)].arg \in Int
    BY <2>5 DEF given, IsCommandLine
  <2> QED BY <1>2, <1>4, <2>6, BytesAssumption DEF Argument
<1> QED BY <1>3, <1>4

(* A slot is at least as long as the mtu.                                  *)
LEMMA SlotHoldsMtu ==
  ASSUME NEW mtu \in Nat
  PROVE  PacketSize(mtu) \in Nat /\ mtu <= PacketSize(mtu)
<1> DEFINE q == mtu \div WordSize
<1>1. WordSize \in Nat \ {0}
  BY BytesAssumption
<1>2. q \in Nat
  BY <1>1
<1>3. mtu < (q + 1) * WordSize
  BY <1>1
<1> HIDE DEF q
<1>4. (q + 1) * WordSize \in Nat
  BY <1>1, <1>2
<1> QED BY <1>3, <1>4 DEF PacketSize, q

LEMMA SlotsFollow ==
  ASSUME NEW p \in Nat, NEW i \in Nat, NEW n \in Nat, i < n
  PROVE  (i + 1) * p = i * p + p /\ (i + 1) * p <= p * n
<1>1. (i + 1) * p = i * p + p
  OBVIOUS
<1>2. PICK k \in Nat : n = (i + 1) + k
  <2>1. n - (i + 1) \in Nat /\ n = (i + 1) + (n - (i + 1))
    OBVIOUS
  <2> QED BY <2>1
<1>3. \A j \in Nat : p * (j + k) = p * j + p * k /\ p * k \in Nat
  OBVIOUS
<1>4. p * n = p * (i + 1) + p * k /\ p * k \in Nat
  BY <1>2, <1>3
<1>5. p * (i + 1) = (i + 1) * p /\ p * (i + 1) \in Nat
  OBVIOUS
<1> QED BY <1>1, <1>4, <1>5

LEMMA LeastOfTwo ==
  ASSUME NEW a \in Nat, NEW b \in Nat
  PROVE  Min({a, b}) = IF a <= b THEN a ELSE b
<1>1. \E x \in {a, b} : \A y \in {a, b} : x =< y
  OBVIOUS
<1>2. Min({a, b}) \in {a, b} /\ \A y \in {a, b} : Min({a, b}) =< y
  BY <1>1 DEF Min
<1> QED BY <1>2

(* The kernel reads from the header what the device wrote to it.           *)
LEMMA VersionIsKept ==
  ASSUME NEW system \in {"linux", "macos"}, NEW version \in {"v4", "v6"}
  PROVE  KernelVersion(system, TunHeader(system, version)) = version
<1>1. ASSUME NEW h, h = TunHeader("linux", "v4") PROVE KernelVersion("linux", h) = "v4"
  <2>1. h = [<<0, 0, 0, 0>> EXCEPT ![3] = 8]
    BY <1>1 DEF TunHeader
  <2>2. h[3] = 8 /\ h[4] = 0
    BY <2>1
  <2> QED BY <2>2 DEF KernelVersion
<1>2. ASSUME NEW h, h = TunHeader("linux", "v6") PROVE KernelVersion("linux", h) = "v6"
  <2>1. h = [<<0, 0, 0, 0>> EXCEPT ![3] = -122, ![4] = -35]
    BY <1>2 DEF TunHeader
  <2>2. h[3] = -122 /\ h[4] = -35
    BY <2>1
  <2>3. h[3] % 256 = 134 /\ h[4] % 256 = 221
    <3>1. ASSUME NEW n \in Int, n = -122
          PROVE  n % 256 = 134
      <4>1. n % 256 \in 0..255 /\ n = 256 * (n \div 256) + (n % 256) /\ n \div 256 \in Int
        OBVIOUS
      <4> QED BY <3>1, <4>1
    <3>2. ASSUME NEW n \in Int, n = -35
          PROVE  n % 256 = 221
      <4>1. n % 256 \in 0..255 /\ n = 256 * (n \div 256) + (n % 256) /\ n \div 256 \in Int
        OBVIOUS
      <4> QED BY <3>2, <4>1
    <3>3. h[3] \in Int /\ h[4] \in Int
      BY <2>2
    <3>4. h[3] % 256 = 134
      BY <2>2, <3>1, <3>3, Zenon
    <3>5. h[4] % 256 = 221
      BY <2>2, <3>2, <3>3, Zenon
    <3> QED BY <3>4, <3>5
  <2>4. 256 * (h[3] % 256) + (h[4] % 256) = 34525
    BY <2>2, <2>3
  <2> QED BY <2>4 DEF KernelVersion
<1>3. ASSUME NEW h, h = TunHeader("macos", "v4") PROVE KernelVersion("macos", h) = "v4"
  <2>1. h = [<<0, 0, 0, 0>> EXCEPT ![4] = 2]
    BY <1>3 DEF TunHeader
  <2>2. h[3] = 0 /\ h[4] = 2
    BY <2>1
  <2> QED BY <2>2 DEF KernelVersion
<1>4. ASSUME NEW h, h = TunHeader("macos", "v6") PROVE KernelVersion("macos", h) = "v6"
  <2>1. h = [<<0, 0, 0, 0>> EXCEPT ![4] = 30]
    BY <1>4 DEF TunHeader
  <2>2. h[3] = 0 /\ h[4] = 30
    BY <2>1
  <2> QED BY <2>2 DEF KernelVersion
<1> QED BY <1>1, <1>2, <1>3, <1>4
-----------------------------------------------------------------------------
(* The invariant holds at the start, ...                                   *)

LEMMA NoCommands ==
  /\ <<>> \in Seq(AnyCommand) /\ Range(<<>>) = {}
  /\ \A mtu : UpIsLast(<<>>, mtu)
BY EmptySeq DEF Range, UpIsLast

LEMMA InitInv == Init => IInv
<1> SUFFICES ASSUME Init PROVE IInv
  OBVIOUS
<1>1. Asked
  <2>1. PICK argv \in CommandLines : options = Args(argv)
    BY DEF Init
  <2>2. options.mtu \in 0..ShortMod - 1 /\ options.qsize \in 0..ShortMod - 1
    <3>1. "mtu" \in Shorts /\ "qsize" \in Shorts
      BY DEF Shorts
    <3>2. IsCommandLine(argv)
      BY TunnelAssumption
    <3> QED BY <2>1, <3>1, <3>2, OptionsFit
  <2>3. ifAddrs \in IfAddrsOf(0..SizeMod - 1)
    BY NewIsEmpty DEF Init
  <2> QED BY <2>2, <2>3 DEF Init, Asked, Configured, Begun
<1>2. kernel = [mtu |-> KernelMtu, up |-> FALSE, addrs |-> {}, routes |-> {}]
  BY DEF Init
<1>3. KernelTypes
  BY <1>2, NoCommands, TunnelAssumption DEF Init, KernelTypes
<1>4. NotYet /\ NoneLeftOut /\ LinuxIsUpLast
  BY <1>2 DEF Init, NotYet, NoneLeftOut, LinuxIsUpLast, Configured
<1>5. CarriedWhole
  BY DEF Init, CarriedWhole
<1> QED BY <1>1, <1>3, <1>4, <1>5 DEF IInv

(* ... and every step keeps it.                                            *)
LEMMA ActionInitInv ==
  ASSUME IInv, NEW val \in Requests, ActionInit(val)
  PROVE  IInv'
<1> DEFINE read == FromJson(val, NewIfAddrs)
<1>1. Data(val)
  BY TunnelAssumption DEF IsRequest, Data, RouteText
<1>2. read.how \in {"ok", "refused", "throws"} /\ read.ifAddrs \in IfAddrsOf(0..SizeMod - 1)
  BY <1>1, FromJsonReads
<1> HIDE DEF read
<1>3. /\ phase = "serving" /\ ifAddrs' = read.ifAddrs
      /\ phase' \in {"start", "refused", "throws"}
      /\ UNCHANGED <<os, options, cmds, lost, kernel, carried, listed>>
  BY <1>2 DEF ActionInit, read
<1>4. carried = Nothing /\ cmds = <<>> /\ ~kernel.up /\ kernel.routes = {}
  BY <1>3 DEF IInv, CarriedWhole, KernelTypes, NotYet, Configured
<1>5. Asked'
  BY <1>2, <1>3 DEF IInv, Asked, Begun, Configured
<1>6. KernelTypes'
  BY <1>3, <1>4, NoCommands DEF IInv, KernelTypes
<1>7. NotYet' /\ NoneLeftOut' /\ LinuxIsUpLast'
  BY <1>3, <1>4 DEF IInv, NotYet, NoneLeftOut, LinuxIsUpLast, Configured
<1>8. CarriedWhole'
  BY <1>3, <1>4 DEF CarriedWhole, Nothing
<1> QED BY <1>5, <1>6, <1>7, <1>8 DEF IInv

LEMMA StartInv ==
  ASSUME IInv, Start
  PROVE  IInv'
<1>1. /\ phase = "start" /\ phase' \in {"failed", "echo", "alloc"}
      /\ phase' \in {"echo", "alloc"} => ~(ifAddrs.mtu > options.mtu)
      /\ UNCHANGED <<os, options, ifAddrs, cmds, lost, kernel, carried>>
  BY DEF Start
<1>2. carried = Nothing
  BY <1>1 DEF IInv, CarriedWhole
<1>3. Asked'
  <2>1. ifAddrs.mtu \in Nat /\ options.mtu \in Nat
    BY DEF IInv, Asked, IfAddrsOf
  <2> QED BY <1>1, <2>1 DEF IInv, Asked, Begun, Configured
<1>4. KernelTypes'
  BY <1>1 DEF IInv, KernelTypes
<1>5. NotYet' /\ NoneLeftOut' /\ LinuxIsUpLast'
  BY <1>1 DEF IInv, NotYet, NoneLeftOut, LinuxIsUpLast, Configured
<1>6. CarriedWhole'
  BY <1>1, <1>2 DEF CarriedWhole, Nothing
<1> QED BY <1>3, <1>4, <1>5, <1>6 DEF IInv

LEMMA TunAllocInv ==
  ASSUME IInv, NEW ok \in BOOLEAN, TunAlloc(ok)
  PROVE  IInv'
<1>1. /\ phase = "alloc" /\ phase' = IF ok THEN "commands" ELSE "failed"
      /\ UNCHANGED <<os, options, ifAddrs, lost, kernel, carried>>
  BY DEF TunAlloc
<1>2. carried = Nothing /\ ~kernel.up /\ kernel.routes = {}
  BY <1>1 DEF IInv, CarriedWhole, NotYet, Configured
<1>3. Asked' /\ CarriedWhole'
  BY <1>1, <1>2 DEF IInv, Asked, CarriedWhole, Begun, Configured, Nothing
<1>4. LinuxIsUpLast' /\ NotYet'
  BY <1>1, <1>2 DEF LinuxIsUpLast, NotYet, Configured
<1>5. CASE ~ok
  <2>1. cmds' = <<>>
    BY <1>5 DEF TunAlloc
  <2>2. KernelTypes' /\ NoneLeftOut'
    BY <1>1, <1>5, <2>1, NoCommands DEF IInv, KernelTypes, NoneLeftOut, Configured
  <2> QED BY <1>3, <1>4, <2>2 DEF IInv
<1>6. CASE ok
  <2>1. /\ Configures(cmds', ifAddrs)
        /\ \A a \in Range(ifAddrs.addrs) :
             \/ \E c \in Range(cmds') : Sets(c, a)
             \/ os = "macos" /\ \A d \in Range(ifAddrs.dests) : d.kind # a.kind
    <3>1. 0..SizeMod - 1 \in SUBSET Nat /\ ifAddrs \in IfAddrsOf(0..SizeMod - 1)
      BY IfAddrsAssumption DEF IInv, Asked
    <3>2. CASE os = "linux"
      <4>1. cmds' = LinuxCommands(ifAddrs)
        BY <1>6, <3>2 DEF TunAlloc
      <4> QED BY <3>1, <4>1, LinuxCommandsConfigure
    <3>3. CASE os = "macos"
      <4>1. cmds' = MacCommands(ifAddrs)
        BY <1>6, <3>3 DEF TunAlloc
      <4> QED BY <3>1, <3>3, <4>1, MacCommandsConfigure
    <3> QED BY <3>2, <3>3 DEF IInv, Asked
  <2>2. KernelTypes'
    BY <1>1, <1>6, <2>1 DEF IInv, KernelTypes, Configures
  <2>3. UpCmd(ifAddrs.mtu) \in Range(cmds')
    <3>1. cmds' \in Seq(AnyCommand) /\ cmds' # <<>> /\ UpIsLast(cmds', ifAddrs.mtu)
      BY <2>1 DEF Configures
    <3>2. Len(cmds') \in 1..Len(cmds') /\ DOMAIN cmds' = 1..Len(cmds')
      BY <3>1, EmptySeq, LenProperties
    <3> QED BY <3>1, <3>2 DEF UpIsLast, Range
  <2>4. NoneLeftOut'
    BY <1>1, <2>1, <2>3 DEF NoneLeftOut, Configures
  <2> QED BY <1>3, <1>4, <2>2, <2>4 DEF IInv
<1> QED BY <1>5, <1>6

(* The first of the commands, and those that are left.                     *)
LEMMA NextCommand ==
  ASSUME NEW seq \in Seq(AnyCommand), seq # <<>>, NEW mtu, UpIsLast(seq, mtu)
  PROVE  /\ Head(seq) \in AnyCommand /\ Tail(seq) \in Seq(AnyCommand)
         /\ Range(seq) = {Head(seq)} \cup Range(Tail(seq))
         /\ UpIsLast(Tail(seq), mtu)
         /\ \/ Head(seq) \in AddrCommand \cup RouteCommand
            \/ Head(seq) = UpCmd(mtu) /\ Tail(seq) = <<>>
<1> DEFINE n == Len(seq)
           t == Tail(seq)
<1>1. /\ n \in Nat /\ n > 0 /\ t \in Seq(AnyCommand) /\ Len(t) = n - 1
      /\ \A i \in 1..n - 1 : t[i] = seq[i + 1]
      /\ Head(seq) \in AnyCommand /\ Head(seq) = seq[1]
      /\ DOMAIN seq = 1..n /\ DOMAIN t = 1..n - 1
  <2>1. n \in Nat /\ n > 0 /\ DOMAIN seq = 1..n
    BY LenProperties, EmptySeq
  <2>2. /\ Head(seq) \in AnyCommand /\ t \in Seq(AnyCommand) /\ Len(t) = n - 1
        /\ \A i \in 1..Len(t) : t[i] = seq[i + 1]
    BY HeadTailProperties
  <2>3. DOMAIN t = 1..Len(t)
    <3> HIDE DEF t
    <3> QED BY <2>2, LenProperties
  <2> QED BY <2>1, <2>2, <2>3
<1> HIDE DEF n, t
<1>2. Range(seq) = {Head(seq)} \cup Range(t)
  <2>1. \A i \in 1..n : i = 1 \/ (i - 1 \in 1..n - 1 /\ t[i - 1] = seq[i])
    BY <1>1
  <2>2. \A i \in 1..n - 1 : i + 1 \in 1..n /\ t[i] = seq[i + 1]
    BY <1>1
  <2>3. 1 \in 1..n
    BY <1>1
  <2>4. Range(seq) = {seq[i] : i \in 1..n} /\ Range(t) = {t[i] : i \in 1..n - 1}
    BY <1>1 DEF Range
  <2>5. Range(seq) \subseteq {Head(seq)} \cup Range(t)
    BY <1>1, <2>1, <2>4
  <2>6. {Head(seq)} \cup Range(t) \subseteq Range(seq)
    BY <1>1, <2>2, <2>3, <2>4
  <2> QED BY <2>5, <2>6
<1>3. UpIsLast(t, mtu)
  <2> SUFFICES ASSUME NEW i \in 1..n - 1
               PROVE  IF i = n - 1 THEN t[i] = UpCmd(mtu)
                      ELSE t[i] \in AddrCommand \cup RouteCommand
    BY <1>1 DEF UpIsLast
  <2>1. i + 1 \in 1..n /\ t[i] = seq[i + 1] /\ (i + 1 = n <=> i = n - 1)
    BY <1>1
  <2> QED BY <2>1 DEF UpIsLast, n
<1>4. \/ Head(seq) \in AddrCommand \cup RouteCommand
      \/ Head(seq) = UpCmd(mtu) /\ t = <<>>
  <2>1. 1 \in 1..n
    BY <1>1
  <2>2. CASE n = 1
    <3>1. t = <<>>
      <4>1. t = <<>> \/ Len(t) \in Nat \ {0}
        BY <1>1, EmptySeq
      <4> QED BY <1>1, <2>2, <4>1
    <3>2. seq[1] = UpCmd(mtu)
      BY <2>1, <2>2 DEF UpIsLast, n
    <3> QED BY <1>1, <3>1, <3>2
  <2>3. CASE n # 1
    BY <1>1, <2>1, <2>3 DEF UpIsLast, n
  <2> QED BY <2>2, <2>3
<1> QED BY <1>1, <1>2, <1>3, <1>4 DEF t

(* What is done for an address or a route stays done.                      *)
LEMMA RunCommandInv ==
  ASSUME IInv, NEW ok \in BOOLEAN, RunCommand(ok)
  PROVE  IInv'
<1> DEFINE h == Head(cmds)
           done == ok /\ Allowed(h)
<1>1. /\ phase = "commands" /\ phase' = "commands" /\ cmds # <<>> /\ cmds' = Tail(cmds)
      /\ UNCHANGED <<os, options, ifAddrs, carried>>
  BY DEF RunCommand
<1>2. /\ kernel' = IF done THEN Configure(h) ELSE kernel
      /\ lost' = IF done THEN lost ELSE lost \cup {h}
  BY DEF RunCommand
<1>3. /\ h \in AnyCommand /\ cmds' \in Seq(AnyCommand)
      /\ Range(cmds) = {h} \cup Range(cmds')
      /\ UpIsLast(cmds', ifAddrs.mtu)
      /\ \/ h \in AddrCommand \/ h \in RouteCommand
         \/ h = UpCmd(ifAddrs.mtu) /\ cmds' = <<>>
  <2>1. cmds \in Seq(AnyCommand) /\ UpIsLast(cmds, ifAddrs.mtu)
    BY DEF IInv, KernelTypes
  <2> QED BY <1>1, <2>1, NextCommand
<1>4. /\ kernel \in [mtu : Nat, up : BOOLEAN, addrs : SUBSET Address, routes : SUBSET RouteCommand]
      /\ lost \in SUBSET AnyCommand
      /\ os \in {"linux", "macos"} /\ ifAddrs.mtu \in Nat
  BY DEF IInv, KernelTypes, Asked, IfAddrsOf
<1>5. carried = Nothing
  BY <1>1 DEF IInv, CarriedWhole
<1>6. os = "linux" => ~kernel.up /\ kernel.routes = {}
  BY <1>1 DEF IInv, LinuxIsUpLast
<1>7. NoneLeftOut
  BY DEF IInv
<1> HIDE DEF h, done
<1>8. Asked' /\ CarriedWhole' /\ NotYet'
  BY <1>1, <1>5 DEF IInv, Asked, CarriedWhole, NotYet, Begun, Configured, Nothing
<1>9. CASE ~done
  <2>1. kernel' = kernel /\ lost' = lost \cup {h}
    BY <1>2, <1>9
  <2>2. KernelTypes'
    BY <1>1, <1>3, <1>4, <2>1 DEF KernelTypes
  <2>3. LinuxIsUpLast'
    BY <1>1, <1>6, <2>1 DEF LinuxIsUpLast
  <2>4. \A a : Sets(h, a) => Lost(a)'
    <3>1. \A c \in AddrCommand : c.do \in {"addr", "addrTo"}
      BY DEF AddrCommand
    <3> QED BY <2>1, <3>1 DEF Sets, Lost
  <2>5. \A a : (IsSet(a) => IsSet(a)') /\ (Lost(a) => Lost(a)')
    BY <2>1 DEF IsSet, Lost
  <2>6. NoneLeftOut'
    BY <1>1, <1>3, <1>7, <2>1, <2>4, <2>5 DEF NoneLeftOut, Configured
  <2> QED BY <1>8, <2>2, <2>3, <2>6 DEF IInv
<1>10. CASE done /\ h \in AddrCommand
  <2> DEFINE b == ParseAddress(h.addr)
  <2>1. /\ h.do \in {"addr", "addrTo"} /\ h.addr \in AddressText /\ h.addr # NoAddress
    BY <1>10 DEF AddrCommand, HostText
  <2>2. b \in Address /\ b.kind = h.addr.kind /\ b.host = h.addr.host
    BY <2>1, ParsedText
  <2> HIDE DEF b
  <2>3. /\ kernel' = [kernel EXCEPT !.addrs = @ \cup {b}, !.up = @ \/ os = "macos"]
        /\ lost' = lost
    BY <1>2, <1>10, <2>1 DEF Configure, b
  <2>4. /\ kernel'.addrs = kernel.addrs \cup {b} /\ kernel'.routes = kernel.routes
        /\ kernel'.mtu = kernel.mtu /\ kernel'.up \in BOOLEAN
        /\ kernel' \in [mtu : Nat, up : BOOLEAN, addrs : SUBSET Address, routes : SUBSET RouteCommand]
        /\ os = "linux" => ~kernel'.up
    BY <1>4, <1>6, <2>2, <2>3
  <2>5. KernelTypes'
    BY <1>1, <1>3, <1>4, <2>3, <2>4 DEF KernelTypes
  <2>6. LinuxIsUpLast'
    BY <1>1, <1>6, <2>4 DEF LinuxIsUpLast
  <2>7. \A a : Sets(h, a) => IsSet(a)'
    BY <2>2, <2>4 DEF Sets, IsSet
  <2>8. \A a : (IsSet(a) => IsSet(a)') /\ (Lost(a) => Lost(a)')
    BY <2>3, <2>4 DEF IsSet, Lost
  <2>9. h \notin Range(RouteCmds(ifAddrs)) /\ h # UpCmd(ifAddrs.mtu)
    <3>1. \A c \in RouteCommand : c.do = "route"
      BY DEF RouteCommand
    <3>2. RouteCmds(ifAddrs) \in Seq(RouteCommand)
      BY RouteCommands DEF IInv, Asked
    <3>3. Range(RouteCmds(ifAddrs)) \subseteq RouteCommand
      BY <3>2, RangeOfSeq
    <3>4. h.do # "route" /\ h.do # "up" /\ UpCmd(ifAddrs.mtu).do = "up"
      BY <2>1 DEF UpCmd
    <3> QED BY <3>1, <3>3, <3>4
  <2>10. NoneLeftOut'
    BY <1>1, <1>3, <1>7, <2>3, <2>4, <2>7, <2>8, <2>9 DEF NoneLeftOut, Configured
  <2> QED BY <1>8, <2>5, <2>6, <2>10 DEF IInv
<1>11. CASE done /\ h \in RouteCommand
  <2>1. h.do = "route"
    BY <1>11 DEF RouteCommand
  <2>2. kernel.up /\ os = "macos"
    BY <1>4, <1>6, <1>11, <2>1 DEF done, Allowed
  <2>3. kernel' = [kernel EXCEPT !.routes = @ \cup {h}] /\ lost' = lost
    BY <1>2, <1>11, <2>1 DEF Configure
  <2>4. /\ kernel'.addrs = kernel.addrs /\ kernel'.routes = kernel.routes \cup {h}
        /\ kernel'.mtu = kernel.mtu
        /\ kernel' \in [mtu : Nat, up : BOOLEAN, addrs : SUBSET Address, routes : SUBSET RouteCommand]
    BY <1>4, <1>11, <2>3
  <2>5. KernelTypes'
    BY <1>1, <1>3, <1>4, <2>3, <2>4 DEF KernelTypes
  <2>6. LinuxIsUpLast'
    BY <1>1, <2>2 DEF LinuxIsUpLast
  <2>7. \A a : ~Sets(h, a)
    <3>1. \A c \in AddrCommand : c.do # "route"
      BY DEF AddrCommand
    <3> QED BY <2>1, <3>1 DEF Sets
  <2>8. \A a : (IsSet(a) => IsSet(a)') /\ (Lost(a) => Lost(a)')
    BY <2>3, <2>4 DEF IsSet, Lost
  <2>9. h # UpCmd(ifAddrs.mtu)
    BY <2>1 DEF UpCmd
  <2>10. NoneLeftOut'
    BY <1>1, <1>3, <1>7, <2>3, <2>4, <2>7, <2>8, <2>9 DEF NoneLeftOut, Configured
  <2> QED BY <1>8, <2>5, <2>6, <2>10 DEF IInv
<1>12. CASE done /\ h = UpCmd(ifAddrs.mtu) /\ cmds' = <<>>
  <2>1. h.do = "up" /\ h.mtu = ifAddrs.mtu
    BY <1>12 DEF UpCmd
  <2>2. kernel' = [kernel EXCEPT !.mtu = ifAddrs.mtu, !.up = TRUE] /\ lost' = lost
    BY <1>2, <1>12, <2>1 DEF Configure
  <2>3. /\ kernel'.addrs = kernel.addrs /\ kernel'.routes = kernel.routes
        /\ kernel'.mtu = ifAddrs.mtu
        /\ kernel' \in [mtu : Nat, up : BOOLEAN, addrs : SUBSET Address, routes : SUBSET RouteCommand]
    BY <1>4, <2>2
  <2>4. KernelTypes'
    BY <1>1, <1>3, <1>4, <2>2, <2>3 DEF KernelTypes
  <2>5. LinuxIsUpLast'
    BY <1>1, <1>6, <1>12, <2>3 DEF LinuxIsUpLast
  <2>6. (\A a : ~Sets(h, a)) /\ h \notin Range(RouteCmds(ifAddrs))
    <3>1. (\A c \in AddrCommand : c.do # "up") /\ (\A c \in RouteCommand : c.do # "up")
      BY DEF AddrCommand, RouteCommand
    <3>2. RouteCmds(ifAddrs) \in Seq(RouteCommand)
      BY RouteCommands DEF IInv, Asked
    <3>3. Range(RouteCmds(ifAddrs)) \subseteq RouteCommand
      BY <3>2, RangeOfSeq
    <3> QED BY <2>1, <3>1, <3>3 DEF Sets
  <2>7. \A a : (IsSet(a) => IsSet(a)') /\ (Lost(a) => Lost(a)')
    BY <2>2, <2>3 DEF IsSet, Lost
  <2>8. NoneLeftOut'
    BY <1>1, <1>3, <1>7, <2>2, <2>3, <2>6, <2>7 DEF NoneLeftOut, Configured
  <2> QED BY <1>8, <2>4, <2>5, <2>8 DEF IInv
<1> QED BY <1>3, <1>9, <1>10, <1>11, <1>12

LEMMA SetNonBlockingInv ==
  ASSUME IInv, NEW ok \in BOOLEAN, SetNonBlocking(ok)
  PROVE  IInv'
<1>1. /\ phase = "commands" /\ phase' \in {"tun", "failed"} /\ cmds = <<>>
      /\ UNCHANGED <<os, options, ifAddrs, cmds, lost, kernel, carried>>
  BY DEF SetNonBlocking
<1>2. carried = Nothing
  BY <1>1 DEF IInv, CarriedWhole
<1>3. Asked' /\ CarriedWhole'
  BY <1>1, <1>2 DEF IInv, Asked, CarriedWhole, Begun, Configured, Nothing
<1>4. KernelTypes' /\ NotYet' /\ LinuxIsUpLast'
  BY <1>1 DEF IInv, KernelTypes, NotYet, LinuxIsUpLast, Configured
<1>5. NoneLeftOut'
  BY <1>1 DEF IInv, NoneLeftOut, Configured, IsSet, Lost
<1> QED BY <1>3, <1>4, <1>5 DEF IInv

(* Packets change nothing but what is carried.                             *)
LEMMA PacketInv ==
  ASSUME IInv, CarriedWhole',
         UNCHANGED <<os, options, phase, request, ifAddrs, cmds, lost, kernel, listed>>
  PROVE  IInv'
<1>1. Asked' /\ KernelTypes' /\ NotYet' /\ LinuxIsUpLast'
  BY DEF IInv, Asked, KernelTypes, NotYet, LinuxIsUpLast
<1>2. NoneLeftOut'
  BY DEF IInv, NoneLeftOut, IsSet, Lost
<1> QED BY <1>1, <1>2 DEF IInv

LEMMA KernelPacketInv ==
  ASSUME IInv, NEW version, NEW len \in 1..kernel.mtu, NEW i \in Slots,
         KernelPacket(version, len, i)
  PROVE  IInv'
<1> DEFINE read == TunRead(len, options.mtu)
<1>1. /\ phase = "tun" /\ kernel.up
      /\ carried' = [from |-> "tun", sent |-> Packet(version, len), slot |-> i,
                     got |-> Packet(version, read)]
      /\ UNCHANGED <<os, options, phase, request, ifAddrs, cmds, lost, kernel, listed>>
  BY DEF KernelPacket
<1>2. /\ options.mtu \in Nat /\ kernel.mtu \in Nat /\ ifAddrs.mtu \in Nat /\ len \in Nat
      /\ os \in {"linux", "macos"} /\ ifAddrs.mtu <= options.mtu
  BY <1>1 DEF IInv, Asked, KernelTypes, Configured, IfAddrsOf
<1>3. read = IF len <= options.mtu THEN len ELSE options.mtu
  <2>1. Min({len, options.mtu}) = IF len <= options.mtu THEN len ELSE options.mtu
    BY <1>2, LeastOfTwo
  <2> QED BY <1>2, <2>1 DEF TunRead, TunHeaderSize
<1> HIDE DEF read
<1>4. ASSUME read # len
      PROVE  os = "macos" /\ UpCmd(ifAddrs.mtu) \in lost
  <2>1. kernel.mtu # ifAddrs.mtu
    BY <1>2, <1>3, <1>4
  <2>2. os # "linux"
    BY <1>1, <2>1 DEF IInv, LinuxIsUpLast
  <2>3. cmds = <<>>
    BY <1>1 DEF IInv, KernelTypes
  <2>4. UpCmd(ifAddrs.mtu) \in lost \cup Range(cmds)
    BY <1>1, <2>1 DEF IInv, NoneLeftOut, Configured
  <2> QED BY <1>2, <2>2, <2>3, <2>4, NoCommands
<1>5. /\ carried'.from = "tun" /\ carried'.slot = i
      /\ carried'.sent = Packet(version, len) /\ carried'.got = Packet(version, read)
      /\ carried'.got.len = read
  BY <1>1 DEF Packet
<1>6. carried'.got # carried'.sent => read # len
  BY <1>5 DEF Packet
<1>7. read \in 0..options.mtu
  BY <1>2, <1>3
<1>8. CarriedWhole'
  BY <1>1, <1>4, <1>5, <1>6, <1>7 DEF CarriedWhole, Slots
<1> QED BY <1>1, <1>8, PacketInv

LEMMA ClientPacketInv ==
  ASSUME IInv, NEW message \in Messages, NEW i \in Slots, ClientPacket(message, i)
  PROVE  IInv'
<1> DEFINE long == PacketLen(message)
           len == CopyOut(message, options.mtu)
           version == IF phase = "echo" THEN message.version
                      ELSE KernelVersion(os, TunHeader(os, message.version))
<1>1. /\ phase \in {"tun", "echo"}
      /\ carried' = IF len = 0 THEN Nothing
                    ELSE [from |-> "client", slot |-> i, got |-> Packet(version, len),
                          sent |-> Packet(message.version, long)]
      /\ UNCHANGED <<os, options, phase, request, ifAddrs, cmds, lost, kernel, listed>>
  BY DEF ClientPacket
<1>2. /\ options.mtu \in Nat /\ os \in {"linux", "macos"}
      /\ message.version \in {"v4", "v6", "other"}
  BY DEF IInv, Asked, Messages, Versions
<1>3. long \in Nat
  <2>1. message.size - HeaderLen \in Int /\ SizeMod \in Nat \ {0}
    BY IfAddrsAssumption, TunnelAssumption DEF Messages, HeaderLen
  <2> QED BY <2>1 DEF PacketLen
<1>4. len = IF options.mtu <= long THEN options.mtu ELSE long
  BY <1>2, <1>3, LeastOfTwo DEF CopyOut
<1>5. version = message.version \/ message.version = "other"
  BY <1>2, VersionIsKept
<1> HIDE DEF len, long, version
<1>6. CASE len = 0
  BY <1>1, <1>6, PacketInv DEF CarriedWhole, Nothing
<1>7. CASE len # 0
  <2>1. /\ carried'.from = "client" /\ carried'.slot = i
        /\ carried'.sent = [version |-> message.version, len |-> long]
        /\ carried'.got = [version |-> version, len |-> len]
    BY <1>1, <1>7 DEF Packet
  <2>2. len \in 0..options.mtu
    BY <1>2, <1>3, <1>4
  <2>3. ASSUME carried'.got # carried'.sent, message.version # "other"
        PROVE  long > options.mtu /\ carried'.got = [carried'.sent EXCEPT !.len = options.mtu]
    <3>1. version = message.version /\ len # long
      BY <1>5, <2>1, <2>3
    <3>2. len = options.mtu /\ long > options.mtu
      BY <1>2, <1>3, <1>4, <3>1
    <3> QED BY <2>1, <3>1, <3>2
  <2>4. /\ carried'.sent.version = message.version /\ carried'.sent.len = long
        /\ carried'.got.len = len
    BY <2>1
  <2>5. CarriedWhole'
    BY <1>1, <2>1, <2>2, <2>3, <2>4 DEF CarriedWhole, Slots
  <2> QED BY <1>1, <2>5, PacketInv
<1> QED BY <1>6, <1>7

LEMMA FreedInv ==
  ASSUME IInv, Freed
  PROVE  IInv'
<1>1. CarriedWhole'
  BY DEF Freed, CarriedWhole, Nothing
<1> QED BY <1>1, PacketInv DEF Freed

LEMMA ReadRoutesInv ==
  ASSUME IInv, NEW host, NEW ran4, NEW ran6, ReadRoutes(host, ran4, ran6)
  PROVE  IInv'
<1>1. /\ phase = "tun" /\ phase' = "listed" /\ carried = Nothing
      /\ UNCHANGED <<os, options, request, ifAddrs, cmds, lost, kernel, carried>>
  BY DEF ReadRoutes
<1>2. Asked' /\ KernelTypes' /\ NotYet' /\ LinuxIsUpLast' /\ CarriedWhole'
  BY <1>1 DEF IInv, Asked, KernelTypes, NotYet, LinuxIsUpLast, CarriedWhole, Nothing,
              Configured, Begun
<1>3. NoneLeftOut'
  BY <1>1 DEF IInv, NoneLeftOut, Configured, IsSet, Lost
<1> QED BY <1>2, <1>3 DEF IInv

LEMMA StepInv == IInv /\ [Next]_vars => IInv'
<1> SUFFICES ASSUME IInv, [Next]_vars PROVE IInv'
  OBVIOUS
<1>1. ASSUME NEW val \in Requests, ActionInit(val) PROVE IInv'
  BY <1>1, ActionInitInv
<1>2. CASE Start
  BY <1>2, StartInv
<1>3. ASSUME NEW ok \in BOOLEAN, TunAlloc(ok) PROVE IInv'
  BY <1>3, TunAllocInv
<1>4. ASSUME NEW ok \in BOOLEAN, RunCommand(ok) PROVE IInv'
  BY <1>4, RunCommandInv
<1>5. ASSUME NEW ok \in BOOLEAN, SetNonBlocking(ok) PROVE IInv'
  BY <1>5, SetNonBlockingInv
<1>6. ASSUME NEW version \in Versions, NEW len \in 1..kernel.mtu, NEW i \in Slots,
             KernelPacket(version, len, i)
      PROVE  IInv'
  BY <1>6, KernelPacketInv
<1>7. ASSUME NEW message \in Messages, NEW i \in Slots, ClientPacket(message, i)
      PROVE  IInv'
  BY <1>7, ClientPacketInv
<1>8. CASE Freed
  BY <1>8, FreedInv
<1>9. ASSUME NEW host \in HostRoutes, NEW ran4 \in BOOLEAN, NEW ran6 \in BOOLEAN,
             ReadRoutes(host, ran4, ran6)
      PROVE  IInv'
  BY <1>9, ReadRoutesInv
<1>10. CASE UNCHANGED vars
  <2>1. UNCHANGED <<os, options, phase, request, ifAddrs, cmds, lost, kernel, listed>>
        /\ carried' = carried
    BY <1>10 DEF vars
  <2>2. CarriedWhole'
    BY <2>1 DEF IInv, CarriedWhole, Slots
  <2> QED BY <2>1, <2>2, PacketInv
<1> QED BY <1>1, <1>2, <1>3, <1>4, <1>5, <1>6, <1>7, <1>8, <1>9, <1>10 DEF Next

(* Every tunnel keeps the invariant.                                       *)
THEOREM TunnelIsInStep == Spec => []IInv
BY InitInv, StepInv, PTL DEF Spec
-----------------------------------------------------------------------------
(* Every variable keeps its type, and the options their width, whatever    *)
(* the command line says (tunator.hpp:62-119).                             *)
THEOREM TypeCorrect == Spec => []TypeOK
<1>1. ASSUME IInv PROVE TypeOK
  <2>1. /\ os \in {"linux", "macos"}
        /\ options.mtu \in 0..ShortMod - 1 /\ options.qsize \in 0..ShortMod - 1
        /\ phase \in Begun \cup {"serving", "refused", "throws"}
        /\ ifAddrs.mtu \in 0..SizeMod - 1
    BY <1>1 DEF IInv, Asked, IfAddrsOf
  <2>2. /\ kernel.up \in BOOLEAN /\ kernel.mtu \in Nat /\ kernel.addrs \subseteq Address
        /\ phase # "commands" => cmds = <<>>
    BY <1>1 DEF IInv, KernelTypes
  <2>3. Range(ifAddrs.addrs) \subseteq Address /\ Range(ifAddrs.dests) \subseteq Address
    <3>1. ifAddrs.addrs \in Seq(Address) /\ ifAddrs.dests \in Seq(Address)
      BY <1>1 DEF IInv, Asked, IfAddrsOf
    <3> QED BY <3>1, RangeOfSeq
  <2>4. \A a \in Range(ifAddrs.addrs) \cup Range(ifAddrs.dests) \cup kernel.addrs :
          a.kind \in Kinds /\ a.prefix \in 0..Bits[a.kind]
    BY <2>2, <2>3, AddressIsText
  <2> QED BY <2>1, <2>2, <2>4 DEF TypeOK
<1> QED BY <1>1, TunnelIsInStep, PTL

(* A packet that is read from the tun, taken from a message or echoed is   *)
(* written within its own slot of the queue's buffer, whatever mtu the     *)
(* server, the client and the kernel have (packet_buffer.hpp:14-28,        *)
(* ws_packet.hpp:30-38, tun_device.cpp:135-155, tun_device.hpp:126).       *)
THEOREM PacketsStayInTheirSlots == Spec => []InsideSlot
<1>1. ASSUME IInv PROVE InsideSlot
  <2> SUFFICES ASSUME carried # Nothing
               PROVE  LET end == Offset(carried.slot, options.mtu) + carried.got.len
                      IN /\ end <= Offset(carried.slot + 1, options.mtu)
                         /\ end <= BufferSize(options.mtu, options.qsize)
    BY DEF InsideSlot
  <2> DEFINE p == PacketSize(options.mtu)
             i == carried.slot
             n == options.qsize
             len == carried.got.len
  <2>1. /\ options.mtu \in Nat /\ n \in Nat /\ i \in Nat /\ i < n
        /\ len \in Nat /\ len <= options.mtu
    BY <1>1 DEF IInv, Asked, CarriedWhole, Slots
  <2>2. p \in Nat /\ options.mtu <= p
    BY <2>1, SlotHoldsMtu
  <2> HIDE DEF p, i, n, len
  <2>3. (i + 1) * p = i * p + p /\ (i + 1) * p <= p * n /\ i * p \in Nat /\ p * n \in Nat
    BY <2>1, <2>2, SlotsFollow
  <2>4. i * p + len <= (i + 1) * p /\ i * p + len <= p * n
    BY <2>1, <2>2, <2>3
  <2> QED BY <2>4 DEF Offset, BufferSize, p, i, n, len
<1> QED BY <1>1, TunnelIsInStep, PTL

(* A packet keeps its version and its length.  A client's packet is cut    *)
(* only if it is longer than the server's mtu; one from the tun never is   *)
(* on Linux, and on macOS only when the command that sets the mtu failed   *)
(* (tun_device.hpp:51-53, 207-225).                                        *)
THEOREM PacketsAreWhole == Spec => []PacketsWhole
<1>1. ASSUME IInv PROVE PacketsWhole
  BY <1>1 DEF IInv, CarriedWhole, PacketsWhole, LinuxIsUpLast, Asked, Configured
<1> QED BY <1>1, TunnelIsInStep, PTL

(* When the device carries packets every address the client asked for is   *)
(* set, or its command failed, or, on macOS, the client named no           *)
(* destination of its kind; a route is set, or its command failed.  On     *)
(* Linux no route is ever set (if_addrs_linux.cpp:8-21,                    *)
(* if_addrs_macos.cpp:6-37, if_addrs.hpp:35-72).                           *)
THEOREM DeviceIsConfigured == Spec => []ConfiguredAsAsked
<1>1. ASSUME IInv PROVE ConfiguredAsAsked
  <2> SUFFICES ASSUME phase = "tun" PROVE ConfiguredAsAsked
    BY DEF ConfiguredAsAsked
  <2>1. cmds = <<>> /\ Range(cmds) = {}
    <3>1. cmds = <<>>
      BY <1>1 DEF IInv, KernelTypes
    <3> QED BY <3>1, NoCommands
  <2>2. /\ \A a \in Range(ifAddrs.addrs) :
             \/ IsSet(a) \/ Lost(a)
             \/ os = "macos" /\ \A d \in Range(ifAddrs.dests) : d.kind # a.kind
        /\ Range(RouteCmds(ifAddrs)) \subseteq kernel.routes \cup lost
    BY <1>1, <2>1 DEF IInv, NoneLeftOut, Configured
  <2>3. \A r \in Range(RouteCmds(ifAddrs)) :
          Creatable(r.dest, r.via) \/ r.dest.kind # r.via.kind
    BY <1>1, RouteCommands DEF IInv, Asked
  <2>4. os = "linux" => kernel.routes = {}
    BY <1>1 DEF IInv, LinuxIsUpLast
  <2> QED BY <2>2, <2>3, <2>4 DEF ConfiguredAsAsked
<1> QED BY <1>1, TunnelIsInStep, PTL

(* The client reads from a report the addresses, routes and mtu of its     *)
(* device as the server has them, and would write them again just so; an   *)
(* mtu that was negative cannot be read back (if_addrs.hpp:120-182,        *)
(* test/if_addrs_test.cpp:105-121).                                        *)
THEOREM ReportsAreReadBack == Spec => []ReportReadBack
<1>1. ASSUME IInv PROVE ReportReadBack
  <2>1. ifAddrs \in IfAddrsOf(0..SizeMod - 1)
    BY <1>1 DEF IInv, Asked
  <2> QED BY <2>1, ReportIsRead DEF ReportReadBack
<1> QED BY <1>1, TunnelIsInStep, PTL
-----------------------------------------------------------------------------
(* The lines that ip prints.                                               *)

(* The tokens of a line.                                                   *)
TokensOf(r) ==
  {Word(key) : key \in Keys} \cup (UNION {r[key] : key \in Keys}) \cup Range(r.flags)
    \cup {Word(r.type), DestToken(r.dest), Word("pref"), Word("medium")}

LEMMA TokensAreThere ==
  ASSUME NEW r
  PROVE  /\ Word(r.type) \in TokensOf(r) /\ DestToken(r.dest) \in TokensOf(r)
         /\ Word("pref") \in TokensOf(r) /\ Word("medium") \in TokensOf(r)
         /\ Range(r.flags) \subseteq TokensOf(r)
BY Zenon DEF TokensOf

LEMMA DestIsRead ==
  ASSUME NEW a \in Address
  PROVE  Token(Begin, DestToken(a))
           = [Begin EXCEPT !.route.dest = IF a.prefix = 0 THEN ZeroV4 ELSE a,
                           !.next = "name"]
<1> DEFINE t == DestToken(a)
           dest == IF a.prefix = 0 THEN ZeroV4 ELSE a
           parsed == IF t = Word("default") THEN ZeroV4 ELSE ParseAddress(t.addr)
<1>1. Token(Begin, t) = Dest(Begin, t)
  BY DEF Token, Begin
<1>2. IsAddress(ZeroV4) /\ IsAddress(dest)
  BY AddressIsText DEF IsAddress, ZeroV4, NoAddress
<1>3. parsed = dest
  <2>1. CASE a.prefix = 0
    BY <2>1 DEF DestToken
  <2>2. CASE a.prefix # 0
    <3> DEFINE u == IF a.prefix = Bits[a.kind] THEN ToS(a) ELSE a
    <3>1. t = Text(u)
      BY <2>2 DEF DestToken
    <3>2. Text(u) # Word("default") /\ Text(u).addr = u
      BY DEF Text, Word
    <3>3. ParseAddress(u) = a
      <4>1. CASE a.prefix = Bits[a.kind]
        <5>1. [a EXCEPT !.prefix = Bits[a.kind]] = a
          BY <4>1, AddressIsText
        <5> QED BY <4>1, <5>1, ParsedHost
      <4>2. CASE a.prefix # Bits[a.kind]
        BY <4>2, ParsedAddress
      <4> QED BY <4>1, <4>2
    <3> QED BY <2>2, <3>1, <3>2, <3>3
  <2> QED BY <2>1, <2>2
<1> HIDE DEF t, dest
<1>4. Dest(Begin, t) = [Begin EXCEPT !.route.dest = parsed, !.next = "name"]
  BY <1>2, <1>3, Zenon DEF Dest
<1> QED BY <1>1, <1>3, <1>4 DEF t, dest

(* A type that ip prints first is no route's.                              *)
LEMMA TypeIsRefused ==
  ASSUME NEW type, type # "default"
  PROVE  Token(Begin, Word(type)).how # "ok"
<1>1. Token(Begin, Word(type)) = Dest(Begin, Word(type))
  BY DEF Token, Begin
<1>2. Word(type) # Word("default") /\ Word(type).addr = NoAddress
  BY DEF Word
<1>3. ~IsAddress(ParseAddress(NoAddress))
  BY ParsedNone DEF IsAddress
<1>4. Dest(Begin, Word(type)) = [Begin EXCEPT !.how = "refused"]
  BY <1>2, <1>3 DEF Dest
<1> QED BY <1>1, <1>4 DEF Begin

LEMMA LineHasFields ==
  ASSUME NEW r, IsHostRoute(r)
  PROVE  AreFields(TokensOf(r), r) /\ Fields(r) \in Seq(TokensOf(r))
<1> DEFINE T == TokensOf(r)
<1>1. AreFields(T, r)
  BY DEF AreFields, TokensOf, IsOption, IsHostRoute
<1> HIDE DEF T
<1>2. \A key \in Keys : Field(key, r[key]) \in Seq(T)
  BY <1>1, FieldTokens DEF AreFields
<1>3. /\ Field("via", r.via) \in Seq(T) /\ Field("dev", r.dev) \in Seq(T)
      /\ Field("proto", r.proto) \in Seq(T) /\ Field("scope", r.scope) \in Seq(T)
      /\ Field("src", r.src) \in Seq(T) /\ Field("metric", r.metric) \in Seq(T)
  BY <1>2 DEF Keys
<1>4. Fields(r) \in Seq(T)
  BY <1>3, ConcatProperties DEF Fields
<1> QED BY <1>1, <1>4 DEF T

(* A line of five parts.                                                   *)
LEMMA PartsOfLine ==
  ASSUME NEW T, NEW typ \in Seq(T), NEW d \in Seq(T), NEW f \in Seq(T),
         NEW g \in Seq(T), NEW p \in Seq(T)
  PROVE  LET s1 == Tokens(Begin, typ)
             s2 == Tokens(s1, d)
             s3 == Tokens(s2, f)
         IN /\ Begin \in States(T) /\ s1 \in States(T) /\ s2 \in States(T)
            /\ s3 \in States(T) /\ g \o p \in Seq(T)
            /\ Tokens(Begin, typ \o d \o f \o g \o p) = Tokens(s3, g \o p)
<1> DEFINE s1 == Tokens(Begin, typ)
           s2 == Tokens(s1, d)
           s3 == Tokens(s2, f)
           a == typ \o d
           b == a \o f
           c == g \o p
<1>1. Begin \in States(T)
  BY BeginIsState
<1>2. a \in Seq(T) /\ c \in Seq(T)
  BY ConcatProperties
<1>3. s1 \in States(T)
  BY <1>1, TokensAreState
<1>4. s2 = Tokens(Begin, a)
  BY <1>1, TokensOfBoth
<1> HIDE DEF s1, a, c
<1>5. s2 \in States(T)
  BY <1>3, TokensAreState
<1>6. b \in Seq(T)
  BY <1>2, ConcatProperties
<1> HIDE DEF s2
<1>7. s3 \in States(T)
  BY <1>5, TokensAreState
<1>8. s3 = Tokens(Begin, b)
  BY <1>1, <1>2, <1>4, TokensOfBoth
<1> HIDE DEF s3, b
<1>9. b \o g \o p = b \o c
  <2>1. \A x \in Seq(T) : (x \o g) \o p = x \o (g \o p)
    BY ConcatAssociative
  <2> QED BY <1>6, <2>1 DEF c
<1>10. Tokens(Begin, b \o c) = Tokens(s3, c)
  BY <1>1, <1>2, <1>6, <1>8, TokensOfBoth
<1> QED BY <1>1, <1>2, <1>3, <1>5, <1>7, <1>9, <1>10 DEF a, b, c, s1, s2, s3

(* What parse() takes for a route.                                         *)
CanBeRead(r) == r.type = "" /\ \A t \in r.metric : t.num <= IntMax

(* What is read from the line of a route.                                  *)
LEMMA LineIsRead ==
  ASSUME NEW r, IsHostRoute(r), NEW end, end = ParseLine(RouteLine(r))
  PROVE  /\ end.how = "ok" <=> CanBeRead(r)
         /\ end.how = "ok" => end.route = ReadAs(r)
<1> USE DEF CanBeRead
<1> DEFINE T == TokensOf(r)
           typ == IF r.type = "" THEN <<>> ELSE <<Word(r.type)>>
           d == <<DestToken(r.dest)>>
           f == Fields(r)
           g == r.flags
           p == IF r.dest.kind = "v6" THEN <<Word("pref"), Word("medium")>> ELSE <<>>
<1>1. typ \in Seq(T) /\ d \in Seq(T) /\ f \in Seq(T) /\ g \in Seq(T) /\ p \in Seq(T)
  <2> DEFINE t == Word(r.type)
             u == DestToken(r.dest)
             v == Word("pref")
             w == Word("medium")
  <2>1. t \in T /\ u \in T /\ v \in T /\ w \in T
    BY TokensAreThere, Zenon
  <2>2. Range(g) \subseteq T /\ g \in Seq(Range(g))
    <3>1. Range(g) \subseteq T
      BY TokensAreThere, Zenon
    <3>2. g \in Seq(Range(g))
      BY DEF IsHostRoute
    <3> QED BY <3>1, <3>2
  <2>3. f \in Seq(T)
    BY LineHasFields
  <2> HIDE DEF t, u, v, w, T, f, g
  <2>4. <<t>> \in Seq(T) /\ <<u>> \in Seq(T) /\ <<v, w>> \in Seq(T) /\ <<>> \in Seq(T)
    BY <2>1
  <2>5. g \in Seq(T)
    BY <2>2, SeqMonotonic
  <2> QED BY <2>3, <2>4, <2>5 DEF t, u, v, w
<1> DEFINE s1 == Tokens(Begin, typ)
           s2 == Tokens(s1, d)
           s3 == Tokens(s2, f)
<1>2. /\ Begin \in States(T) /\ s1 \in States(T) /\ s2 \in States(T) /\ s3 \in States(T)
      /\ end = Tokens(s3, g \o p) /\ g \o p \in Seq(T)
  <2>1. RouteLine(r) = typ \o d \o f \o g \o p
    BY Zenon DEF RouteLine
  <2> HIDE DEF T, typ, d, f, g, p
  <2> QED BY <1>1, <2>1, PartsOfLine DEF ParseLine
<1>4. \A i \in 1..Len(g \o p) : (g \o p)[i].word \notin Keys
  <2>1. \A i \in 1..Len(g) : g[i].word \notin Keys
    <3>1. g \in Seq(Range(g)) /\ \A t \in Range(g) : t.word \notin Keys
      BY DEF IsHostRoute
    <3> HIDE DEF g
    <3> QED BY <3>1, ElementOfSeq
  <2>2. \A i \in 1..Len(p) : p[i].word \notin Keys
    <3>1. Word("pref").word \notin Keys /\ Word("medium").word \notin Keys
      BY DEF Word, Keys
    <3> DEFINE v == Word("pref")
               w == Word("medium")
    <3> HIDE DEF v, w
    <3>2. \A i \in 1..Len(<<v, w>>) : <<v, w>>[i] \in {v, w}
      OBVIOUS
    <3>3. \A i \in 1..Len(<<>>) : FALSE
      OBVIOUS
    <3> QED BY <3>1, <3>2, <3>3 DEF v, w
  <2> HIDE DEF g, p, T
  <2>3. /\ Len(g) \in Nat /\ Len(p) \in Nat /\ Len(g \o p) = Len(g) + Len(p)
        /\ \A i \in 1..Len(g) + Len(p) :
             (g \o p)[i] = IF i <= Len(g) THEN g[i] ELSE p[i - Len(g)]
    BY <1>1, LenProperties, ConcatProperties
  <2> TAKE i \in 1..Len(g \o p)
  <2>4. CASE i <= Len(g)
    BY <2>1, <2>3, <2>4
  <2>5. CASE ~(i <= Len(g))
    <3>1. i - Len(g) \in 1..Len(p) /\ (g \o p)[i] = p[i - Len(g)]
      BY <2>3, <2>5
    <3> QED BY <2>2, <3>1
  <2> QED BY <2>4, <2>5
<1>5. CASE r.type # ""
  <2>1. s1 = Token(Begin, Word(r.type))
    <3>1. Word(r.type) \in T /\ typ = <<Word(r.type)>>
      BY <1>5, TokensAreThere
    <3> HIDE DEF T, typ
    <3> QED BY <1>2, <3>1, TokensOfOne, Zenon
  <2>2. s1.how # "ok"
    BY <2>1, TypeIsRefused DEF IsHostRoute
  <2> HIDE DEF T, typ, s1
  <2>3. s2 = s1
    <3> HIDE DEF d
    <3> QED BY <1>1, <1>2, <2>2, ErrorStays
  <2> HIDE DEF s2, f
  <2>4. s3 = s1
    BY <1>1, <1>2, <2>2, <2>3, ErrorStays
  <2> HIDE DEF s3, g, p
  <2>5. end = s1
    BY <1>2, <2>2, <2>4, ErrorStays
  <2> QED BY <1>5, <2>2, <2>5
<1>6. CASE r.type = ""
  <2> DEFINE dest == IF r.dest.prefix = 0 THEN ZeroV4 ELSE r.dest
  <2>1. s1 = Begin
    <3>1. typ = <<>>
      BY <1>6
    <3> HIDE DEF T, typ
    <3> QED BY <1>2, <3>1, TokensOfNone
  <2>2. s2 = [Begin EXCEPT !.route.dest = dest, !.next = "name"]
    <3> DEFINE t == DestToken(r.dest)
    <3>1. t \in T /\ d = <<t>>
      BY TokensAreThere, Zenon
    <3>2. r.dest \in Address
      BY DEF IsHostRoute
    <3>3. Token(Begin, t) = [Begin EXCEPT !.route.dest = dest, !.next = "name"]
      BY <3>2, DestIsRead
    <3> HIDE DEF T, s1, t, d, dest
    <3>4. s2 = Token(Begin, t)
      BY <1>2, <2>1, <3>1, TokensOfOne
    <3> QED BY <3>3, <3>4
  <2> HIDE DEF dest, s2, s3, T
  <2>3. /\ s2 \in Ready(T) /\ s2.route.dest = dest
        /\ \A key \in Keys : s2.route[key] = {}
    <3>1. s2 \in States(T)
      BY <1>2 DEF T, s2
    <3>2. /\ s2.how = "ok" /\ s2.next = "name" /\ s2.route = [NoRoute EXCEPT !.dest = dest]
      BY <2>2 DEF Begin
    <3>3. /\ s2.route.dest = dest /\ s2.route.via = {} /\ s2.route.dev = {}
          /\ s2.route.proto = {} /\ s2.route.scope = {} /\ s2.route.src = {}
          /\ s2.route.metric = {}
      BY <3>2 DEF NoRoute
    <3>4. \A key \in Keys : s2.route[key] = {}
      BY <3>3 DEF Keys
    <3> QED BY <3>1, <3>2, <3>3, <3>4 DEF Ready
  <2> DEFINE read == [dest |-> dest, via |-> ReadOption("via", r.via),
                      dev |-> r.dev, proto |-> r.proto, scope |-> r.scope,
                      src |-> ReadOption("src", r.src), metric |-> r.metric]
  <2>4. /\ (\A t \in r.metric : FitsInt(t.num)) => s3 \in Ready(T) /\ s3.route = read
        /\ (\E t \in r.metric : ~FitsInt(t.num)) => s3.how # "ok"
    <3>1. AreFields(T, r)
      BY LineHasFields DEF T
    <3> QED BY <2>3, <3>1, FieldsAreRead DEF s3
  <2>5. read = ReadAs(r)
    BY DEF ReadAs, ReadOption, AddressKeys, dest
  <2>6. \A t \in r.metric : FitsInt(t.num) <=> t.num <= IntMax
    <3>1. \A t \in r.metric : t.num \in Nat
      BY DEF IsHostRoute
    <3> QED BY <3>1, IfAddrsAssumption DEF FitsInt
  <2> HIDE DEF read, f, g, p
  <2>7. CASE \A t \in r.metric : FitsInt(t.num)
    <3> DEFINE c == g \o p
    <3>1. s3 \in Ready(T) /\ s3.route = read
      BY <2>4, <2>7
    <3>2. end = Tokens(s3, c) /\ c \in Seq(T) /\ \A i \in 1..Len(c) : c[i].word \notin Keys
      BY <1>2, <1>4 DEF s3, T
    <3> HIDE DEF c
    <3>3. end.how = "ok" /\ end.route = s3.route
      BY <3>1, <3>2, FlagsArePassedOver
    <3> QED BY <1>6, <2>5, <2>6, <2>7, <3>1, <3>3
  <2>8. CASE \E t \in r.metric : ~FitsInt(t.num)
    <3>1. end = s3 /\ s3.how # "ok"
      BY <1>2, <2>4, <2>8, ErrorStays
    <3> QED BY <2>6, <2>8, <3>1
  <2> QED BY <2>7, <2>8
<1> QED BY <1>5, <1>6

(* A sequence of the elements of a finite set has all of them.             *)
LEMMA SetToSeqHasAll ==
  ASSUME NEW S, IsFiniteSet(S)
  PROVE  SetToSeq(S) \in Seq(S) /\ Range(SetToSeq(S)) = S
<1> DEFINE n == Cardinality(S)
           f == SetToSeq(S)
<1>1. n \in Nat /\ \E b \in [1..n -> S] : IsInjective(b)
  <2>1. n \in Nat /\ ExistsBijection(1..n, S)
    BY FS_CardinalityType
  <2> QED BY <2>1 DEF ExistsBijection, Bijection, Injection
<1>2. f \in [1..n -> S] /\ IsInjective(f)
  BY <1>1, Zenon DEF SetToSeq
<1> HIDE DEF f
<1>3. Cardinality(1..n) = n
  <2> HIDE DEF n
  <2>1. Cardinality(1..n) = IF 1 > n THEN 0 ELSE n - 1 + 1
    BY <1>1, FS_Interval
  <2> QED BY <1>1, <2>1
<1>4. f \in Surjection(1..n, S)
  <2>1. f \in Injection(1..n, S)
    BY <1>2 DEF Injection
  <2> QED BY <1>3, <2>1, FS_Injection
<1>5. Range(f) = S
  BY <1>2, <1>4 DEF Range, Surjection
<1>6. f \in Seq(S)
  BY <1>1, <1>2, SeqDef
<1> QED BY <1>5, <1>6 DEF f

(* A network of the tun is a route as ip prints them.                      *)
LEMMA TunRouteIsHostRoute ==
  ASSUME NEW a \in Address
  PROVE  IsHostRoute(TunRoute(a))
<1> DEFINE r == TunRoute(a)
<1>1. r.type = "" /\ r.flags = <<>> /\ r.dest = NetworkOf(a)
  BY DEF TunRoute
<1>2. r.dest \in Address
  <2>1. NetworkOf(a) \in Address
    BY NetworkIncludes DEF NetworkOf
  <2> QED BY <1>1, <2>1
<1>3. /\ r.via = {} /\ r.dev = {Word("tun")} /\ r.proto = {Word("kernel")}
      /\ r.scope = {} \/ r.scope = {Word("link")}
      /\ r.src = {} \/ r.src = {Text(ToS(a))}
      /\ r.metric = {} \/ r.metric = {Number(TunMetric)}
  BY DEF TunRoute
<1>4. \A key \in Keys : \A s, t \in r[key] : s = t
  <2> HIDE DEF r
  <2> QED BY <1>3 DEF Keys
<1>5. \A t \in r.src : /\ t = Text(t.addr) /\ t.addr \in AddressText
                       /\ IsAddress(t.addr) /\ t.addr.prefix = NoPrefix
  <2>1. ToS(a) \in AddressText /\ IsAddress(ToS(a)) /\ ToS(a).prefix = NoPrefix
    BY AddressIsText, ParsedHost DEF IsAddress, ToS
  <2>2. \A t \in r.src : t = Text(ToS(a))
    BY <1>3
  <2>3. Text(ToS(a)).addr = ToS(a)
    BY DEF Text
  <2> HIDE DEF r
  <2> QED BY <2>1, <2>2, <2>3
<1>6. \A t \in r.metric : t.num \in Nat
  <2>1. TunMetric \in Nat
    BY TunnelAssumption, IfAddrsAssumption
  <2>2. Number(TunMetric).num = TunMetric
    BY DEF Number
  <2> HIDE DEF r
  <2> QED BY <1>3, <2>1, <2>2
<1>7. r.flags \in Seq(Range(r.flags)) /\ \A t \in Range(r.flags) : t.word \notin Keys
  <2> HIDE DEF r
  <2>1. Range(<<>>) = {}
    BY DEF Range
  <2>2. <<>> \in Seq({})
    BY EmptySeq
  <2> QED BY <1>1, <2>1, <2>2
<1> HIDE DEF r
<1>8. \A key \in AddressKeys : \A t \in r[key] :
        /\ t = Text(t.addr) /\ t.addr \in AddressText
        /\ IsAddress(t.addr) /\ t.addr.prefix = NoPrefix
  BY <1>3, <1>5 DEF AddressKeys
<1>9. IsHostRoute(r)
  BY <1>1, <1>2, <1>4, <1>6, <1>7, <1>8 DEF IsHostRoute
<1> QED BY <1>9 DEF r

LEMMA TunRoutesAreFinite ==
  ASSUME IsFiniteSet(kernel.addrs)
  PROVE  IsFiniteSet(TunRoutes)
<1> DEFINE B == {b \in kernel.addrs : b.kind = "v6" \/ b.prefix < Bits[b.kind]}
           f == [a \in B |-> TunRoute(a)]
           T == {TunRoute(a) : a \in B}
<1>1. IsFiniteSet(B)
  BY FS_Subset
<1> HIDE DEF B
<1>2. f \in Surjection(B, T)
  BY DEF Surjection
<1> HIDE DEF f, T
<1>3. IsFiniteSet(T)
  BY <1>1, <1>2, FS_Surjection
<1>4. IsFiniteSet({})
  BY FS_EmptySet
<1> QED BY <1>3, <1>4 DEF TunRoutes, T, B

(* The table of a kind has its routes, each as ip prints it.               *)
LEMMA HostTableHasRoutes ==
  ASSUME NEW host \in HostRoutes, IsFiniteSet(kernel.addrs), kernel.addrs \subseteq Address,
         NEW kind
  PROVE  LET S == {r \in host \cup TunRoutes : r.dest.kind = kind}
         IN /\ HostTable(host, kind) \in Seq(S) /\ Range(HostTable(host, kind)) = S
            /\ \A r \in S : IsHostRoute(r)
<1> DEFINE all == host \cup TunRoutes
           S == {r \in all : r.dest.kind = kind}
<1>1. IsFiniteSet(host) /\ \A r \in host : IsHostRoute(r)
  BY TunnelAssumption
<1>2. \A r \in TunRoutes : IsHostRoute(r)
  BY TunRouteIsHostRoute DEF TunRoutes
<1>3. IsFiniteSet(all)
  BY <1>1, TunRoutesAreFinite, FS_Union
<1> HIDE DEF all
<1>4. IsFiniteSet(S)
  BY <1>3, FS_Subset
<1>5. HostTable(host, kind) = SetToSeq(S)
  BY DEF HostTable, all
<1> HIDE DEF S
<1>6. HostTable(host, kind) \in Seq(S) /\ Range(HostTable(host, kind)) = S
  BY <1>4, <1>5, SetToSeqHasAll
<1> QED BY <1>1, <1>2, <1>6 DEF S, all

(* The lines of two tables, one after the other.                           *)
LEMMA ListingOfBoth ==
  ASSUME NEW R, NEW v4 \in Seq(R), NEW v6 \in Seq(R)
  PROVE  Listing(v4) \o Listing(v6) = [i \in DOMAIN (v4 \o v6) |-> RouteLine((v4 \o v6)[i])]
<1> DEFINE X == {RouteLine(r) : r \in R}
           a == Listing(v4)
           b == Listing(v6)
           t == v4 \o v6
           l == [i \in DOMAIN t |-> RouteLine(t[i])]
           m == Len(v4)
           n == Len(v6)
<1>1. ASSUME NEW v \in Seq(R)
      PROVE  /\ Listing(v) \in Seq(X) /\ Len(Listing(v)) = Len(v)
             /\ \A i \in 1..Len(v) : Listing(v)[i] = RouteLine(v[i])
  <2> DEFINE k == Len(v)
  <2>1. k \in Nat /\ DOMAIN v = 1..k /\ \A i \in 1..k : v[i] \in R
    BY LenProperties, ElementOfSeq
  <2> HIDE DEF k
  <2>2. Listing(v) = [i \in 1..k |-> RouteLine(v[i])]
    BY <2>1 DEF Listing
  <2>3. \A i \in 1..k : RouteLine(v[i]) \in X
    BY <2>1
  <2> HIDE DEF X
  <2>4. Listing(v) \in [1..k -> X]
    BY <2>2, <2>3
  <2>5. Listing(v) \in Seq(X)
    BY <2>1, <2>4, SeqDef
  <2>6. Len(Listing(v)) = k
    BY <2>1, <2>2
  <2> QED BY <2>2, <2>5, <2>6 DEF k
<1>2. /\ a \in Seq(X) /\ Len(a) = m /\ \A i \in 1..m : a[i] = RouteLine(v4[i])
      /\ b \in Seq(X) /\ Len(b) = n /\ \A i \in 1..n : b[i] = RouteLine(v6[i])
      /\ m \in Nat /\ n \in Nat
  BY <1>1, LenProperties
<1>3. /\ t \in Seq(R) /\ Len(t) = m + n
      /\ \A i \in 1..m + n : t[i] = IF i <= m THEN v4[i] ELSE v6[i - m]
  BY ConcatProperties
<1>4. t \in Seq(R)
  BY <1>3
<1> HIDE DEF a, b, t, X, m, n
<1>5. /\ Listing(t) = l /\ l \in Seq(X) /\ Len(l) = m + n
      /\ \A i \in 1..m + n : l[i] = RouteLine(t[i])
  <2>1. Listing(t) = l
    BY DEF Listing
  <2> HIDE DEF l
  <2> QED BY <1>1, <1>3, <2>1
<1>6. /\ a \o b \in Seq(X) /\ Len(a \o b) = m + n
      /\ \A i \in 1..m + n : (a \o b)[i] = IF i <= m THEN a[i] ELSE b[i - m]
  BY <1>2, ConcatProperties
<1> HIDE DEF l
<1>7. ASSUME NEW i \in 1..m + n
      PROVE  (a \o b)[i] = l[i]
  <2>1. CASE i <= m
    <3>1. i \in 1..m
      BY <1>2, <2>1
    <3> QED BY <1>2, <1>3, <1>5, <1>6, <2>1, <3>1
  <2>2. CASE ~(i <= m)
    <3>1. i - m \in 1..n
      BY <1>2, <2>2
    <3> QED BY <1>2, <1>3, <1>5, <1>6, <2>2, <3>1
  <2> QED BY <2>1, <2>2
<1>8. a \o b = l
  <2> DEFINE c == a \o b
  <2>1. c \in Seq(X) /\ Len(c) = Len(l) /\ \A i \in 1..Len(c) : c[i] = l[i]
    BY <1>5, <1>6, <1>7
  <2> HIDE DEF c
  <2>2. c = l
    BY <1>5, <2>1, SeqEqual
  <2> QED BY <2>2 DEF c
<1> QED BY <1>8 DEF a, b, l, t

(* What parse() returns for the lines of routes.                           *)
LEMMA TableIsRead ==
  ASSUME NEW R, \A r \in R : IsHostRoute(r), NEW t \in Seq(R),
         NEW lines, lines = [i \in DOMAIN t |-> RouteLine(t[i])]
  PROVE  /\ Parse(lines).how = "ok" <=> \A r \in Range(t) : CanBeRead(r)
         /\ Parse(lines).how = "ok" =>
              Parse(lines).routes = [i \in DOMAIN t |-> ReadAs(t[i])]
<1> DEFINE n == Len(t)
           read == [i \in DOMAIN lines |-> ParseLine(lines[i])]
           bad == {i \in DOMAIN lines : read[i].how # "ok"}
<1>1. /\ n \in Nat /\ DOMAIN t = 1..n /\ DOMAIN lines = 1..n
      /\ \A i \in 1..n : IsHostRoute(t[i])
  BY LenProperties, ElementOfSeq
<1> HIDE DEF n
<1>2. \A i \in 1..n : /\ read[i].how = "ok" <=> CanBeRead(t[i])
                      /\ read[i].how = "ok" => read[i].route = ReadAs(t[i])
  <2> TAKE i \in 1..n
  <2> DEFINE end == ParseLine(RouteLine(t[i]))
  <2>1. read[i] = end
    BY <1>1
  <2>2. /\ end.how = "ok" <=> CanBeRead(t[i])
        /\ end.how = "ok" => end.route = ReadAs(t[i])
    BY <1>1, LineIsRead, Zenon
  <2> QED BY <2>1, <2>2
<1>3. /\ Parse(lines).how = IF bad = {} THEN "ok" ELSE read[Min(bad)].how
      /\ Parse(lines).routes = [i \in DOMAIN lines |-> read[i].route]
  BY DEF Parse
<1>4. bad \subseteq 1..n /\ \A i \in 1..n : i \in bad <=> read[i].how # "ok"
  BY <1>1
<1> HIDE DEF read, bad
<1>5. Parse(lines).how = "ok" <=> bad = {}
  <2>1. CASE bad # {}
    <3>1. \E x \in bad : \A y \in bad : x =< y
      <4>1. bad \in SUBSET Nat
        BY <1>4
      <4> QED BY <2>1, <4>1, LeastExists
    <3>2. Min(bad) \in bad
      BY <3>1, Zenon DEF Min
    <3> QED BY <1>3, <1>4, <2>1, <3>2
  <2> QED BY <1>3, <2>1
<1>6. Range(t) = {t[i] : i \in 1..n}
  BY <1>1 DEF Range
<1>7. bad = {} <=> \A i \in 1..n : CanBeRead(t[i])
  BY <1>2, <1>4
<1>8. bad = {} => Parse(lines).routes = [i \in DOMAIN t |-> ReadAs(t[i])]
  <2> SUFFICES ASSUME bad = {}
               PROVE  Parse(lines).routes = [i \in DOMAIN t |-> ReadAs(t[i])]
    OBVIOUS
  <2>1. \A i \in 1..n : read[i].route = ReadAs(t[i])
    BY <1>2, <1>4
  <2>2. Parse(lines).routes = [i \in 1..n |-> read[i].route]
    BY <1>1, <1>3
  <2> QED BY <1>1, <2>1, <2>2
<1> QED BY <1>5, <1>6, <1>7, <1>8

(* The text of a host's address is written as it was read.                 *)
LEMMA OptionIsWritten ==
  ASSUME NEW option,
         \A t \in option : /\ t = Text(t.addr) /\ t.addr \in AddressText
                           /\ IsAddress(t.addr) /\ t.addr.prefix = NoPrefix
  PROVE  {Text(ToS(t.addr)) : t \in {Text(ParseAddress(u.addr)) : u \in option}} = option
<1>1. ASSUME NEW u \in option
      PROVE  Text(ToS(Text(ParseAddress(u.addr)).addr)) = u
  <2> DEFINE a == u.addr
             b == [a EXCEPT !.prefix = Bits[a.kind]]
  <2>1. /\ u = Text(a) /\ IsAddress(a) /\ a.prefix = NoPrefix
        /\ a = [kind |-> a.kind, host |-> a.host, prefix |-> NoPrefix]
    BY DEF AddressText, IsAddress
  <2>2. ParseAddress(a) = b
    BY <2>1 DEF ParseAddress
  <2> HIDE DEF a
  <2>3. PICK k, h : a = [kind |-> k, host |-> h, prefix |-> NoPrefix]
    BY <2>1
  <2>4. ToS(b) = a
    <3>1. b = [kind |-> k, host |-> h, prefix |-> Bits[k]]
      BY <2>3
    <3> HIDE DEF b
    <3> QED BY <2>3, <3>1 DEF ToS
  <2>5. Text(b).addr = b
    BY DEF Text
  <2> QED BY <2>1, <2>2, <2>4, <2>5 DEF a
<1> QED BY <1>1

LEMMA OneIsSeq ==
  ASSUME NEW T, NEW t \in T
  PROVE  <<t>> \in Seq(T)
OBVIOUS

(* A route of v4 without flags is written as it was read.                  *)
LEMMA RouteIsWritten ==
  ASSUME NEW r, IsHostRoute(r), r.type = "", r.dest.kind = "v4", r.flags = <<>>,
         r.dest.prefix # Bits["v4"], NEW mod
  PROVE  Command(ReadAs(r), mod)
           = <<Word("/sbin/ip"), Word("route"), Word(mod)>> \o RouteLine(r)
<1> DEFINE x == ReadAs(r)
           y == [x EXCEPT !.via = {Text(ToS(t.addr)) : t \in @},
                          !.src = {Text(ToS(t.addr)) : t \in @}]
           first == IF x.dest = ZeroV4 THEN Word("default") ELSE Text(x.dest)
           d == DestToken(r.dest)
           f == Fields(r)
           T == TokensOf(r)
<1>1. RouteLine(r) = <<d>> \o f
  <2>1. RouteLine(r) = <<>> \o <<d>> \o f \o <<>> \o <<>>
    BY DEF RouteLine
  <2>2. d \in T /\ f \in Seq(T)
    BY LineHasFields, TokensAreThere
  <2> HIDE DEF d, f, T
  <2>3. <<d>> \in Seq(T)
    BY <2>2, OneIsSeq
  <2> DEFINE q == <<d>>
  <2> HIDE DEF q
  <2>4. q \in Seq(T) /\ q \o f \in Seq(T)
    BY <2>2, <2>3, ConcatProperties DEF q
  <2>5. <<>> \o q = q /\ (q \o f) \o <<>> = q \o f
    BY <2>4, ConcatEmptySeq
  <2> QED BY <2>1, <2>5 DEF q
<1>2. first = d
  <2>1. CASE r.dest.prefix = 0
    BY <2>1 DEF ReadAs, DestToken
  <2>2. CASE r.dest.prefix # 0
    <3>1. x.dest = r.dest
      BY <2>2 DEF ReadAs
    <3>2. ZeroV4.prefix = 0
      BY DEF ZeroV4
    <3>3. r.dest.prefix # Bits[r.dest.kind]
      OBVIOUS
    <3>4. d = Text(r.dest)
      BY <2>2, <3>3 DEF DestToken
    <3>5. x.dest # ZeroV4
      BY <2>2, <3>1, <3>2
    <3> HIDE DEF x, d
    <3> QED BY <3>1, <3>4, <3>5
  <2> QED BY <2>1, <2>2
<1>3. Fields(y) = f
  <2>1. /\ y.via = {Text(ToS(t.addr)) : t \in {Text(ParseAddress(u.addr)) : u \in r.via}}
        /\ y.src = {Text(ToS(t.addr)) : t \in {Text(ParseAddress(u.addr)) : u \in r.src}}
        /\ y.dev = r.dev /\ y.proto = r.proto /\ y.scope = r.scope /\ y.metric = r.metric
    BY DEF ReadAs
  <2>2. \A key \in {"via", "src"} : \A t \in r[key] :
          /\ t = Text(t.addr) /\ t.addr \in AddressText
          /\ IsAddress(t.addr) /\ t.addr.prefix = NoPrefix
    BY DEF IsHostRoute, AddressKeys
  <2> HIDE DEF y
  <2>3. y.via = r.via
    <3>1. \A t \in r.via : /\ t = Text(t.addr) /\ t.addr \in AddressText
                           /\ IsAddress(t.addr) /\ t.addr.prefix = NoPrefix
      BY <2>2
    <3> QED BY <2>1, <3>1, OptionIsWritten
  <2>4. y.src = r.src
    <3>1. \A t \in r.src : /\ t = Text(t.addr) /\ t.addr \in AddressText
                           /\ IsAddress(t.addr) /\ t.addr.prefix = NoPrefix
      BY <2>2
    <3> QED BY <2>1, <3>1, OptionIsWritten
  <2> QED BY <2>1, <2>3, <2>4 DEF Fields
<1>4. Serialize(x) = <<first>> \o Fields(y)
  BY DEF Serialize
<1> HIDE DEF x, y, first, d, f, T
<1>5. Serialize(x) = RouteLine(r)
  BY <1>1, <1>2, <1>3, <1>4
<1> QED BY <1>5, Zenon DEF Command, x
-----------------------------------------------------------------------------
(* The kernel has few addresses, and on Linux the client's just as they    *)
(* are.                                                                    *)
AddrsAsAsked ==
  /\ IsFiniteSet(kernel.addrs)
  /\ os = "linux" /\ phase \in Configured =>
       \A a \in Range(ifAddrs.addrs) :
         a \in kernel.addrs \/ Lost(a) \/ AddrCmd(a) \in Range(cmds)

LEMMA InitAddrs == Init => AddrsAsAsked
BY FS_EmptySet DEF Init, AddrsAsAsked, Configured

LEMMA TunAllocAddrs ==
  ASSUME IInv, AddrsAsAsked, NEW ok \in BOOLEAN, TunAlloc(ok)
  PROVE  AddrsAsAsked'
<1>1. /\ phase' = IF ok THEN "commands" ELSE "failed"
      /\ UNCHANGED <<os, ifAddrs, kernel, lost>>
      /\ ok /\ os = "linux" => cmds' = LinuxCommands(ifAddrs)
  BY DEF TunAlloc
<1>2. ASSUME ok, os = "linux", NEW a \in Range(ifAddrs.addrs)
      PROVE  AddrCmd(a) \in Range(LinuxCommands(ifAddrs))
  <2>1. ifAddrs \in IfAddrsOf(0..SizeMod - 1) /\ 0..SizeMod - 1 \in SUBSET Nat
    BY IfAddrsAssumption DEF IInv, Asked
  <2> QED BY <1>2, <2>1, LinuxCommandsConfigure
<1> QED BY <1>1, <1>2 DEF AddrsAsAsked, Configured

LEMMA RunCommandAddrs ==
  ASSUME IInv, AddrsAsAsked, NEW ok \in BOOLEAN, RunCommand(ok)
  PROVE  AddrsAsAsked'
<1> DEFINE h == Head(cmds)
           done == ok /\ Allowed(h)
<1>1. /\ phase = "commands" /\ phase' = "commands" /\ cmds # <<>> /\ cmds' = Tail(cmds)
      /\ UNCHANGED <<os, ifAddrs>>
      /\ kernel' = IF done THEN Configure(h) ELSE kernel
      /\ lost' = IF done THEN lost ELSE lost \cup {h}
  BY DEF RunCommand
<1>2. h \in AnyCommand /\ Range(cmds) = {h} \cup Range(cmds')
  <2>1. cmds \in Seq(AnyCommand) /\ UpIsLast(cmds, ifAddrs.mtu)
    BY DEF IInv, KernelTypes
  <2> QED BY <1>1, <2>1, NextCommand
<1>3. kernel \in [mtu : Nat, up : BOOLEAN, addrs : SUBSET Address, routes : SUBSET RouteCommand]
  BY DEF IInv, KernelTypes
<1>4. ASSUME NEW a \in Range(ifAddrs.addrs), os = "linux"
      PROVE  a \in kernel.addrs \/ Lost(a) \/ AddrCmd(a) = h \/ AddrCmd(a) \in Range(cmds')
  BY <1>1, <1>2, <1>4 DEF AddrsAsAsked, Configured
<1>5. \A a : AddrCmd(a).do = "addr" /\ AddrCmd(a).addr = a
  BY DEF AddrCmd
<1> HIDE DEF h, done
<1>6. CASE ~done
  <2>1. \A a : AddrCmd(a) = h => Lost(a)'
    BY <1>1, <1>5, <1>6 DEF Lost
  <2>2. \A a : Lost(a) => Lost(a)'
    BY <1>1, <1>6 DEF Lost
  <2>3. IsFiniteSet(kernel'.addrs)
    BY <1>1, <1>6 DEF AddrsAsAsked
  <2> QED BY <1>1, <1>4, <1>6, <2>1, <2>2, <2>3 DEF AddrsAsAsked
<1>7. CASE done
  <2>1. \/ /\ h \in AddrCommand /\ h.do \in {"addr", "addrTo"}
           /\ kernel'.addrs = kernel.addrs \cup {ParseAddress(h.addr)}
        \/ h \notin AddrCommand /\ kernel'.addrs = kernel.addrs
    <3>1. CASE h \in AddrCommand
      <4>1. h.do \in {"addr", "addrTo"}
        BY <3>1 DEF AddrCommand
      <4> QED BY <1>1, <1>3, <1>7, <3>1, <4>1 DEF Configure
    <3>2. CASE h \notin AddrCommand
      <4>1. h.do \in {"route", "up"}
        <5>1. h \in RouteCommand \/ h \in UpCommand
          BY <1>2, <3>2 DEF AnyCommand
        <5>2. h \in RouteCommand => h.do = "route"
          BY DEF RouteCommand
        <5>3. h \in UpCommand => h.do = "up"
          BY DEF UpCommand
        <5> QED BY <5>1, <5>2, <5>3
      <4> QED BY <1>1, <1>3, <1>7, <3>2, <4>1 DEF Configure
    <3> QED BY <3>1, <3>2
  <2>2. IsFiniteSet(kernel'.addrs)
    <3>1. IsFiniteSet(kernel.addrs)
      BY DEF AddrsAsAsked
    <3> QED BY <2>1, <3>1, FS_AddElement
  <2>3. \A a \in Range(ifAddrs.addrs) : AddrCmd(a) = h => a \in kernel'.addrs
    <3> SUFFICES ASSUME NEW a \in Range(ifAddrs.addrs), AddrCmd(a) = h
                 PROVE  a \in kernel'.addrs
      OBVIOUS
    <3>1. a \in Address
      <4>1. ifAddrs.addrs \in Seq(Address)
        BY DEF IInv, Asked, IfAddrsOf
      <4> QED BY <4>1, RangeEquality, ElementOfSeq
    <3>2. h \in AddrCommand /\ h.addr = a /\ ParseAddress(a) = a
      BY <1>5, <3>1, AddrCommandSets, ParsedAddress
    <3> QED BY <2>1, <3>2
  <2>4. \A a : Lost(a) => Lost(a)'
    BY <1>1, <1>7 DEF Lost
  <2>5. kernel.addrs \subseteq kernel'.addrs
    BY <2>1
  <2> QED BY <1>1, <1>4, <2>2, <2>3, <2>4, <2>5 DEF AddrsAsAsked
<1> QED BY <1>6, <1>7

LEMMA OtherAddrs ==
  ASSUME AddrsAsAsked, UNCHANGED <<os, ifAddrs, kernel, lost, cmds>>,
         phase' \in Configured => phase \in Configured
  PROVE  AddrsAsAsked'
BY DEF AddrsAsAsked, Lost

(* The route of the network of an address that is set.                     *)
LEMMA NetworkIsRead ==
  ASSUME NEW a \in Address, a.prefix # 0
  PROVE  LET r == ReadAs(TunRoute(a))
         IN r.dev = {Word("tun")} /\ Includes(r.dest, ParseAddress(ToS(a)))
<1> DEFINE net == NetworkOf(a)
           b == ParseAddress(ToS(a))
<1>1. TunRoute(a).dest = net /\ TunRoute(a).dev = {Word("tun")}
  BY DEF TunRoute
<1>2. net.prefix = a.prefix
  BY AddressIsText DEF NetworkOf
<1>3. b = [a EXCEPT !.prefix = Bits[a.kind]]
  BY ParsedHost
<1>4. Includes(net, b)
  <2> HIDE DEF b
  <2> QED BY <1>3, NetworkIncludes DEF NetworkOf
<1> HIDE DEF net, b
<1>5. ReadAs(TunRoute(a)).dest = net /\ ReadAs(TunRoute(a)).dev = {Word("tun")}
  BY <1>1, <1>2 DEF ReadAs
<1> QED BY <1>4, <1>5 DEF b

(* What read() returns for the tables of both kinds, ...                   *)
LEMMA TablesAreRead ==
  ASSUME NEW R, \A r \in R : IsHostRoute(r), NEW v4 \in Seq(R), NEW v6 \in Seq(R),
         NEW ran4 \in BOOLEAN, NEW ran6 \in BOOLEAN
  PROVE  LET t == v4 \o v6
             read == Read(ran4, Listing(v4), ran6, Listing(v6))
         IN /\ read.how = "ok" <=> ran4 /\ ran6 /\ \A r \in Range(t) : CanBeRead(r)
            /\ read.how = "ok" => read.routes = [i \in DOMAIN t |-> ReadAs(t[i])]
<1> DEFINE t == v4 \o v6
           lines == Listing(v4) \o Listing(v6)
           read == Read(ran4, Listing(v4), ran6, Listing(v6))
<1>1. t \in Seq(R)
  BY ConcatProperties
<1>2. lines = [i \in DOMAIN t |-> RouteLine(t[i])]
  BY ListingOfBoth
<1>3. read = IF ran4 /\ ran6 THEN Parse(lines) ELSE [how |-> "refused", routes |-> <<>>]
  BY DEF Read
<1> HIDE DEF t, lines, read
<1>4. /\ Parse(lines).how = "ok" <=> \A r \in Range(t) : CanBeRead(r)
      /\ Parse(lines).how = "ok" => Parse(lines).routes = [i \in DOMAIN t |-> ReadAs(t[i])]
  BY <1>1, <1>2, TableIsRead
<1>5. CASE ran4 /\ ran6
  BY <1>3, <1>4, <1>5 DEF t, read
<1>6. CASE ~(ran4 /\ ran6)
  BY <1>3, <1>6 DEF t, read
<1> QED BY <1>5, <1>6

(* ... and the tables of a host.                                           *)
LEMMA HostTables ==
  ASSUME NEW host \in HostRoutes, IsFiniteSet(kernel.addrs), kernel.addrs \subseteq Address
  PROVE  LET R == host \cup TunRoutes
             v4 == HostTable(host, "v4")
             v6 == HostTable(host, "v6")
         IN /\ v4 \in Seq(R) /\ v6 \in Seq(R) /\ Range(v4 \o v6) = R
            /\ \A r \in R : IsHostRoute(r)
<1> DEFINE R == host \cup TunRoutes
           S(kind) == {r \in R : r.dest.kind = kind}
           v4 == HostTable(host, "v4")
           v6 == HostTable(host, "v6")
<1>1. /\ v4 \in Seq(S("v4")) /\ Range(v4) = S("v4") /\ \A r \in S("v4") : IsHostRoute(r)
      /\ v6 \in Seq(S("v6")) /\ Range(v6) = S("v6") /\ \A r \in S("v6") : IsHostRoute(r)
  BY HostTableHasRoutes
<1>2. \A r \in R : IsHostRoute(r)
  BY TunnelAssumption, TunRouteIsHostRoute DEF TunRoutes
<1>3. R = S("v4") \cup S("v6")
  <2>1. \A r \in R : r.dest.kind \in {"v4", "v6"}
    <3>1. \A r \in R : r.dest \in Address
      BY <1>2 DEF IsHostRoute
    <3> HIDE DEF R
    <3> QED BY <3>1, AddressIsText, TunnelAssumption
  <2> HIDE DEF R
  <2> QED BY <2>1
<1> HIDE DEF R, S, v4, v6
<1>4. v4 \in Seq(R) /\ v6 \in Seq(R)
  <2>1. S("v4") \subseteq R /\ S("v6") \subseteq R
    BY <1>3
  <2> QED BY <1>1, <2>1, SeqMonotonic
<1>5. Range(v4 \o v6) = R
  <2>1. Range(v4 \o v6) = Range(v4) \cup Range(v6)
    BY <1>4, RangeConcatenation
  <2> QED BY <1>1, <1>3, <2>1
<1> QED BY <1>2, <1>4, <1>5 DEF R, v4, v6

LEMMA ReadRoutesReadsBack ==
  ASSUME IInv, AddrsAsAsked, NEW host \in HostRoutes, NEW ran4 \in BOOLEAN,
         NEW ran6 \in BOOLEAN, ReadRoutes(host, ran4, ran6)
  PROVE  RoutesReadBack'
<1> DEFINE v4 == HostTable(host, "v4")
           v6 == HostTable(host, "v6")
           t == v4 \o v6
           read == Read(ran4, Listing(v4), ran6, Listing(v6))
<1>1. /\ phase = "tun" /\ os = "linux"
      /\ listed' = [how |-> read.how, routes |-> read.routes, table |-> t,
                    ran |-> ran4 /\ ran6]
      /\ ifAddrs' = ifAddrs /\ lost' = lost /\ kernel' = kernel
  BY DEF ReadRoutes
<1>2. /\ IsFiniteSet(kernel.addrs) /\ kernel.addrs \subseteq Address
      /\ cmds = <<>> /\ ifAddrs.addrs \in Seq(Address)
  BY <1>1 DEF IInv, KernelTypes, AddrsAsAsked, Asked, IfAddrsOf
<1> HIDE DEF v4, v6
<1>3. /\ Range(t) = host \cup TunRoutes /\ \A r \in Range(t) : IsHostRoute(r)
      /\ read.how = "ok" <=> ran4 /\ ran6 /\ \A r \in Range(t) : CanBeRead(r)
      /\ read.how = "ok" => read.routes = [i \in DOMAIN t |-> ReadAs(t[i])]
  <2> DEFINE R == host \cup TunRoutes
  <2>1. v4 \in Seq(R) /\ v6 \in Seq(R) /\ Range(t) = R /\ \A r \in R : IsHostRoute(r)
    BY <1>2, HostTables DEF v4, v6
  <2> HIDE DEF R
  <2>2. /\ read.how = "ok" <=> ran4 /\ ran6 /\ \A r \in Range(t) : CanBeRead(r)
        /\ read.how = "ok" => read.routes = [i \in DOMAIN t |-> ReadAs(t[i])]
    BY <2>1, TablesAreRead
  <2> QED BY <2>1, <2>2 DEF R
<1> HIDE DEF t, read
<1>4. ASSUME read.how = "ok", kernel.up, NEW a \in Range(ifAddrs.addrs), ~Lost(a),
             ~(a.kind = "v4" /\ a.prefix = Bits["v4"]), a.prefix # 0
      PROVE  \E r \in Range(read.routes) :
               r.dev = {Word("tun")} /\ Includes(r.dest, ParseAddress(ToS(a)))
  <2>1. a \in Address /\ a \in kernel.addrs
    <3>1. a \in Address
      BY <1>2, RangeEquality, ElementOfSeq
    <3>2. Range(<<>>) = {}
      BY DEF Range
    <3> QED BY <1>1, <1>2, <1>4, <3>1, <3>2 DEF AddrsAsAsked, Configured
  <2>2. a.kind = "v6" \/ a.prefix < Bits[a.kind]
    <3>1. a.kind \in {"v4", "v6"} /\ a.prefix \in 0..Bits[a.kind] /\ Bits[a.kind] \in Nat
      BY <2>1, AddressIsText, TunnelAssumption
    <3>2. CASE a.kind = "v4"
      <4>1. a.prefix # Bits[a.kind]
        BY <1>4, <3>2
      <4> QED BY <3>1, <4>1
    <3> QED BY <3>1, <3>2
  <2>3. TunRoute(a) \in Range(t)
    <3>1. TunRoute(a) \in TunRoutes
      BY <1>4, <2>1, <2>2 DEF TunRoutes
    <3> QED BY <1>3, <3>1
  <2>4. PICK i \in DOMAIN t : t[i] = TunRoute(a)
    BY <2>3 DEF Range
  <2>5. ReadAs(TunRoute(a)) \in Range(read.routes)
    <3>1. read.routes[i] = ReadAs(TunRoute(a)) /\ i \in DOMAIN read.routes
      BY <1>3, <1>4, <2>4
    <3> QED BY <3>1 DEF Range
  <2> QED BY <1>4, <2>1, <2>5, NetworkIsRead
<1>5. ASSUME read.how = "ok", NEW i \in DOMAIN t, t[i].dest.kind = "v4",
             t[i].flags = <<>>, t[i].dest.prefix < Bits["v4"]
      PROVE  Command(read.routes[i], "add")
               = <<Word("/sbin/ip"), Word("route"), Word("add")>> \o RouteLine(t[i])
  <2> DEFINE r == t[i]
  <2>1. r \in Range(t)
    BY DEF Range
  <2>2. read.routes[i] = ReadAs(r) /\ r.type = "" /\ IsHostRoute(r)
    BY <1>3, <1>5, <2>1 DEF CanBeRead
  <2>3. r.dest.prefix # Bits["v4"]
    <3>1. r.dest \in Address
      BY <2>2 DEF IsHostRoute
    <3>2. r.dest.prefix \in 0..Bits["v4"] /\ Bits["v4"] \in Nat
      BY <1>5, <3>1, AddressIsText
    <3> QED BY <1>5, <3>2
  <2>4. r.dest.kind = "v4" /\ r.flags = <<>>
    BY <1>5
  <2> HIDE DEF r
  <2>5. Command(ReadAs(r), "add")
          = <<Word("/sbin/ip"), Word("route"), Word("add")>> \o RouteLine(r)
    BY <2>2, <2>3, <2>4, RouteIsWritten
  <2> QED BY <2>2, <2>5 DEF r
<1>6. /\ listed'.how = read.how /\ listed'.routes = read.routes /\ listed'.table = t
      /\ listed'.ran = (ran4 /\ ran6)
  BY <1>1
<1>7. \A a : Lost(a)' <=> Lost(a)
  BY <1>1 DEF Lost
<1>8. (listed.how = "ok" <=>
         listed.ran /\ \A r \in Range(listed.table) :
                         r.type = "" /\ \A u \in r.metric : u.num <= IntMax)'
  BY <1>3, <1>6 DEF CanBeRead
<1>9. ASSUME read.how = "ok"
      PROVE  (/\ listed.routes = [i \in DOMAIN listed.table |-> ReadAs(listed.table[i])]
              /\ kernel.up => \A a \in Range(ifAddrs.addrs) :
                   \/ Lost(a) \/ (a.kind = "v4" /\ a.prefix = Bits["v4"]) \/ a.prefix = 0
                   \/ \E r \in Range(listed.routes) :
                        r.dev = {Word("tun")} /\ Includes(r.dest, ParseAddress(ToS(a))))'
  BY <1>1, <1>3, <1>4, <1>6, <1>7, <1>9
<1> QED BY <1>5, <1>6, <1>8, <1>9 DEF RoutesReadBack
-----------------------------------------------------------------------------
(* The inductive invariant of what is read.                                *)
RoutesInv == IInv /\ AddrsAsAsked /\ RoutesReadBack

LEMMA InitRoutesInv == Init => RoutesInv
<1>1. Init => RoutesReadBack
  BY DEF Init, RoutesReadBack
<1> QED BY <1>1, InitInv, InitAddrs DEF RoutesInv

(* Once the routes are read the device is left alone.                      *)
LEMMA OtherRoutes ==
  ASSUME RoutesReadBack, UNCHANGED <<ifAddrs, lost, kernel, listed>>,
         phase' = "listed" => phase = "listed"
  PROVE  RoutesReadBack'
<1>1. CASE phase' # "listed"
  BY <1>1 DEF RoutesReadBack
<1>2. CASE phase' = "listed"
  <2>1. \A a : Lost(a)' <=> Lost(a)
    BY DEF Lost
  <2> QED BY <1>2, <2>1 DEF RoutesReadBack
<1> QED BY <1>1, <1>2

LEMMA StepRoutesInv == RoutesInv /\ [Next]_vars => RoutesInv'
<1> SUFFICES ASSUME RoutesInv, [Next]_vars PROVE RoutesInv'
  OBVIOUS
<1>1. IInv /\ AddrsAsAsked /\ RoutesReadBack /\ IInv'
  BY StepInv DEF RoutesInv
<1>2. ASSUME phase' # "listed" PROVE RoutesReadBack'
  BY <1>2 DEF RoutesReadBack
<1>3. ASSUME UNCHANGED <<os, ifAddrs, kernel, lost, cmds>>,
             phase' \in Configured => phase \in Configured
      PROVE  AddrsAsAsked'
  BY <1>1, <1>3, OtherAddrs
<1>4. ASSUME NEW val \in Requests, ActionInit(val) PROVE RoutesInv'
  <2>1. /\ phase' \notin Configured /\ UNCHANGED <<os, kernel, lost, cmds>>
    <3>1. phase' \in {"start", "refused", "throws"}
      <4>1. FromJson(val, NewIfAddrs).how \in {"ok", "refused", "throws"}
        BY DEF FromJson
      <4> QED BY <1>4, <4>1 DEF ActionInit
    <3> QED BY <1>4, <3>1 DEF ActionInit, Configured
  <2> QED BY <1>1, <1>2, <2>1 DEF AddrsAsAsked, Configured, RoutesInv
<1>5. CASE Start
  <2>1. /\ phase' \in {"failed", "echo", "alloc"}
        /\ UNCHANGED <<os, ifAddrs, kernel, lost, cmds>>
    BY <1>5 DEF Start
  <2> QED BY <1>1, <1>2, <1>3, <2>1 DEF Configured, RoutesInv
<1>6. ASSUME NEW ok \in BOOLEAN, TunAlloc(ok) PROVE RoutesInv'
  <2>1. phase' \in {"commands", "failed"}
    BY <1>6 DEF TunAlloc
  <2> QED BY <1>1, <1>2, <1>6, <2>1, TunAllocAddrs DEF RoutesInv
<1>7. ASSUME NEW ok \in BOOLEAN, RunCommand(ok) PROVE RoutesInv'
  <2>1. phase' = "commands"
    BY <1>7 DEF RunCommand
  <2> QED BY <1>1, <1>2, <1>7, <2>1, RunCommandAddrs DEF RoutesInv
<1>8. ASSUME NEW ok \in BOOLEAN, SetNonBlocking(ok) PROVE RoutesInv'
  <2>1. /\ phase = "commands" /\ phase' \in {"tun", "failed"}
        /\ UNCHANGED <<os, ifAddrs, kernel, lost, cmds>>
    BY <1>8 DEF SetNonBlocking
  <2> QED BY <1>1, <1>2, <1>3, <2>1 DEF Configured, RoutesInv
<1>9. ASSUME UNCHANGED <<os, phase, ifAddrs, kernel, lost, cmds, listed>>
      PROVE  RoutesInv'
  BY <1>1, <1>3, <1>9, OtherRoutes DEF RoutesInv
<1>10. ASSUME NEW version \in Versions, NEW len \in 1..kernel.mtu, NEW i \in Slots,
              KernelPacket(version, len, i)
       PROVE  RoutesInv'
  BY <1>9, <1>10 DEF KernelPacket
<1>11. ASSUME NEW message \in Messages, NEW i \in Slots, ClientPacket(message, i)
       PROVE  RoutesInv'
  BY <1>9, <1>11 DEF ClientPacket
<1>12. CASE Freed
  <2>1. UNCHANGED <<os, phase, ifAddrs, kernel, lost, cmds, listed>>
    BY <1>12 DEF Freed
  <2> QED BY <1>9, <2>1
<1>13. ASSUME NEW host \in HostRoutes, NEW ran4 \in BOOLEAN, NEW ran6 \in BOOLEAN,
              ReadRoutes(host, ran4, ran6)
       PROVE  RoutesInv'
  <2>1. phase = "tun" /\ UNCHANGED <<os, ifAddrs, kernel, lost, cmds>>
    BY <1>13 DEF ReadRoutes
  <2> QED BY <1>1, <1>3, <1>13, <2>1, ReadRoutesReadsBack DEF Configured, RoutesInv
<1>14. CASE UNCHANGED vars
  <2>1. UNCHANGED <<os, phase, ifAddrs, kernel, lost, cmds, listed>>
    BY <1>14 DEF vars
  <2> QED BY <1>9, <2>1
<1> QED BY <1>4, <1>5, <1>6, <1>7, <1>8, <1>10, <1>11, <1>12, <1>13, <1>14 DEF Next

(* read() finds the routes of the host and of the tun, each as ip has it,  *)
(* unless ip failed, a route has a type or its metric is no int; the       *)
(* networks of the addresses that are set are among them, and a route of   *)
(* v4 is written as it was read (linux_ip_route.hpp:21-160).               *)
THEOREM RoutesAreReadBack == Spec => []RoutesReadBack
<1>1. RoutesInv => RoutesReadBack
  BY DEF RoutesInv
<1> QED BY <1>1, InitRoutesInv, StepRoutesInv, PTL DEF Spec
=============================================================================
