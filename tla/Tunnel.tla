------------------------------- MODULE Tunnel -------------------------------
(***************************************************************************)
(* One tunnel from the server's options to the packets' bytes: a client    *)
(* asks for addresses, routes and an mtu (actionInit() of tuna_server.hpp, *)
(* IfAddrs), start() of tun_device.hpp runs the commands that configure    *)
(* the tun, and packets pass the buffers of the two queues.  At the end    *)
(* LinuxIpRoute reads the host's routes, the tun's among them.             *)
(*                                                                         *)
(* The threads are left out here: TunDevice.tla shows how packets and the  *)
(* failures of a device pass between them.  The kernel is what a tun needs *)
(* of it: an address may be set on a device that is down, a route may not  *)
(* (macOS takes a device up with its first address), and a device that is  *)
(* up delivers packets of at most its mtu.                                 *)
(***************************************************************************)
EXTENDS LinuxIpRoute, PacketBytes, SequencesExt

CONSTANTS
  Requests,    \* what a client may send as the data of its init
  CommandLines,\* the command lines the server may be started with
  HostRoutes,  \* the other routes the host may have, a set of sets of them
  KernelMtu,   \* the mtu of a new tun
  TunMetric,   \* the metric the kernel gives a tun's networks of v6
  MaxLen       \* bound: the longest packet a client sends

(* An option with a number has one, and an init's data are texts.          *)
IsCommandLine(argv) ==
  /\ Len(argv) \in Nat /\ DOMAIN argv = 1..Len(argv)
  /\ \A i \in DOMAIN argv : argv[i].name \in Shorts \cup Sizes => argv[i].arg \in Int

IsRequest(val) ==
  /\ "mtu" \in DOMAIN val => val.mtu \in Int
  /\ val.dests \in Seq(AddressText) /\ val.addrs \in Seq(AddressText)
  /\ val.routes \in Seq([dest : AddressText, via : AddressText])

(* A route that ip prints has a dest and other fields of at most one token *)
(* each, the addresses without a prefix, and then flags that are no keys.  *)
IsHostRoute(r) ==
  /\ r.type # "default" /\ r.dest \in Address
  /\ \A key \in Keys : \A s, t \in r[key] : s = t
  /\ \A key \in AddressKeys : \A t \in r[key] :
       /\ t = Text(t.addr) /\ t.addr \in AddressText
       /\ IsAddress(t.addr) /\ t.addr.prefix = NoPrefix
  /\ \A t \in r.metric : t.num \in Nat
  /\ r.flags \in Seq(Range(r.flags)) /\ \A t \in Range(r.flags) : t.word \notin Keys

ASSUME TunnelAssumption ==
  /\ Kinds = {"v4", "v6"}
  /\ KernelMtu \in Nat /\ MaxLen \in Nat /\ TunMetric \in 0..IntMax
  /\ \A argv \in CommandLines : IsCommandLine(argv)
  /\ \A val \in Requests : IsRequest(val)
  /\ \A host \in HostRoutes : IsFiniteSet(host) /\ \A r \in host : IsHostRoute(r)

VARIABLES
  os,       \* the platform the server is built for
  options,  \* TunaTor's
  phase,    \* where the client's init is
  request,  \* what the client sent
  ifAddrs,  \* the device's
  cmds,     \* the commands that are still to be run
  lost,     \* the commands that failed
  kernel,   \* the tun in the kernel
  carried,  \* the last packet: how it was sent, kept in a slot, and received
  listed    \* what LinuxIpRoute::read() returned

vars == <<os, options, phase, request, ifAddrs, cmds, lost, kernel, carried, listed>>

Nothing == [from |-> "nobody"]
NoListing == [how |-> "none", routes |-> <<>>, table |-> <<>>, ran |-> FALSE]

Init ==
  /\ os \in {"linux", "macos"}
  /\ options \in {Args(argv) : argv \in CommandLines}
  /\ phase = "serving"
  /\ request = AsJson(NewIfAddrs) /\ ifAddrs = NewIfAddrs
  /\ cmds = <<>> /\ lost = {}
  /\ kernel = [mtu |-> KernelMtu, up |-> FALSE, addrs |-> {}, routes |-> {}]
  /\ carried = Nothing /\ listed = NoListing
-----------------------------------------------------------------------------
(* actionInit(): a request that fromJson() refuses gets no answer; one it  *)
(* throws at leaves the handler with the exception.                        *)
ActionInit(val) ==
  /\ phase = "serving"
  /\ request' = val
  /\ LET read == FromJson(val, NewIfAddrs)
     IN ifAddrs' = read.ifAddrs /\ phase' = IF read.how = "ok" THEN "start" ELSE read.how
  /\ UNCHANGED <<os, options, cmds, lost, kernel, carried, listed>>

(* Mutant: the mtu is not compared with the queues'.                       *)
Start_AnyMtu ==
  /\ phase = "start"
  /\ phase' = IF IsEcho(ifAddrs) THEN "echo" ELSE "alloc"
  /\ UNCHANGED <<os, options, request, ifAddrs, cmds, lost, kernel, carried, listed>>

(* start() of the new device.                                              *)
Start ==
  /\ phase = "start"
  /\ phase' = IF ifAddrs.mtu > options.mtu THEN "failed"
              ELSE IF IsEcho(ifAddrs) THEN "echo" ELSE "alloc"
  /\ UNCHANGED <<os, options, request, ifAddrs, cmds, lost, kernel, carried, listed>>

TunAlloc(ok) ==
  /\ phase = "alloc"
  /\ phase' = IF ok THEN "commands" ELSE "failed"
  /\ cmds' = IF ~ok THEN <<>>
             ELSE IF os = "linux" THEN LinuxCommands(ifAddrs) ELSE MacCommands(ifAddrs)
  /\ UNCHANGED <<os, options, request, ifAddrs, lost, kernel, carried, listed>>

(* The kernel's part of a command.                                         *)
Allowed(cmd) == cmd.do = "route" => kernel.up

Configure(cmd) ==
  CASE cmd.do \in {"addr", "addrTo"} ->
         [kernel EXCEPT !.addrs = @ \cup {ParseAddress(cmd.addr)},
                        !.up = @ \/ os = "macos"]
    [] cmd.do = "route" -> [kernel EXCEPT !.routes = @ \cup {cmd}]
    [] cmd.do = "up"    -> [kernel EXCEPT !.mtu = cmd.mtu, !.up = TRUE]

(* Each command is run; nobody looks at its result.                        *)
RunCommand(ok) ==
  /\ phase = "commands" /\ cmds # <<>>
  /\ IF ok /\ Allowed(Head(cmds))
     THEN kernel' = Configure(Head(cmds)) /\ UNCHANGED lost
     ELSE lost' = lost \cup {Head(cmds)} /\ UNCHANGED kernel
  /\ cmds' = Tail(cmds)
  /\ UNCHANGED <<os, options, phase, request, ifAddrs, carried, listed>>

(* fcntl(), then the threads.                                              *)
SetNonBlocking(ok) ==
  /\ phase = "commands" /\ cmds = <<>>
  /\ phase' = IF ok THEN "tun" ELSE "failed"
  /\ UNCHANGED <<os, options, request, ifAddrs, cmds, lost, kernel, carried, listed>>
-----------------------------------------------------------------------------
(* Packets, one at a time.  A queue of no packets carries none.            *)
Slots == 0..options.qsize - 1

Packet(version, len) == [version |-> version, len |-> len]

(* The kernel sends a packet through the tun, and the recv thread sends    *)
(* what was read to the client.                                            *)
KernelPacket(version, len, i) ==
  /\ phase = "tun" /\ carried = Nothing
  /\ kernel.up /\ len \in 1..kernel.mtu
  /\ i \in Slots
  /\ carried' = [from |-> "tun", sent |-> Packet(version, len), slot |-> i,
                 got |-> Packet(version, TunRead(len, options.mtu))]
  /\ UNCHANGED <<os, options, phase, request, ifAddrs, cmds, lost, kernel, listed>>

(* processPacket(), then the toTun thread: tun_write(), or the echo.  An   *)
(* empty packet fails push()'s action; any message with a header of no     *)
(* kind that the server knows is passed over.                              *)
ClientPacket(message, i) ==
  /\ phase \in {"tun", "echo"} /\ carried = Nothing
  /\ i \in Slots
  /\ Header(message) = "PAKT"
  /\ LET len == CopyOut(message, options.mtu)
         version == IF phase = "echo" THEN message.version
                    ELSE KernelVersion(os, TunHeader(os, message.version))
     IN carried' =
          IF len = 0 THEN Nothing
          ELSE [from |-> "client", slot |-> i, got |-> Packet(version, len),
                sent |-> Packet(message.version, PacketLen(message))]
  /\ UNCHANGED <<os, options, phase, request, ifAddrs, cmds, lost, kernel, listed>>

(* pop() has run its action, and the packet's slot is free.                *)
Freed ==
  /\ carried # Nothing /\ carried' = Nothing
  /\ UNCHANGED <<os, options, phase, request, ifAddrs, cmds, lost, kernel, listed>>
-----------------------------------------------------------------------------
(* The host's routes, as `ip route list` prints them: the ones it has, and *)
(* one for the network of each address of a tun that is up.                *)
NetworkOf(a) == [a EXCEPT !.host = (@ \div NetworkSize(a)) * NetworkSize(a)]

TunRoute(a) ==
  [type |-> "", dest |-> NetworkOf(a), via |-> {}, dev |-> {Word("tun")},
   proto |-> {Word("kernel")},
   scope |-> IF a.kind = "v4" THEN {Word("link")} ELSE {},
   src |-> IF a.kind = "v4" THEN {Text(ToS(a))} ELSE {},
   metric |-> IF a.kind = "v4" THEN {} ELSE {Number(TunMetric)},
   flags |-> <<>>]

TunRoutes ==
  IF ~kernel.up THEN {}
  ELSE {TunRoute(a) :
        a \in {b \in kernel.addrs : b.kind = "v6" \/ b.prefix < Bits[b.kind]}}

DestToken(dest) ==
  IF dest.prefix = 0 THEN Word("default")
  ELSE Text(IF dest.prefix = Bits[dest.kind] THEN ToS(dest) ELSE dest)

RouteLine(r) ==
  (IF r.type = "" THEN <<>> ELSE <<Word(r.type)>>)
    \o <<DestToken(r.dest)>> \o Fields(r) \o r.flags
    \o (IF r.dest.kind = "v6" THEN <<Word("pref"), Word("medium")>> ELSE <<>>)

Listing(routes) == [i \in DOMAIN routes |-> RouteLine(routes[i])]

HostTable(host, kind) ==
  SetToSeq({r \in host \cup TunRoutes : r.dest.kind = kind})

(* LinuxIpRoute::read(); either run of ip may fail.                        *)
ReadRoutes(host, ran4, ran6) ==
  /\ phase = "tun" /\ os = "linux" /\ carried = Nothing
  /\ phase' = "listed"
  /\ LET v4 == HostTable(host, "v4")
         v6 == HostTable(host, "v6")
         read == Read(ran4, Listing(v4), ran6, Listing(v6))
     IN listed' = [how |-> read.how, routes |-> read.routes,
                   table |-> v4 \o v6, ran |-> ran4 /\ ran6]
  /\ UNCHANGED <<os, options, request, ifAddrs, cmds, lost, kernel, carried>>
-----------------------------------------------------------------------------
Versions == {"v4", "v6", "other"}

Messages == [size : 0..MaxLen + HeaderLen, header : {"PAKT", "BUFF"},
             version : Versions]

Next ==
  \/ \E val \in Requests : ActionInit(val)
  \/ Start
  \/ \E ok \in BOOLEAN : TunAlloc(ok) \/ RunCommand(ok) \/ SetNonBlocking(ok)
  \/ \E version \in Versions, len \in 1..kernel.mtu, i \in Slots :
       KernelPacket(version, len, i)
  \/ \E message \in Messages, i \in Slots : ClientPacket(message, i)
  \/ Freed
  \/ \E host \in HostRoutes, ran4, ran6 \in BOOLEAN : ReadRoutes(host, ran4, ran6)

Spec == Init /\ [][Next]_vars
-----------------------------------------------------------------------------
(* Properties.                                                             *)

Begun == {"start", "alloc", "failed", "commands", "echo", "tun", "listed"}

(* Every variable keeps its type, and the options their width, whatever    *)
(* the command line says (tunator.hpp:62-119).                             *)
TypeOK ==
  /\ os \in {"linux", "macos"}
  /\ options.mtu \in 0..ShortMod - 1 /\ options.qsize \in 0..ShortMod - 1
  /\ phase \in Begun \cup {"serving", "refused", "throws"}
  /\ ifAddrs.mtu \in 0..SizeMod - 1
  /\ \A a \in Range(ifAddrs.addrs) \cup Range(ifAddrs.dests) \cup kernel.addrs :
       a.kind \in Kinds /\ a.prefix \in 0..Bits[a.kind]
  /\ kernel.up \in BOOLEAN /\ kernel.mtu \in Nat
  /\ phase \notin {"commands", "failed"} => cmds = <<>>

(* A packet that is read from the tun, taken from a message or echoed is   *)
(* written within its own slot of the queue's buffer, whatever mtu the     *)
(* server, the client and the kernel have (packet_buffer.hpp:14-28,        *)
(* ws_packet.hpp:30-38, tun_device.cpp:135-155, tun_device.hpp:126).       *)
InsideSlot ==
  carried # Nothing =>
    LET end == Offset(carried.slot, options.mtu) + carried.got.len
    IN /\ end <= Offset(carried.slot + 1, options.mtu)
       /\ end <= BufferSize(options.mtu, options.qsize)

(* A packet keeps its version and its length.  A client's packet is cut    *)
(* only if it is longer than the server's mtu; one from the tun never is   *)
(* on Linux, and on macOS only when the command that sets the mtu failed   *)
(* on a device that was up already (tun_device.hpp:51-53, 207-225).        *)
PacketsWhole ==
  /\ carried # Nothing /\ carried.got # carried.sent =>
       \/ carried.sent.version = "other"
       \/ /\ carried.from = "client"
          /\ carried.sent.len > options.mtu
          /\ carried.got = [carried.sent EXCEPT !.len = options.mtu]
       \/ /\ carried.from = "tun" /\ os = "macos"
          /\ UpCmd(ifAddrs.mtu) \in lost
  /\ phase = "tun" /\ kernel.up /\ os = "linux" => kernel.mtu <= options.mtu

IsSet(a) == \E b \in kernel.addrs : b.kind = a.kind /\ b.host = a.host
Lost(a) == \E c \in lost :
  c.do \in {"addr", "addrTo"} /\ c.addr.kind = a.kind /\ c.addr.host = a.host

(* When the device carries packets every address the client asked for is   *)
(* set, or its command failed, or, on macOS, the client named no           *)
(* destination of its kind; a route is set, or its command failed.  On     *)
(* Linux no route is ever set: the commands for them come before the one   *)
(* that takes the device up.  A route that create() would have refused is  *)
(* one whose gateway is of the other kind (if_addrs_linux.cpp:8-21,        *)
(* if_addrs_macos.cpp:6-37, if_addrs.hpp:35-72).                           *)
ConfiguredAsAsked ==
  phase = "tun" =>
    /\ \A a \in Range(ifAddrs.addrs) :
         \/ IsSet(a) \/ Lost(a)
         \/ os = "macos" /\ \A d \in Range(ifAddrs.dests) : d.kind # a.kind
    /\ \A r \in Range(RouteCmds(ifAddrs)) :
         /\ r \in kernel.routes \cup lost
         /\ Creatable(r.dest, r.via) \/ r.dest.kind # r.via.kind
    /\ os = "linux" => kernel.routes = {}

(* The client reads from a report the addresses, routes and mtu of its     *)
(* device as the server has them, and would write them again just so; an   *)
(* mtu that was negative cannot be read back (if_addrs.hpp:120-182,        *)
(* test/if_addrs_test.cpp:105-121).                                        *)
ReportReadBack ==
  phase \in Begun =>
    LET read == FromJson(AsJson(ifAddrs), NewIfAddrs)
    IN IF ifAddrs.mtu > IntMax THEN read.how = "throws"
       ELSE /\ read.how = "ok"
            /\ AsJson(read.ifAddrs) = AsJson(ifAddrs)
            /\ [read.ifAddrs EXCEPT !.routes = <<>>] = [ifAddrs EXCEPT !.routes = <<>>]

(* What a route of the kernel's is when it is read: a default route of v6  *)
(* becomes one of v4.                                                      *)
ReadAs(r) ==
  [dest |-> IF r.dest.prefix = 0 THEN ZeroV4 ELSE r.dest,
   via |-> {Text(ParseAddress(t.addr)) : t \in r.via},
   dev |-> r.dev, proto |-> r.proto, scope |-> r.scope,
   src |-> {Text(ParseAddress(t.addr)) : t \in r.src}, metric |-> r.metric]

(* read() finds the routes of the host and the tun, each with all it has,  *)
(* the flags and the keys it does not know passed over, unless ip failed,  *)
(* a route is of a type that ip names first, or has a metric beyond an     *)
(* int, which a kernel's may be.  The network of every address that is set *)
(* on the tun is among them; and a route of v4 that has no flags is        *)
(* written as it was read, but for the prefix of a host                    *)
(* (linux_ip_route.hpp:21-160, test/linux_ip_route_test.cpp:9-29).         *)
RoutesReadBack ==
  phase = "listed" =>
    /\ listed.how = "ok" <=>
         listed.ran /\ \A r \in Range(listed.table) :
                         r.type = "" /\ \A t \in r.metric : t.num <= IntMax
    /\ listed.how = "ok" =>
         /\ listed.routes = [i \in DOMAIN listed.table |-> ReadAs(listed.table[i])]
         /\ kernel.up => \A a \in Range(ifAddrs.addrs) :
              \/ Lost(a) \/ (a.kind = "v4" /\ a.prefix = Bits["v4"]) \/ a.prefix = 0
              \/ \E r \in Range(listed.routes) :
                   r.dev = {Word("tun")} /\ Includes(r.dest, ParseAddress(ToS(a)))
         /\ \A i \in DOMAIN listed.table :
              LET r == listed.table[i]
              IN r.dest.kind = "v4" /\ r.flags = <<>> /\ r.dest.prefix < Bits["v4"] =>
                   Command(listed.routes[i], "add")
                     = <<Word("/sbin/ip"), Word("route"), Word("add")>> \o RouteLine(r)
=============================================================================
