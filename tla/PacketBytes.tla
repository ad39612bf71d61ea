---------------------------- MODULE PacketBytes ----------------------------
(***************************************************************************)
(* The sizes and bytes of packets on their way between the websocket and   *)
(* the tun, where src/ computes with them: TunaTor::args() (tunator.hpp),  *)
(* PacketBuffer (packet_buffer.hpp), WsPacket (ws_packet.hpp), and the     *)
(* header that tun_read() and tun_write() put before a packet              *)
(* (tun_device.cpp).                                                       *)
(***************************************************************************)
EXTENDS IfAddrs, SequencesExt

CONSTANTS
  ShortMod,  \* the number of values of an unsigned short
  WordSize,  \* sizeof(size_t)
  Defaults   \* the options' values when none is given

Shorts == {"mtu", "qsize", "port"}
Sizes == {"threads", "statFrequence"}
Texts == {"address", "cert", "key"}

ASSUME BytesAssumption ==
  /\ ShortMod \in Nat \ {0}
  /\ WordSize \in Nat \ {0}
  /\ DOMAIN Defaults = Shorts \cup Sizes \cup Texts
  /\ \A name \in Shorts : Defaults[name] \in 0..ShortMod - 1
  /\ \A name \in Sizes : Defaults[name] \in 0..SizeMod - 1
-----------------------------------------------------------------------------
(* TunaTor::args(): the last of several options counts; getopt_long()      *)
(* answers '?' to an option it does not know.  An argument is what stoi()  *)
(* or the string is.                                                       *)
Argument(name, arg) ==
  IF name \in Shorts THEN arg % ShortMod
  ELSE IF name \in Sizes THEN AsSize(arg) ELSE arg

Args(argv) ==
  LET Given(name) == {i \in DOMAIN argv : argv[i].name = name}
  IN [name \in DOMAIN Defaults |->
       IF Given(name) = {} THEN Defaults[name]
       ELSE Argument(name, argv[Max(Given(name))].arg)]
-----------------------------------------------------------------------------
(* PacketBuffer: packet i of a queue has mtu bytes of the buffer from      *)
(* Offset(i, mtu) on.                                                      *)

(* Mutant: the mtu is rounded down to words.                               *)
PacketSize_Down(mtu) == (mtu \div WordSize) * WordSize

PacketSize(mtu) == (mtu \div WordSize + 1) * WordSize

Offset(i, mtu) == i * PacketSize(mtu)

BufferSize(mtu, size) == PacketSize(mtu) * size
-----------------------------------------------------------------------------
(* WsPacket: a message is a header of four bytes and a packet; a message   *)
(* of fewer bytes has no header.                                           *)
HeaderLen == 4

Header(message) == IF message.size < HeaderLen THEN "" ELSE message.header

PacketLen(message) == (message.size - HeaderLen) % SizeMod

CopyOut(message, lenDst) == Min({lenDst, PacketLen(message)})
-----------------------------------------------------------------------------
(* The tun's header: four chars, of which the kernel reads the packet's    *)
(* protocol (Linux) or address family (macOS).                             *)
TunHeaderSize == 4

TunHeader(os, version) ==
  LET zero == <<0, 0, 0, 0>>
  IN CASE version = "v4" /\ os = "linux" -> [zero EXCEPT ![3] = 8]
       [] version = "v6" /\ os = "linux" -> [zero EXCEPT ![3] = -122, ![4] = -35]
       [] version = "v4" /\ os = "macos" -> [zero EXCEPT ![4] = 2]
       [] version = "v6" /\ os = "macos" -> [zero EXCEPT ![4] = 30]
       [] OTHER -> zero

(* The kernel's side: an ethernet protocol, or an address family.          *)
KernelVersion(os, header) ==
  LET number == 256 * (header[3] % 256) + (header[4] % 256)
      v4 == IF os = "linux" THEN 2048 ELSE 2
      v6 == IF os = "linux" THEN 34525 ELSE 30
  IN IF number = v4 THEN "v4" ELSE IF number = v6 THEN "v6" ELSE "none"

(* readv() of a packet of len bytes fills the header, then lenDst bytes at *)
(* most; the kernel drops what is left.  The result is less the header.    *)
TunRead(len, lenDst) == (TunHeaderSize + Min({len, lenDst})) - TunHeaderSize
=============================================================================
