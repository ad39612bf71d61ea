------------------------------ MODULE IfAddrs ------------------------------
(***************************************************************************)
(* IfAddrs (src/if_addrs.hpp, if_addrs_linux.cpp, if_addrs_macos.cpp): the *)
(* addresses, routes and mtu that a client asks for, read from and written *)
(* to JSON, and the commands that configure a device with them.            *)
(*                                                                         *)
(* An address has a kind, the bits of its host and a prefix.  A text of an *)
(* address looks the same, but may be without a prefix; NoAddress is a     *)
(* text that is none.                                                      *)
(***************************************************************************)
EXTENDS Integers, Sequences, FiniteSetsExt

CONSTANTS
  Bits,       \* how many bits an address of each kind has
  IntMax,     \* the largest int, and
  SizeMod,    \* the number of values of a size_t
  DefaultMtu  \* the mtu of a new IfAddrs

ASSUME IfAddrsAssumption ==
  /\ "none" \notin DOMAIN Bits
  /\ Bits \in [DOMAIN Bits -> Nat]
  /\ IntMax \in Nat /\ SizeMod \in Nat /\ SizeMod > IntMax
  /\ DefaultMtu \in 0..IntMax

Kinds == DOMAIN Bits

NoPrefix == -1
NoAddress == [kind |-> "none", host |-> 0, prefix |-> 0]

IsAddress(a) == a # NoAddress

Address ==
  {a \in [kind : Kinds, host : Nat, prefix : Nat] : a.prefix <= Bits[a.kind]}

AddressText ==
  {NoAddress} \cup {a \in [kind : Kinds, host : Nat, prefix : Int] :
                     a.prefix \in NoPrefix..Bits[a.kind]}

(* IPAddress::parse(): a text without a prefix is a host's address.        *)
ParseAddress(text) ==
  IF IsAddress(text) /\ text.prefix = NoPrefix
  THEN [text EXCEPT !.prefix = Bits[text.kind]] ELSE text

(* IPAddress::to_s() leaves the prefix out, to_string() does not.          *)
ToS(a) == [a EXCEPT !.prefix = NoPrefix]

(* How many hosts the network of an address has: a power of two.           *)
NetworkSize(a) ==
  LET size[bits \in 0..Bits[a.kind] - a.prefix] ==
        IF bits = 0 THEN 1 ELSE 2 * size[bits - 1]
  IN size[Bits[a.kind] - a.prefix]

(* IPAddress::includes().                                                  *)
Includes(a, b) ==
  /\ a.kind = b.kind /\ a.prefix <= b.prefix
  /\ a.host \div NetworkSize(a) = b.host \div NetworkSize(a)

NewIfAddrs == [mtu |-> DefaultMtu, dests |-> <<>>, addrs |-> <<>>, routes |-> <<>>]

IsEcho(ifAddrs) == ifAddrs.addrs = <<>>
-----------------------------------------------------------------------------
(* RouteVia::create(), which only the tests call.                          *)
Creatable(dest, via) ==
  LET d == ParseAddress(dest)
      v == ParseAddress(via)
  IN IsAddress(d) /\ IsAddress(v) /\ v.kind = d.kind /\ v.prefix = Bits[v.kind]

ParseRoute(val) == [dest |-> ParseAddress(val.dest), via |-> ParseAddress(val.via)]

(* RouteVia::fromJson() and isValid() ask for no more than two addresses.  *)
IsRoute(route) == IsAddress(route.dest) /\ IsAddress(route.via)

(* The loops of fromJson(): what comes before the first bad item is kept.  *)
Items(items, bad) ==
  [ok |-> bad = {},
   items |-> IF bad = {} THEN items ELSE SubSeq(items, 1, Min(bad) - 1)]

Addresses(texts) ==
  LET items == [i \in DOMAIN texts |-> ParseAddress(texts[i])]
  IN Items(items, {i \in DOMAIN items : ~IsAddress(items[i])})

Routes(vals) ==
  LET items == [i \in DOMAIN vals |-> ParseRoute(vals[i])]
  IN Items(items, {i \in DOMAIN items : ~IsRoute(items[i])})

(* asInt() of a JSON number throws if it is no int.                        *)
FitsInt(n) == n \in -(IntMax + 1)..IntMax

(* Mutant: the number keeps its sign.                                      *)
AsSize_Signed(n) == n

(* The int becomes a size_t.                                               *)
AsSize(n) == n % SizeMod

(* fromJson(): into is what the object held before.  An mtu that is        *)
(* missing is the object's own, read back through the same asInt().        *)
FromJson(val, into) ==
  LET dests == Addresses(val.dests)
      addrs == Addresses(val.addrs)
      routes == Routes(val.routes)
      mtu == IF "mtu" \in DOMAIN val THEN val.mtu ELSE into.mtu
      withDests == [into EXCEPT !.dests = @ \o dests.items]
      withAddrs == [withDests EXCEPT !.mtu = AsSize(mtu), !.addrs = @ \o addrs.items]
      whole == [withAddrs EXCEPT !.routes = @ \o routes.items]
      Result(how, ifAddrs) == [how |-> how, ifAddrs |-> ifAddrs]
  IN IF ~dests.ok THEN Result("refused", withDests)
     ELSE IF ~FitsInt(mtu) THEN Result("throws", withDests)
     ELSE IF ~addrs.ok THEN Result("refused", withAddrs)
     ELSE IF ~routes.ok THEN Result("refused", whole)
     ELSE Result("ok", whole)

(* Mutant: the addresses lose theirs as well.                              *)
AsJson_ToS(ifAddrs) ==
  [ifAddrs EXCEPT !.addrs = [i \in DOMAIN @ |-> ToS(@[i])],
                  !.routes = [i \in DOMAIN @ |-> [dest |-> @[i].dest, via |-> ToS(@[i].via)]]]

(* asJson(): a gateway loses its prefix.                                   *)
AsJson(ifAddrs) ==
  [ifAddrs EXCEPT !.routes =
     [i \in DOMAIN @ |-> [dest |-> @[i].dest, via |-> ToS(@[i].via)]]]
-----------------------------------------------------------------------------
(* asCommands().                                                           *)

AddrCmd(a) == [do |-> "addr", addr |-> a]
RouteCmd(r) == [do |-> "route", dest |-> r.dest, via |-> ToS(r.via)]
UpCmd(mtu) == [do |-> "up", mtu |-> mtu]

RouteCmds(ifAddrs) ==
  [i \in DOMAIN ifAddrs.routes |-> RouteCmd(ifAddrs.routes[i])]

(* Mutant: the device goes up before it has its addresses.                 *)
LinuxCommands_UpFirst(ifAddrs) ==
  <<UpCmd(ifAddrs.mtu)>>
    \o [i \in DOMAIN ifAddrs.addrs |-> AddrCmd(ifAddrs.addrs[i])]
    \o RouteCmds(ifAddrs)

LinuxCommands(ifAddrs) ==
  [i \in DOMAIN ifAddrs.addrs |-> AddrCmd(ifAddrs.addrs[i])]
    \o RouteCmds(ifAddrs)
    \o <<UpCmd(ifAddrs.mtu)>>

(* On macOS an address is set once for each destination of its kind: to    *)
(* the destination, if it is in the address's network, or as an alias.     *)
MacCommand(dst, addr) ==
  IF Includes(addr, dst) THEN [do |-> "addrTo", addr |-> ToS(addr), to |-> ToS(dst)]
  ELSE AddrCmd(addr)

MacCommandsFor(dst, addrs) ==
  LET cmds[i \in 0..Len(addrs)] ==
        IF i = 0 THEN <<>>
        ELSE IF addrs[i].kind = dst.kind
        THEN Append(cmds[i - 1], MacCommand(dst, addrs[i])) ELSE cmds[i - 1]
  IN cmds[Len(addrs)]

MacAddrCommands(dests, addrs) ==
  LET cmds[i \in 0..Len(dests)] ==
        IF i = 0 THEN <<>> ELSE cmds[i - 1] \o MacCommandsFor(dests[i], addrs)
  IN cmds[Len(dests)]

MacCommands(ifAddrs) ==
  MacAddrCommands(ifAddrs.dests, ifAddrs.addrs)
    \o RouteCmds(ifAddrs)
    \o <<UpCmd(ifAddrs.mtu)>>
=============================================================================
