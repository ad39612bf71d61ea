--------------------------- MODULE IfAddrsProofs ---------------------------
(***************************************************************************)
(* What the functions of IfAddrs and LinuxIpRoute return, for addresses of *)
(* any size, and requests and lines of any length.                         *)
(***************************************************************************)
EXTENDS LinuxIpRoute, Induction, SequenceTheorems

Route == [dest : Address, via : Address]
RouteText == [dest : AddressText, via : AddressText]

IfAddrsOf(sizes) ==
  [mtu : sizes, dests : Seq(Address), addrs : Seq(Address), routes : Seq(Route)]
-----------------------------------------------------------------------------
(* Addresses and their texts.                                              *)

LEMMA AddressIsText ==
  ASSUME NEW a \in Address
  PROVE  /\ IsAddress(a) /\ a \in AddressText /\ a.kind \in Kinds
         /\ a.prefix \in 0..Bits[a.kind] /\ Bits[a.kind] \in Nat /\ a.host \in Nat
         /\ a = [kind |-> a.kind, host |-> a.host, prefix |-> a.prefix]
BY IfAddrsAssumption DEF Address, AddressText, IsAddress, NoAddress, Kinds, NoPrefix

LEMMA ParsedText ==
  ASSUME NEW t \in AddressText, t # NoAddress
  PROVE  /\ ParseAddress(t) \in Address
         /\ ParseAddress(t).kind = t.kind /\ ParseAddress(t).host = t.host
BY IfAddrsAssumption DEF Address, AddressText, ParseAddress, IsAddress, Kinds, NoPrefix

LEMMA ParsedNone == ParseAddress(NoAddress) = NoAddress
BY DEF ParseAddress, IsAddress

LEMMA ParsedAddress ==
  ASSUME NEW a \in Address
  PROVE  ParseAddress(a) = a
BY AddressIsText DEF ParseAddress, NoPrefix

(* A text without its prefix is read as the address of the host.           *)
LEMMA ParsedHost ==
  ASSUME NEW a \in Address
  PROVE  /\ ToS(a) \in AddressText /\ ToS(a) # NoAddress
         /\ ToS(a).kind = a.kind /\ ToS(a).host = a.host
         /\ ParseAddress(ToS(a)) \in Address
         /\ ParseAddress(ToS(a)) = [a EXCEPT !.prefix = Bits[a.kind]]
         /\ ToS(ParseAddress(ToS(a))) = ToS(a)
<1>1. /\ ToS(a) = [kind |-> a.kind, host |-> a.host, prefix |-> NoPrefix]
      /\ [a EXCEPT !.prefix = Bits[a.kind]]
           = [kind |-> a.kind, host |-> a.host, prefix |-> Bits[a.kind]]
  BY AddressIsText DEF ToS
<1>2. ToS(a) # NoAddress
  BY <1>1 DEF NoAddress, NoPrefix
<1>3. ToS(a) \in AddressText
  BY <1>1, AddressIsText DEF AddressText, NoPrefix
<1>4. ParseAddress(ToS(a)) = [kind |-> a.kind, host |-> a.host, prefix |-> Bits[a.kind]]
  BY <1>1, <1>2 DEF ParseAddress, IsAddress
<1>5. ToS(ParseAddress(ToS(a))) = ToS(a)
  BY <1>1, <1>4 DEF ToS
<1> QED BY <1>1, <1>2, <1>3, <1>4, <1>5, ParsedText
-----------------------------------------------------------------------------
(* What comes before the first bad item has none.                          *)
AllBut(items, n, bad, S) ==
  /\ n \in Nat
  /\ items = [i \in 1..n |-> items[i]]
  /\ bad \in SUBSET (1..n)
  /\ \A i \in (1..n) \ bad : items[i] \in S

LEMMA ItemsAreGood ==
  ASSUME NEW S, NEW n, NEW items, NEW bad, AllBut(items, n, bad, S)
  PROVE  /\ Items(items, bad).items \in Seq(S)
         /\ Items(items, bad).ok <=> bad = {}
         /\ bad = {} => Items(items, bad).items = items
<1> USE DEF AllBut
<1>1. CASE bad = {}
  <2>1. items \in [1..n -> S]
    BY <1>1
  <2>2. items \in Seq(S)
    BY <2>1, SeqDef
  <2> QED BY <1>1, <2>2 DEF Items
<1>2. CASE bad # {}
  <2>1. \E x \in bad : \A y \in bad : x =< y
    <3>1. bad \in SUBSET Nat
      OBVIOUS
    <3> QED BY <1>2, <3>1, LeastExists
  <2> DEFINE m == Min(bad)
  <2>2. m \in bad /\ \A y \in bad : m =< y
    BY <2>1 DEF Min
  <2>3. m \in 1..n
    BY <2>2
  <2> HIDE DEF m
  <2>4. \A i \in 1..m - 1 : items[i] \in S
    BY <2>2, <2>3
  <2>5. m - 1 \in Int /\ 1 \in Int
    BY <2>3
  <2>6. SubSeq(items, 1, m - 1) \in Seq(S)
    BY <2>4, <2>5, SubSeqProperties
  <2> QED BY <1>2, <2>6 DEF Items, m
<1> QED BY <1>1, <1>2

(* addDest(), addAddr() and addRoute() in fromJson()'s loops.              *)
LEMMA AddressesAreRead ==
  ASSUME NEW texts \in Seq(AddressText)
  PROVE  /\ Addresses(texts).items \in Seq(Address)
         /\ Addresses(texts).ok =>
              Addresses(texts).items = [i \in DOMAIN texts |-> ParseAddress(texts[i])]
         /\ texts \in Seq(Address) => Addresses(texts).ok /\ Addresses(texts).items = texts
<1> DEFINE n == Len(texts)
           items == [i \in 1..n |-> ParseAddress(texts[i])]
           bad == {i \in 1..n : ~IsAddress(items[i])}
<1>1. n \in Nat /\ DOMAIN texts = 1..n /\ \A i \in 1..n : texts[i] \in AddressText
  BY LenProperties, ElementOfSeq
<1>2. Addresses(texts) = Items(items, bad)
  BY <1>1 DEF Addresses
<1>3. \A i \in (1..n) \ bad : items[i] \in Address
  BY <1>1, ParsedText, ParsedNone DEF IsAddress
<1>4. items = [i \in 1..n |-> items[i]] /\ bad \in SUBSET (1..n)
  OBVIOUS
<1>5. ASSUME texts \in Seq(Address)
      PROVE  bad = {} /\ items = texts
  <2>1. \A i \in 1..n : texts[i] \in Address
    BY <1>5, ElementOfSeq
  <2>2. \A i \in 1..n : items[i] = texts[i] /\ IsAddress(items[i])
    BY <2>1, ParsedAddress, AddressIsText
  <2>3. texts = [i \in 1..n |-> texts[i]]
    BY LenProperties
  <2> QED BY <2>2, <2>3
<1> HIDE DEF items, bad
<1>6. /\ Items(items, bad).items \in Seq(Address)
      /\ Items(items, bad).ok <=> bad = {}
      /\ bad = {} => Items(items, bad).items = items
  <2>1. AllBut(items, n, bad, Address)
    BY <1>1, <1>3, <1>4 DEF AllBut
  <2> QED BY <2>1, ItemsAreGood
<1> QED BY <1>1, <1>2, <1>5, <1>6 DEF items

LEMMA RoutesAreRead ==
  ASSUME NEW vals \in Seq(RouteText)
  PROVE  /\ Routes(vals).items \in Seq(Route)
         /\ Routes(vals).ok => Routes(vals).items = [i \in DOMAIN vals |-> ParseRoute(vals[i])]
         /\ Routes(vals).ok <=> \A i \in DOMAIN vals : IsRoute(ParseRoute(vals[i]))
<1> DEFINE n == Len(vals)
           items == [i \in 1..n |-> ParseRoute(vals[i])]
           bad == {i \in 1..n : ~IsRoute(items[i])}
<1>1. n \in Nat /\ DOMAIN vals = 1..n /\ \A i \in 1..n : vals[i] \in RouteText
  BY LenProperties, ElementOfSeq
<1>2. Routes(vals) = Items(items, bad)
  BY <1>1 DEF Routes
<1>3. ASSUME NEW i \in (1..n) \ bad
      PROVE  items[i] \in Route
  <2>1. IsAddress(ParseAddress(vals[i].dest)) /\ IsAddress(ParseAddress(vals[i].via))
    BY DEF IsRoute, ParseRoute
  <2>2. vals[i].dest \in AddressText /\ vals[i].via \in AddressText
    BY <1>1 DEF RouteText
  <2>3. ParseAddress(vals[i].dest) \in Address /\ ParseAddress(vals[i].via) \in Address
    BY <2>1, <2>2, ParsedText, ParsedNone DEF IsAddress
  <2> QED BY <2>3 DEF ParseRoute, Route
<1>4. items = [i \in 1..n |-> items[i]] /\ bad \in SUBSET (1..n)
  OBVIOUS
<1>5. bad = {} <=> \A i \in 1..n : IsRoute(ParseRoute(vals[i]))
  <2>1. \A i \in 1..n : items[i] = ParseRoute(vals[i])
    OBVIOUS
  <2> HIDE DEF items
  <2> QED BY <2>1
<1> HIDE DEF items, bad
<1>6. /\ Items(items, bad).items \in Seq(Route)
      /\ Items(items, bad).ok <=> bad = {}
      /\ bad = {} => Items(items, bad).items = items
  <2>1. AllBut(items, n, bad, Route)
    BY <1>1, <1>3, <1>4 DEF AllBut
  <2> QED BY <2>1, ItemsAreGood
<1> QED BY <1>1, <1>2, <1>5, <1>6 DEF items
-----------------------------------------------------------------------------
(* fromJson() and asJson().                                                *)

Data(val) ==
  /\ "mtu" \in DOMAIN val => val.mtu \in Int
  /\ val.dests \in Seq(AddressText) /\ val.addrs \in Seq(AddressText)
  /\ val.routes \in Seq(RouteText)

LEMMA NumbersFit ==
  /\ \A n \in Int : AsSize(n) \in 0..SizeMod - 1
  /\ \A n \in 0..SizeMod - 1 : AsSize(n) = n
  /\ \A n \in 0..SizeMod - 1 : FitsInt(n) <=> n <= IntMax
BY IfAddrsAssumption DEF AsSize, FitsInt

LEMMA NewIsEmpty ==
  /\ NewIfAddrs \in IfAddrsOf(0..SizeMod - 1)
  /\ NewIfAddrs.dests = <<>> /\ NewIfAddrs.addrs = <<>> /\ NewIfAddrs.routes = <<>>
BY IfAddrsAssumption, EmptySeq DEF NewIfAddrs, IfAddrsOf

(* Whatever a client asks for, the device's data keep their type; a request*)
(* that is taken is kept in full.                                          *)
LEMMA FromJsonReads ==
  ASSUME NEW val, Data(val)
  PROVE  LET read == FromJson(val, NewIfAddrs)
         IN /\ read.how \in {"ok", "refused", "throws"}
            /\ read.ifAddrs \in IfAddrsOf(0..SizeMod - 1)
<1> DEFINE dests == Addresses(val.dests)
           addrs == Addresses(val.addrs)
           routes == Routes(val.routes)
           mtu == IF "mtu" \in DOMAIN val THEN val.mtu ELSE NewIfAddrs.mtu
<1>1. mtu \in Int /\ AsSize(mtu) \in 0..SizeMod - 1
  BY NewIsEmpty, NumbersFit DEF Data, IfAddrsOf
<1>2. dests.items \in Seq(Address) /\ addrs.items \in Seq(Address)
  BY AddressesAreRead DEF Data
<1>3. routes.items \in Seq(Route)
  BY RoutesAreRead DEF Data
<1> DEFINE withDests == [NewIfAddrs EXCEPT !.dests = @ \o dests.items]
           withAddrs == [withDests EXCEPT !.mtu = AsSize(mtu), !.addrs = @ \o addrs.items]
           whole == [withAddrs EXCEPT !.routes = @ \o routes.items]
<1>4. /\ NewIfAddrs.dests \o dests.items = dests.items
      /\ NewIfAddrs.addrs \o addrs.items = addrs.items
      /\ NewIfAddrs.routes \o routes.items = routes.items
  BY <1>2, <1>3, NewIsEmpty, ConcatEmptySeq
<1> HIDE DEF dests, addrs, routes, mtu
<1>5. /\ withDests \in IfAddrsOf(0..SizeMod - 1)
      /\ withAddrs \in IfAddrsOf(0..SizeMod - 1)
      /\ whole \in IfAddrsOf(0..SizeMod - 1)
  BY <1>1, <1>2, <1>3, <1>4, NewIsEmpty DEF IfAddrsOf
<1> HIDE DEF withDests, withAddrs, whole
<1>6. \/ FromJson(val, NewIfAddrs).how \in {"refused", "throws"}
         /\ FromJson(val, NewIfAddrs).ifAddrs \in {withDests, withAddrs, whole}
      \/ FromJson(val, NewIfAddrs).how = "ok" /\ FromJson(val, NewIfAddrs).ifAddrs = whole
  BY DEF FromJson, withDests, withAddrs, whole, dests, addrs, routes, mtu
<1> QED BY <1>5, <1>6

(* A report is read back as what it shows, and shown as it was.            *)
LEMMA ReportIsRead ==
  ASSUME NEW x \in IfAddrsOf(0..SizeMod - 1)
  PROVE  LET read == FromJson(AsJson(x), NewIfAddrs)
         IN IF x.mtu > IntMax THEN read.how = "throws"
            ELSE /\ read.how = "ok"
                 /\ AsJson(read.ifAddrs) = AsJson(x)
                 /\ [read.ifAddrs EXCEPT !.routes = <<>>] = [x EXCEPT !.routes = <<>>]
<1> DEFINE n == Len(x.routes)
           shown == [i \in 1..n |-> [dest |-> x.routes[i].dest, via |-> ToS(x.routes[i].via)]]
           val == AsJson(x)
           dests == Addresses(val.dests)
           addrs == Addresses(val.addrs)
           routes == Routes(val.routes)
<1>1. /\ x.mtu \in 0..SizeMod - 1
      /\ x.dests \in Seq(Address) /\ x.addrs \in Seq(Address) /\ x.routes \in Seq(Route)
      /\ x = [mtu |-> x.mtu, dests |-> x.dests, addrs |-> x.addrs, routes |-> x.routes]
  BY DEF IfAddrsOf
<1>2. n \in Nat /\ DOMAIN x.routes = 1..n /\ \A i \in 1..n : x.routes[i] \in Route
  BY <1>1, LenProperties, ElementOfSeq
<1>3. shown = [i \in DOMAIN x.routes |-> [dest |-> x.routes[i].dest, via |-> ToS(x.routes[i].via)]]
  BY <1>2
<1>4. \A i \in 1..n : /\ shown[i] = [dest |-> x.routes[i].dest, via |-> ToS(x.routes[i].via)]
                     /\ x.routes[i].dest \in Address /\ x.routes[i].via \in Address
  BY <1>2 DEF Route
<1>5. DOMAIN shown = 1..n
  OBVIOUS
<1>6. shown \in Seq(RouteText)
  <2>1. \A i \in 1..n : shown[i] \in RouteText
    <3> SUFFICES ASSUME NEW i \in 1..n
                 PROVE  shown[i] \in RouteText
      OBVIOUS
    <3>1. x.routes[i].dest \in AddressText /\ ToS(x.routes[i].via) \in AddressText
      BY <1>4, AddressIsText, ParsedHost
    <3>2. shown[i] = [dest |-> x.routes[i].dest, via |-> ToS(x.routes[i].via)]
      BY <1>4
    <3> HIDE DEF shown
    <3> QED BY <3>1, <3>2 DEF RouteText
  <2>2. shown \in [1..n -> RouteText]
    BY <2>1
  <2> HIDE DEF shown, n
  <2> QED BY <1>2, <2>2, SeqDef
<1> HIDE DEF shown, n
<1>7. val = [mtu |-> x.mtu, dests |-> x.dests, addrs |-> x.addrs, routes |-> shown]
  <2>1. AsJson(x) = [x EXCEPT !.routes = shown]
    BY <1>3 DEF AsJson
  <2> QED BY <1>1, <2>1
<1>8. /\ "mtu" \in DOMAIN val /\ val.mtu = x.mtu
      /\ val.dests = x.dests /\ val.addrs = x.addrs /\ val.routes = shown
  <2> HIDE DEF val
  <2> QED BY <1>7
<1> HIDE DEF val
<1>9. x.dests \in Seq(AddressText) /\ x.addrs \in Seq(AddressText)
  <2>1. Address \subseteq AddressText
    BY AddressIsText
  <2> QED BY <1>1, <2>1, SeqMonotonic
<1>10. dests.ok /\ dests.items = x.dests /\ addrs.ok /\ addrs.items = x.addrs
  BY <1>1, <1>8, <1>9, AddressesAreRead
<1>11. \A i \in 1..n :
        /\ ParseRoute(shown[i])
             = [dest |-> x.routes[i].dest, via |-> ParseAddress(ToS(x.routes[i].via))]
        /\ IsRoute(ParseRoute(shown[i]))
  <2> SUFFICES ASSUME NEW i \in 1..n
               PROVE  /\ ParseRoute(shown[i])
                            = [dest |-> x.routes[i].dest, via |-> ParseAddress(ToS(x.routes[i].via))]
                      /\ IsRoute(ParseRoute(shown[i]))
    OBVIOUS
  <2>1. ParseAddress(x.routes[i].dest) = x.routes[i].dest /\ IsAddress(x.routes[i].dest)
    BY <1>4, ParsedAddress, AddressIsText
  <2>2. IsAddress(ParseAddress(ToS(x.routes[i].via)))
    BY <1>4, ParsedHost, AddressIsText
  <2>3. ParseRoute(shown[i])
          = [dest |-> x.routes[i].dest, via |-> ParseAddress(ToS(x.routes[i].via))]
    <3>1. shown[i] = [dest |-> x.routes[i].dest, via |-> ToS(x.routes[i].via)]
      BY <1>4
    <3>2. shown[i].dest = x.routes[i].dest /\ shown[i].via = ToS(x.routes[i].via)
      BY <3>1
    <3> QED BY <2>1, <3>2 DEF ParseRoute
  <2> HIDE DEF val
  <2>4. /\ ParseRoute(shown[i]).dest = x.routes[i].dest
        /\ ParseRoute(shown[i]).via = ParseAddress(ToS(x.routes[i].via))
    BY <2>3
  <2> QED BY <2>1, <2>2, <2>3, <2>4 DEF IsRoute
<1>12. /\ routes.ok /\ routes.items \in Seq(Route)
       /\ routes.items = [i \in 1..n |-> [dest |-> x.routes[i].dest,
                                       via |-> ParseAddress(ToS(x.routes[i].via))]]
  <2>1. /\ routes.ok /\ routes.items \in Seq(Route)
        /\ routes.items = [i \in 1..n |-> ParseRoute(shown[i])]
    BY <1>5, <1>6, <1>8, <1>11, RoutesAreRead
  <2> HIDE DEF routes
  <2> QED BY <1>11, <2>1
<1> HIDE DEF dests, addrs, routes
<1>13. FitsInt(x.mtu) <=> ~(x.mtu > IntMax)
  BY <1>1, NumbersFit, IfAddrsAssumption
<1>14. CASE x.mtu > IntMax
  <2>1. FromJson(val, NewIfAddrs).how = "throws"
    BY <1>8, <1>10, <1>13, <1>14 DEF FromJson, dests
  <2> QED BY <1>14, <2>1 DEF val
<1>15. CASE ~(x.mtu > IntMax)
  <2> DEFINE got == [mtu |-> x.mtu, dests |-> x.dests, addrs |-> x.addrs,
                     routes |-> routes.items]
  <2>1. AsSize(x.mtu) = x.mtu
    BY <1>1, NumbersFit
  <2>2. FromJson(val, NewIfAddrs) = [how |-> "ok", ifAddrs |-> got]
    <3>1. /\ Addresses(val.dests).ok /\ Addresses(val.dests).items = x.dests
          /\ Addresses(val.addrs).ok /\ Addresses(val.addrs).items = x.addrs
          /\ Routes(val.routes).ok /\ Routes(val.routes).items = routes.items
      BY <1>10, <1>12 DEF dests, addrs, routes
    <3>2. /\ <<>> \o x.dests = x.dests /\ <<>> \o x.addrs = x.addrs
          /\ <<>> \o routes.items = routes.items
      BY <1>1, <1>12, ConcatEmptySeq
    <3> QED BY <1>8, <1>13, <1>15, <2>1, <3>1, <3>2 DEF FromJson, NewIfAddrs
  <2>3. AsJson(got) = AsJson(x)
    <3>1. \A i \in 1..n : ToS(ParseAddress(ToS(x.routes[i].via))) = ToS(x.routes[i].via)
      BY <1>4, ParsedHost
    <3>2. [i \in 1..n |-> [dest |-> routes.items[i].dest, via |-> ToS(routes.items[i].via)]]
            = shown
      BY <1>12, <3>1 DEF shown
    <3>3. AsJson(got) = [got EXCEPT !.routes =
            [i \in 1..n |-> [dest |-> routes.items[i].dest, via |-> ToS(routes.items[i].via)]]]
      BY <1>12 DEF AsJson
    <3> QED BY <1>7, <3>2, <3>3 DEF val
  <2>4. [got EXCEPT !.routes = <<>>] = [x EXCEPT !.routes = <<>>]
    BY <1>1
  <2> HIDE DEF got
  <2> QED BY <1>15, <2>2, <2>3, <2>4 DEF val
<1> QED BY <1>14, <1>15
-----------------------------------------------------------------------------
(* asCommands().                                                           *)

HostText == AddressText \ {NoAddress}

AddrCommand == [do : {"addr"}, addr : HostText]
                 \cup [do : {"addrTo"}, addr : HostText, to : HostText]
RouteCommand == [do : {"route"}, dest : Address, via : HostText]
UpCommand == [do : {"up"}, mtu : Nat]
AnyCommand == AddrCommand \cup RouteCommand \cup UpCommand

(* A command that sets an address, with whatever prefix.                   *)
Sets(c, a) == c \in AddrCommand /\ c.addr.kind = a.kind /\ c.addr.host = a.host

LEMMA AddrCommandSets ==
  ASSUME NEW a \in Address
  PROVE  AddrCmd(a) \in AddrCommand /\ Sets(AddrCmd(a), a)
<1>1. a \in HostText
  BY AddressIsText DEF HostText, IsAddress
<1> QED BY <1>1 DEF AddrCmd, AddrCommand, Sets

LEMMA MacCommandSets ==
  ASSUME NEW a \in Address, NEW dst \in Address
  PROVE  MacCommand(dst, a) \in AddrCommand /\ Sets(MacCommand(dst, a), a)
<1>1. ToS(a) \in HostText /\ ToS(dst) \in HostText
  BY ParsedHost DEF HostText
<1>2. ToS(a).kind = a.kind /\ ToS(a).host = a.host
  BY ParsedHost
<1>3. CASE Includes(a, dst)
  <2>1. MacCommand(dst, a) = [do |-> "addrTo", addr |-> ToS(a), to |-> ToS(dst)]
    BY <1>3 DEF MacCommand
  <2> QED BY <1>1, <1>2, <2>1 DEF AddrCommand, Sets
<1>4. CASE ~Includes(a, dst)
  BY <1>4, AddrCommandSets DEF MacCommand
<1> QED BY <1>3, <1>4

(* Routes: the gateway of every one is a host.                             *)
LEMMA RouteCommands ==
  ASSUME NEW routes, NEW x \in IfAddrsOf(routes)
  PROVE  /\ RouteCmds(x) \in Seq(RouteCommand)
         /\ \A r \in Range(RouteCmds(x)) : Creatable(r.dest, r.via) \/ r.dest.kind # r.via.kind
<1> DEFINE n == Len(x.routes)
<1>1. /\ n \in Nat /\ DOMAIN x.routes = 1..n
      /\ \A i \in 1..n : x.routes[i].dest \in Address /\ x.routes[i].via \in Address
  <2>1. x.routes \in Seq(Route)
    BY DEF IfAddrsOf
  <2>2. \A i \in 1..n : x.routes[i] \in Route
    BY <2>1, ElementOfSeq
  <2> QED BY <2>1, <2>2, LenProperties DEF Route
<1> HIDE DEF n
<1>2. ASSUME NEW i \in 1..n
      PROVE  RouteCmd(x.routes[i]) \in RouteCommand
  <2>1. ToS(x.routes[i].via) \in HostText
    BY <1>1, ParsedHost DEF HostText
  <2> QED BY <1>1, <2>1 DEF RouteCmd, RouteCommand
<1>3. RouteCmds(x) = [i \in 1..n |-> RouteCmd(x.routes[i])]
  BY <1>1 DEF RouteCmds
<1>4. RouteCmds(x) \in Seq(RouteCommand)
  <2>1. RouteCmds(x) \in [1..n -> RouteCommand]
    BY <1>2, <1>3
  <2> QED BY <1>1, <2>1, SeqDef
<1>5. ASSUME NEW i \in 1..n, NEW r, r = RouteCmd(x.routes[i])
      PROVE  Creatable(r.dest, r.via) \/ r.dest.kind # r.via.kind
  <2> DEFINE dest == x.routes[i].dest
             via == x.routes[i].via
  <2>1. dest \in Address /\ via \in Address
    BY <1>1
  <2>2. r.dest = dest /\ r.via = ToS(via)
    BY <1>5 DEF RouteCmd
  <2> HIDE DEF dest, via
  <2>3. /\ ParseAddress(dest) = dest /\ IsAddress(dest)
        /\ ParseAddress(ToS(via)) \in Address /\ ToS(via).kind = via.kind
        /\ ParseAddress(ToS(via)) = [via EXCEPT !.prefix = Bits[via.kind]]
    BY <2>1, ParsedAddress, AddressIsText, ParsedHost
  <2>4. IsAddress(ParseAddress(ToS(via)))
    BY <2>3, AddressIsText
  <2>5. via = [kind |-> via.kind, host |-> via.host, prefix |-> via.prefix]
    BY <2>1, AddressIsText
  <2>6. ParseAddress(ToS(via)).kind = via.kind /\ ParseAddress(ToS(via)).prefix = Bits[via.kind]
    BY <2>3, <2>5
  <2>7. CASE via.kind = dest.kind
    BY <2>2, <2>3, <2>4, <2>6, <2>7 DEF Creatable
  <2>8. CASE via.kind # dest.kind
    BY <2>2, <2>3, <2>8
  <2> QED BY <2>7, <2>8
<1>6. ASSUME NEW r \in Range(RouteCmds(x))
      PROVE  \E i \in 1..n : r = RouteCmd(x.routes[i])
  BY <1>3 DEF Range
<1> QED BY <1>4, <1>5, <1>6

(* The loop over a device's addresses on macOS.                            *)
LEMMA MacCommandsForSet ==
  ASSUME NEW dst \in Address, NEW addrs \in Seq(Address)
  PROVE  /\ MacCommandsFor(dst, addrs) \in Seq(AddrCommand)
         /\ \A i \in 1..Len(addrs) : addrs[i].kind = dst.kind =>
              \E c \in Range(MacCommandsFor(dst, addrs)) : Sets(c, addrs[i])
<1> DEFINE n == Len(addrs)
           S == Seq(AddrCommand)
           Chosen(i) == addrs[i].kind = dst.kind
           C(i) == MacCommand(dst, addrs[i])
           step == [i \in 1..n |-> [c \in S |-> IF Chosen(i) THEN Append(c, C(i)) ELSE c]]
           IsLoop(g) == g = [i \in 0..n |->
                              IF i = 0 THEN <<>>
                              ELSE IF Chosen(i) THEN Append(g[i - 1], C(i)) ELSE g[i - 1]]
           cmds == CHOOSE g : IsLoop(g)
<1>1. n \in Nat /\ \A i \in 1..n : C(i) \in AddrCommand /\ Sets(C(i), addrs[i])
  BY ElementOfSeq, LenProperties, MacCommandSets
<1>2. <<>> \in S /\ \A i \in 1..n : \A c \in S : Append(c, C(i)) \in S
  BY <1>1, EmptySeq, AppendProperties
<1> HIDE DEF n, S, Chosen, C
<1>3. step \in [1..n -> [S -> S]]
  BY <1>2
<1>4. PICK g \in [0..n -> S] : Follows(g, n, <<>>, step)
  <2> HIDE DEF step
  <2> QED BY <1>1, <1>2, <1>3, RecursionExists
<1>5. g[0] = <<>> /\ \A i \in 1..n : g[i] = IF Chosen(i) THEN Append(g[i - 1], C(i)) ELSE g[i - 1]
  <2>1. \A i \in 1..n : g[i] = step[i][g[i - 1]] /\ g[i - 1] \in S
    <3> HIDE DEF step
    <3>1. \A i \in 1..n : i - 1 \in 0..n
      BY <1>1
    <3>2. \A i \in 1..n : g[i - 1] \in S
      BY <1>4, <3>1
    <3>3. \A i \in 1..n : g[i] = step[i][g[i - 1]]
      BY <1>4 DEF Follows
    <3> QED BY <3>2, <3>3
  <2>2. g[0] = <<>>
    BY <1>4 DEF Follows
  <2> QED BY <2>1, <2>2
<1>6. IsLoop(g)
  <2> HIDE DEF step
  <2>1. \A i \in 0..n : g[i] = IF i = 0 THEN <<>>
                                ELSE IF Chosen(i) THEN Append(g[i - 1], C(i)) ELSE g[i - 1]
    <3> SUFFICES ASSUME NEW i \in 0..n
                 PROVE  g[i] = IF i = 0 THEN <<>>
                               ELSE IF Chosen(i) THEN Append(g[i - 1], C(i)) ELSE g[i - 1]
      OBVIOUS
    <3>1. CASE i = 0
      BY <1>5, <3>1
    <3>2. CASE i # 0
      <4>1. i \in 1..n
        BY <1>1, <3>2
      <4> QED BY <1>5, <3>2, <4>1
    <3> QED BY <3>1, <3>2
  <2> QED BY <1>4, <2>1
<1>7. IsLoop(cmds)
  <2> HIDE DEF IsLoop
  <2> QED BY <1>6
<1> HIDE DEF cmds
<1>8. /\ cmds[0] = <<>>
      /\ \A i \in 1..n : cmds[i] = IF Chosen(i) THEN Append(cmds[i - 1], C(i)) ELSE cmds[i - 1]
  <2>1. \A i \in 0..n : cmds[i] = IF i = 0 THEN <<>>
                                   ELSE IF Chosen(i) THEN Append(cmds[i - 1], C(i)) ELSE cmds[i - 1]
    BY <1>7
  <2> QED BY <1>1, <2>1
<1> HIDE DEF IsLoop
<1> DEFINE T == {m \in 0..n : /\ cmds[m] \in S
                              /\ \A i \in 1..m : Chosen(i) => C(i) \in Range(cmds[m])}
<1>9. 0 \in T
  BY <1>1, <1>2, <1>8
<1>10. ASSUME NEW m \in 1..n, m - 1 \in T
       PROVE  m \in T
  <2>1. m \in 0..n /\ \A i \in 1..m : i = m \/ i \in 1..m - 1
    BY <1>1
  <2>2. CASE ~Chosen(m)
    BY <1>8, <1>10, <2>1, <2>2
  <2>3. CASE Chosen(m)
    <3>1. cmds[m] = Append(cmds[m - 1], C(m)) /\ cmds[m - 1] \in S
      BY <1>8, <1>10, <2>3
    <3>2. /\ Len(cmds[m - 1]) \in Nat /\ Len(cmds[m]) = Len(cmds[m - 1]) + 1
          /\ cmds[m] \in S /\ cmds[m - 1] \in S
          /\ \A j \in 1..Len(cmds[m - 1]) : cmds[m][j] = cmds[m - 1][j]
          /\ cmds[m][Len(cmds[m - 1]) + 1] = C(m)
      BY <1>1, <3>1, AppendProperties, LenProperties DEF S
    <3>3. /\ Range(cmds[m]) = {cmds[m][j] : j \in 1..Len(cmds[m])}
          /\ Range(cmds[m - 1]) = {cmds[m - 1][j] : j \in 1..Len(cmds[m - 1])}
      BY <3>2, RangeEquality DEF S
    <3>4. Range(cmds[m - 1]) \subseteq Range(cmds[m]) /\ C(m) \in Range(cmds[m])
      <4>1. \A j \in 1..Len(cmds[m - 1]) : j \in 1..Len(cmds[m])
        BY <3>2
      <4>2. Len(cmds[m - 1]) + 1 \in 1..Len(cmds[m])
        BY <3>2
      <4> HIDE DEF S
      <4> QED BY <3>2, <3>3, <4>1, <4>2
    <3>5. \A i \in 1..m - 1 : Chosen(i) => C(i) \in Range(cmds[m - 1])
      BY <1>10
    <3> QED BY <2>1, <3>2, <3>4, <3>5
  <2> QED BY <2>2, <2>3
<1> HIDE DEF T
<1>11. n \in T
  <2>1. \A i \in 0..n : i \in T
    BY <1>1, <1>9, <1>10, SetInduction
  <2> QED BY <1>1, <2>1
<1>12. MacCommandsFor(dst, addrs) = cmds[n]
  BY DEF MacCommandsFor, cmds, IsLoop, Chosen, C, n
<1> QED BY <1>1, <1>11, <1>12 DEF T, S, Chosen, n

(* The loop over its destinations, around the other.                       *)
LEMMA MacAddrCommandsSet ==
  ASSUME NEW dests \in Seq(Address), NEW addrs \in Seq(Address)
  PROVE  /\ MacAddrCommands(dests, addrs) \in Seq(AddrCommand)
         /\ \A d \in Range(dests) : \A a \in Range(addrs) : a.kind = d.kind =>
              \E c \in Range(MacAddrCommands(dests, addrs)) : Sets(c, a)
<1> DEFINE n == Len(dests)
           S == Seq(AddrCommand)
           C(i) == MacCommandsFor(dests[i], addrs)
           step == [i \in 1..n |-> [c \in S |-> c \o C(i)]]
           IsLoop(g) == g = [i \in 0..n |-> IF i = 0 THEN <<>> ELSE g[i - 1] \o C(i)]
           cmds == CHOOSE g : IsLoop(g)
<1>1. n \in Nat /\ \A i \in 1..n : dests[i] \in Address /\ C(i) \in S
  BY ElementOfSeq, LenProperties, MacCommandsForSet
<1>2. <<>> \in S /\ \A i \in 1..n : \A c \in S : c \o C(i) \in S
  BY <1>1, EmptySeq, ConcatProperties
<1> HIDE DEF n, S, C
<1>3. step \in [1..n -> [S -> S]]
  BY <1>2
<1>4. PICK g \in [0..n -> S] : Follows(g, n, <<>>, step)
  <2> HIDE DEF step
  <2> QED BY <1>1, <1>2, <1>3, RecursionExists
<1>5. g[0] = <<>> /\ \A i \in 1..n : g[i] = g[i - 1] \o C(i)
  <2>1. \A i \in 1..n : g[i] = step[i][g[i - 1]] /\ g[i - 1] \in S
    <3> HIDE DEF step
    <3>1. \A i \in 1..n : i - 1 \in 0..n
      BY <1>1
    <3>2. \A i \in 1..n : g[i - 1] \in S
      BY <1>4, <3>1
    <3>3. \A i \in 1..n : g[i] = step[i][g[i - 1]]
      BY <1>4 DEF Follows
    <3> QED BY <3>2, <3>3
  <2>2. g[0] = <<>>
    BY <1>4 DEF Follows
  <2> QED BY <2>1, <2>2
<1>6. IsLoop(g)
  <2> HIDE DEF step
  <2>1. \A i \in 0..n : g[i] = IF i = 0 THEN <<>> ELSE g[i - 1] \o C(i)
    BY <1>1, <1>5
  <2> QED BY <1>4, <2>1
<1>7. IsLoop(cmds)
  <2> HIDE DEF IsLoop
  <2> QED BY <1>6
<1> HIDE DEF cmds
<1>8. cmds[0] = <<>> /\ \A i \in 1..n : cmds[i] = cmds[i - 1] \o C(i)
  <2>1. \A i \in 0..n : cmds[i] = IF i = 0 THEN <<>> ELSE cmds[i - 1] \o C(i)
    BY <1>7
  <2>2. 0 \in 0..n /\ \A i \in 1..n : i \in 0..n /\ i # 0
    BY <1>1
  <2> HIDE DEF IsLoop, step
  <2>3. ASSUME NEW i \in 1..n
        PROVE  cmds[i] = cmds[i - 1] \o C(i)
    BY <2>1, <2>2, Zenon
  <2> QED BY <2>1, <2>2, <2>3
<1> HIDE DEF IsLoop
<1> DEFINE T == {m \in 0..n : /\ cmds[m] \in S
                              /\ \A i \in 1..m : Range(C(i)) \subseteq Range(cmds[m])}
<1>9. 0 \in T
  BY <1>1, <1>2, <1>8
<1>10. ASSUME NEW m \in 1..n, m - 1 \in T
       PROVE  m \in T
  <2>1. m \in 0..n /\ \A i \in 1..m : i = m \/ i \in 1..m - 1
    BY <1>1
  <2>2. cmds[m] = cmds[m - 1] \o C(m) /\ cmds[m - 1] \in S /\ C(m) \in S
    BY <1>1, <1>8, <1>10
  <2>3. cmds[m] \in S
    BY <1>2, <2>2
  <2>4. Range(cmds[m]) = Range(cmds[m - 1]) \cup Range(C(m))
    BY <2>2, RangeConcatenation DEF S
  <2>5. \A i \in 1..m - 1 : Range(C(i)) \subseteq Range(cmds[m - 1])
    BY <1>10
  <2> QED BY <2>1, <2>3, <2>4, <2>5
<1> HIDE DEF T
<1>11. n \in T
  <2>1. \A i \in 0..n : i \in T
    BY <1>1, <1>9, <1>10, SetInduction
  <2> QED BY <1>1, <2>1
<1>12. MacAddrCommands(dests, addrs) = cmds[n]
  BY DEF MacAddrCommands, cmds, IsLoop, C, n
<1>13. ASSUME NEW d \in Range(dests), NEW a \in Range(addrs), a.kind = d.kind
       PROVE  \E c \in Range(cmds[n]) : Sets(c, a)
  <2>1. PICK i \in 1..n : d = dests[i]
    BY RangeEquality DEF n
  <2>2. PICK j \in 1..Len(addrs) : a = addrs[j]
    BY RangeEquality
  <2>3. PICK c \in Range(C(i)) : Sets(c, a)
    BY <1>1, <1>13, <2>1, <2>2, MacCommandsForSet DEF C
  <2>4. c \in Range(cmds[n])
    BY <1>11, <2>3 DEF T
  <2> QED BY <2>3, <2>4
<1> QED BY <1>11, <1>12, <1>13 DEF T, S

(* A sequence with one more element.                                       *)
LEMMA AtTheEnd ==
  ASSUME NEW S, NEW s \in Seq(S), NEW last \in Seq(S), Len(last) = 1
  PROVE  /\ Len(s \o last) = Len(s) + 1
         /\ \A i \in 1..Len(s) : (s \o last)[i] = s[i]
         /\ (s \o last)[Len(s) + 1] = last[1]
<1>1. /\ Len(s \o last) = Len(s) + Len(last)
      /\ \A i \in 1..Len(s) + Len(last) :
           (s \o last)[i] = IF i <= Len(s) THEN s[i] ELSE last[i - Len(s)]
  BY ConcatProperties
<1>2. Len(s) \in Nat
  BY LenProperties
<1> QED BY <1>1, <1>2

(* What asCommands() returns: commands for the addresses and the routes,   *)
(* and a last one for the mtu that also takes the device up.               *)
UpIsLast(cmds, mtu) ==
  \A i \in 1..Len(cmds) :
    IF i = Len(cmds) THEN cmds[i] = UpCmd(mtu) ELSE cmds[i] \in AddrCommand \cup RouteCommand

Configures(cmds, x) ==
  /\ cmds \in Seq(AnyCommand) /\ cmds # <<>>
  /\ UpIsLast(cmds, x.mtu)
  /\ Range(RouteCmds(x)) \subseteq Range(cmds)

LEMMA RoutesThenUp ==
  ASSUME NEW sizes \in SUBSET Nat, NEW x \in IfAddrsOf(sizes), NEW first \in Seq(AddrCommand),
         NEW cmds, cmds = first \o RouteCmds(x) \o <<UpCmd(x.mtu)>>
  PROVE  /\ Configures(cmds, x)
         /\ Range(first) \subseteq Range(cmds)
<1> DEFINE Both == AddrCommand \cup RouteCommand
           routes == RouteCmds(x)
           before == first \o routes
           up == <<UpCmd(x.mtu)>>
<1>1. first \in Seq(Both) /\ routes \in Seq(Both)
  BY RouteCommands, SeqMonotonic
<1>2. before \in Seq(Both) /\ Range(before) = Range(first) \cup Range(routes)
  BY <1>1, ConcatProperties, RangeConcatenation
<1>3. up \in Seq(AnyCommand)
  <2>1. x.mtu \in Nat
    BY DEF IfAddrsOf
  <2>2. UpCmd(x.mtu) \in AnyCommand
    BY <2>1 DEF UpCmd, UpCommand, AnyCommand
  <2> QED BY <2>2
<1>4. before \in Seq(AnyCommand)
  <2>1. Both \subseteq AnyCommand
    BY DEF AnyCommand
  <2> HIDE DEF Both, before
  <2> QED BY <1>2, <2>1, SeqMonotonic
<1> HIDE DEF Both, before, up, routes
<1>5. cmds = before \o up
  BY DEF before, up, routes
<1>6. cmds \in Seq(AnyCommand) /\ Range(cmds) = Range(before) \cup Range(up)
  <2>1. before \o up \in Seq(AnyCommand)
    BY <1>3, <1>4, ConcatProperties
  <2>2. Range(before \o up) = Range(before) \cup Range(up)
    BY <1>3, <1>4, RangeConcatenation
  <2> QED BY <1>5, <2>1, <2>2, Zenon
<1>7. UpIsLast(cmds, x.mtu)
  <2>1. Len(up) = 1 /\ up[1] = UpCmd(x.mtu)
    BY DEF up
  <2>2. /\ Len(before) \in Nat /\ Len(cmds) = Len(before) + 1
        /\ \A i \in 1..Len(before) : cmds[i] = before[i] /\ before[i] \in Both
        /\ cmds[Len(before) + 1] = up[1]
    <3>1. Len(before) \in Nat /\ \A i \in 1..Len(before) : before[i] \in Both
      BY <1>2, LenProperties, ElementOfSeq
    <3>2. /\ Len(before \o up) = Len(before) + 1
          /\ \A i \in 1..Len(before) : (before \o up)[i] = before[i]
          /\ (before \o up)[Len(before) + 1] = up[1]
      BY <1>3, <1>4, <2>1, AtTheEnd
    <3> QED BY <1>5, <3>1, <3>2, Zenon
  <2>3. ASSUME NEW i \in 1..Len(cmds)
        PROVE  IF i = Len(cmds) THEN cmds[i] = UpCmd(x.mtu) ELSE cmds[i] \in Both
    <3>1. CASE i = Len(cmds)
      BY <2>1, <2>2, <3>1, Zenon
    <3>2. CASE i # Len(cmds)
      <4>1. i \in 1..Len(before)
        BY <2>2, <3>2
      <4> QED BY <2>2, <3>2, <4>1, Zenon
    <3> QED BY <3>1, <3>2
  <2> QED BY <2>3, Zenon DEF UpIsLast, Both
<1>8. cmds # <<>>
  <2>1. UpCmd(x.mtu) \in Range(up)
    BY DEF up, Range
  <2> QED BY <1>6, <2>1 DEF Range
<1> QED BY <1>2, <1>6, <1>7, <1>8 DEF Configures, routes

LEMMA LinuxCommandsConfigure ==
  ASSUME NEW sizes \in SUBSET Nat, NEW x \in IfAddrsOf(sizes)
  PROVE  /\ Configures(LinuxCommands(x), x)
         /\ \A a \in Range(x.addrs) :
              AddrCmd(a) \in Range(LinuxCommands(x)) /\ Sets(AddrCmd(a), a)
<1> DEFINE n == Len(x.addrs)
           first == [i \in DOMAIN x.addrs |-> AddrCmd(x.addrs[i])]
<1>1. /\ n \in Nat /\ DOMAIN x.addrs = 1..n
      /\ Range(x.addrs) = {x.addrs[i] : i \in 1..n}
      /\ \A i \in 1..n : x.addrs[i] \in Address
  <2>1. x.addrs \in Seq(Address)
    BY DEF IfAddrsOf
  <2> QED BY <2>1, LenProperties, RangeEquality, ElementOfSeq
<1> HIDE DEF n
<1>2. first = [i \in 1..n |-> AddrCmd(x.addrs[i])]
  BY <1>1
<1>3. \A i \in 1..n : AddrCmd(x.addrs[i]) \in AddrCommand /\ Sets(AddrCmd(x.addrs[i]), x.addrs[i])
  BY <1>1, AddrCommandSets
<1> HIDE DEF first
<1>4. first \in Seq(AddrCommand)
  <2>1. first \in [1..n -> AddrCommand]
    BY <1>2, <1>3
  <2> QED BY <1>1, <2>1, SeqDef
<1>5. \A a \in Range(x.addrs) : AddrCmd(a) \in Range(first) /\ Sets(AddrCmd(a), a)
  <2>1. \A i \in 1..n : AddrCmd(x.addrs[i]) \in Range(first)
    BY <1>2 DEF Range
  <2> QED BY <1>1, <1>3, <2>1
<1>6. LinuxCommands(x) = first \o RouteCmds(x) \o <<UpCmd(x.mtu)>>
  BY DEF LinuxCommands, first
<1> QED BY <1>4, <1>5, <1>6, RoutesThenUp

LEMMA MacCommandsConfigure ==
  ASSUME NEW sizes \in SUBSET Nat, NEW x \in IfAddrsOf(sizes)
  PROVE  /\ Configures(MacCommands(x), x)
         /\ \A d \in Range(x.dests) : \A a \in Range(x.addrs) : a.kind = d.kind =>
              \E c \in Range(MacCommands(x)) : Sets(c, a)
<1> DEFINE first == MacAddrCommands(x.dests, x.addrs)
<1>1. x.dests \in Seq(Address) /\ x.addrs \in Seq(Address)
  BY DEF IfAddrsOf
<1>2. /\ first \in Seq(AddrCommand)
      /\ \A d \in Range(x.dests) : \A a \in Range(x.addrs) : a.kind = d.kind =>
           \E c \in Range(first) : Sets(c, a)
  BY <1>1, MacAddrCommandsSet
<1> HIDE DEF first
<1>3. MacCommands(x) = first \o RouteCmds(x) \o <<UpCmd(x.mtu)>>
  BY DEF MacCommands, first
<1>4. /\ Configures(MacCommands(x), x)
      /\ Range(first) \subseteq Range(MacCommands(x))
  BY <1>2, <1>3, RoutesThenUp
<1> QED BY <1>2, <1>4
-----------------------------------------------------------------------------
(* Networks.                                                               *)

(* The size of a network is a number, and not 0.                           *)
LEMMA NetworkHasHosts ==
  ASSUME NEW a \in Address
  PROVE  NetworkSize(a) \in Nat \ {0}
<1> DEFINE n == Bits[a.kind] - a.prefix
           S == Nat \ {0}
           step == [i \in 1..n |-> [m \in S |-> 2 * m]]
           IsSize(g) == g = [i \in 0..n |-> IF i = 0 THEN 1 ELSE 2 * g[i - 1]]
           size == CHOOSE g : IsSize(g)
<1>1. n \in Nat
  BY AddressIsText
<1>2. NetworkSize(a) = size[n]
  BY DEF NetworkSize
<1> HIDE DEF n
<1>3. step \in [1..n -> [S -> S]] /\ 1 \in S
  OBVIOUS
<1>4. PICK g \in [0..n -> S] : Follows(g, n, 1, step)
  <2> HIDE DEF step, S
  <2> QED BY <1>1, <1>3, RecursionExists
<1>5. \A i \in 1..n : g[i] = 2 * g[i - 1]
  <2>1. \A i \in 1..n : i - 1 \in 0..n
    BY <1>1
  <2>2. \A i \in 1..n : g[i] = step[i][g[i - 1]] /\ g[i - 1] \in S
    BY <1>4, <2>1 DEF Follows
  <2> QED BY <2>2
<1>6. g[0] = 1
  BY <1>4 DEF Follows
<1>7. IsSize(g)
  <2>1. \A i \in 0..n : g[i] = IF i = 0 THEN 1 ELSE 2 * g[i - 1]
    BY <1>1, <1>5, <1>6
  <2> HIDE DEF S, step
  <2> QED BY <1>4, <2>1
<1>8. IsSize(size)
  <2> HIDE DEF IsSize
  <2> QED BY <1>7
<1> HIDE DEF size
<1>9. size[0] = 1 /\ \A i \in 1..n : size[i] = 2 * size[i - 1]
  <2>1. \A i \in 0..n : size[i] = IF i = 0 THEN 1 ELSE 2 * size[i - 1]
    BY <1>8
  <2> QED BY <1>1, <2>1
<1> DEFINE T == {i \in 0..n : size[i] \in S}
<1>10. 0 \in T /\ \A i \in 1..n : i - 1 \in T => i \in T
  <2>1. 0 \in T
    BY <1>1, <1>9
  <2>2. ASSUME NEW i \in 1..n, i - 1 \in T
        PROVE  i \in T
    <3>1. size[i] = 2 * size[i - 1] /\ size[i - 1] \in S /\ i \in 0..n
      BY <1>1, <1>9, <2>2
    <3> QED BY <3>1
  <2> QED BY <2>1, <2>2
<1> HIDE DEF T
<1>11. n \in T
  <2>1. \A i \in 0..n : i \in T
    BY <1>1, <1>10, SetInduction
  <2> QED BY <1>1, <2>1
<1> QED BY <1>2, <1>11 DEF T

(* A network has its addresses.                                            *)
LEMMA NetworkIncludes ==
  ASSUME NEW a \in Address, NEW b, b = [a EXCEPT !.prefix = Bits[a.kind]],
         NEW net, net = [a EXCEPT !.host = (@ \div NetworkSize(a)) * NetworkSize(a)]
  PROVE  net \in Address /\ Includes(net, b)
<1> DEFINE m == NetworkSize(a)
           q == a.host \div m
<1>1. /\ a.host \in Nat /\ a.kind \in Kinds /\ a.prefix \in 0..Bits[a.kind]
      /\ Bits[a.kind] \in Nat
      /\ a = [kind |-> a.kind, host |-> a.host, prefix |-> a.prefix]
  BY AddressIsText
<1>2. m \in Nat \ {0}
  BY NetworkHasHosts
<1>3. /\ b = [kind |-> a.kind, host |-> a.host, prefix |-> Bits[a.kind]]
      /\ net = [kind |-> a.kind, host |-> q * m, prefix |-> a.prefix]
  BY <1>1
<1>4. NetworkSize(net) = m
  BY <1>3, Zenon DEF NetworkSize
<1> HIDE DEF m
<1>5. q \in Nat
  BY <1>1, <1>2
<1> HIDE DEF q
<1>6. q * m \in Nat /\ (q * m) \div m = q
  BY <1>2, <1>5
<1>7. net \in Address
  BY <1>1, <1>3, <1>6 DEF Address
<1>8. net.host \div NetworkSize(net) = b.host \div NetworkSize(net)
  BY <1>3, <1>4, <1>6 DEF q
<1> QED BY <1>1, <1>3, <1>7, <1>8 DEF Includes
-----------------------------------------------------------------------------
(* Lines: what is kept from one token to the next.                         *)

(* What parse() keeps, for the tokens of a set.                            *)
Kept(T) == T \cup {Text(ParseAddress(t.addr)) : t \in T}

RouteOf(T) ==
  [dest : {ZeroV4} \cup {ParseAddress(t.addr) : t \in T},
   via : SUBSET Kept(T), dev : SUBSET Kept(T), proto : SUBSET Kept(T),
   scope : SUBSET Kept(T), src : SUBSET Kept(T), metric : SUBSET Kept(T)]

States(T) ==
  [route : RouteOf(T), next : {"first", "name", "value"},
   last : T \cup {Word("")}, how : {"ok", "refused", "throws"}]

LEMMA BeginIsState == ASSUME NEW T PROVE Begin \in States(T)
BY DEF Begin, States, NoRoute, RouteOf

LEMMA TokenIsState ==
  ASSUME NEW T, NEW state \in States(T), NEW t \in T
  PROVE  Token(state, t) \in States(T)
<1> DEFINE dest == IF t = Word("default") THEN ZeroV4 ELSE ParseAddress(t.addr)
           key == state.last.word
           option == {IF key \in AddressKeys THEN Text(ParseAddress(t.addr)) ELSE t}
<1>1. state.next \in {"first", "name", "value"} /\ state.route \in RouteOf(T)
  BY DEF States
<1>2. CASE state.how = "ok" /\ state.next = "first"
  <2>1. dest \in {ZeroV4} \cup {ParseAddress(u.addr) : u \in T}
    OBVIOUS
  <2> HIDE DEF dest
  <2>2. [state.route EXCEPT !.dest = dest] \in RouteOf(T)
    BY <1>1, <2>1 DEF RouteOf
  <2>3. [state EXCEPT !.route.dest = dest, !.next = "name"] \in States(T)
    BY <2>2 DEF States
  <2>4. [state EXCEPT !.how = "refused"] \in States(T)
    BY DEF States
  <2>5. Dest(state, t) \in States(T)
    BY <2>3, <2>4, Zenon DEF Dest, dest
  <2> QED BY <1>2, <2>5, Zenon DEF Token
<1>3. CASE state.how = "ok" /\ state.next = "name"
  <2>1. Name(state, t) \in States(T)
    BY DEF Name, States
  <2>2. Token(state, t) = Name(state, t)
    BY <1>3 DEF Token
  <2> QED BY <2>1, <2>2
<1>4. CASE state.how = "ok" /\ state.next = "value"
  <2>1. option \in SUBSET Kept(T)
    BY DEF Kept
  <2> HIDE DEF option
  <2>2. ASSUME key \in Keys
        PROVE  [state.route EXCEPT ![key] = option] \in RouteOf(T)
    BY <1>1, <2>1, <2>2 DEF RouteOf, Keys
  <2>3. ASSUME key \in Keys
        PROVE  [state EXCEPT !.next = "name", !.route[key] = option] \in States(T)
    <3>1. [state EXCEPT !.next = "name", !.route[key] = option]
            = [state EXCEPT !.next = "name", !.route = [state.route EXCEPT ![key] = option]]
      BY DEF States
    <3> HIDE DEF key
    <3> QED BY <2>2, <2>3, <3>1 DEF States
  <2>4. /\ [state EXCEPT !.next = "name"] \in States(T)
        /\ [state EXCEPT !.next = "name", !.how = "refused"] \in States(T)
        /\ [state EXCEPT !.next = "name", !.how = "throws"] \in States(T)
    BY DEF States
  <2>5. Value(state, t) \in States(T)
    BY <2>3, <2>4 DEF Value, option
  <2>6. Token(state, t) = Value(state, t)
    BY <1>4 DEF Token
  <2> QED BY <2>5, <2>6
<1>5. CASE state.how # "ok"
  BY <1>5 DEF Token
<1> QED BY <1>1, <1>2, <1>3, <1>4, <1>5

(* The states of a line, one for each of its tokens.                       *)
Steps(start, line, n, s) ==
  s[0] = start /\ \A i \in 1..n : s[i] = Token(s[i - 1], line[i])

Reads(T, start, line, s) ==
  s \in [0..Len(line) -> States(T)] /\ Steps(start, line, Len(line), s)

LEMMA ReadsExists ==
  ASSUME NEW T, NEW start \in States(T), NEW line \in Seq(T)
  PROVE  \E s : Reads(T, start, line, s) /\ Tokens(start, line) = s[Len(line)]
<1> DEFINE n == Len(line)
           S == States(T)
           step == [i \in 1..n |-> [st \in S |-> Token(st, line[i])]]
           IsRead(g) == g = [i \in 0..n |-> IF i = 0 THEN start
                                            ELSE Token(g[i - 1], line[i])]
           s == CHOOSE g : IsRead(g)
<1>1. n \in Nat /\ \A i \in 1..n : line[i] \in T
  BY ElementOfSeq, LenProperties
<1>2. Tokens(start, line) = s[n]
  BY DEF Tokens
<1> HIDE DEF n
<1>3. step \in [1..n -> [S -> S]]
  BY <1>1, TokenIsState
<1>4. PICK g \in [0..n -> S] : Follows(g, n, start, step)
  <2> HIDE DEF step, S
  <2>1. start \in S
    BY DEF S
  <2> QED BY <1>1, <1>3, <2>1, RecursionExists
<1>5. \A i \in 1..n : g[i] = Token(g[i - 1], line[i])
  <2>1. \A i \in 1..n : i - 1 \in 0..n
    BY <1>1
  <2>2. \A i \in 1..n : g[i] = step[i][g[i - 1]] /\ g[i - 1] \in S
    <3> HIDE DEF step, S
    <3> QED BY <1>4, <2>1 DEF Follows
  <2> HIDE DEF S
  <2> QED BY <2>2
<1>6. g[0] = start
  BY <1>4 DEF Follows
<1> HIDE DEF step
<1>7. IsRead(g)
  <2>1. \A i \in 0..n : g[i] = IF i = 0 THEN start ELSE Token(g[i - 1], line[i])
    BY <1>1, <1>5, <1>6
  <2> HIDE DEF S
  <2> QED BY <1>4, <2>1
<1>8. IsRead(s)
  <2> HIDE DEF IsRead
  <2> QED BY <1>7
<1> HIDE DEF s
<1>9. s[0] = start /\ \A i \in 1..n : s[i] = Token(s[i - 1], line[i])
  <2>1. \A i \in 0..n : s[i] = IF i = 0 THEN start ELSE Token(s[i - 1], line[i])
    BY <1>8
  <2> QED BY <1>1, <2>1
<1> DEFINE U == {i \in 0..n : s[i] \in S}
<1>10. 0 \in U /\ \A i \in 1..n : i - 1 \in U => i \in U
  <2>1. 0 \in U
    BY <1>1, <1>9
  <2>2. ASSUME NEW i \in 1..n, i - 1 \in U
        PROVE  i \in U
    <3>1. s[i] = Token(s[i - 1], line[i]) /\ s[i - 1] \in S /\ i \in 0..n
      BY <1>1, <1>9, <2>2
    <3>2. Token(s[i - 1], line[i]) \in S
      BY <1>1, <3>1, TokenIsState
    <3> QED BY <3>1, <3>2
  <2> QED BY <2>1, <2>2
<1> HIDE DEF U
<1>11. \A i \in 0..n : i \in U
  BY <1>1, <1>10, SetInduction
<1>12. s \in [0..n -> S]
  <2>1. \A i \in 0..n : s[i] \in S
    BY <1>11 DEF U
  <2>2. s = [i \in 0..n |-> s[i]]
    BY <1>8
  <2> HIDE DEF S, IsRead
  <2> QED BY <2>1, <2>2
<1>13. Reads(T, start, line, s)
  BY <1>9, <1>12 DEF Reads, Steps, n
<1> QED BY <1>2, <1>13 DEF n

(* The states are the only ones.                                           *)
LEMMA SameReads ==
  ASSUME NEW start, NEW line, NEW n \in Nat,
         NEW s, NEW t, Steps(start, line, n, s), Steps(start, line, n, t)
  PROVE  s[n] = t[n]
<1> USE DEF Steps
<1> DEFINE U == {i \in 0..n : s[i] = t[i]}
<1>1. 0 \in U /\ \A i \in 1..n : i - 1 \in U => i \in U
  <2>1. 0 \in U
    OBVIOUS
  <2>2. ASSUME NEW i \in 1..n, i - 1 \in U
        PROVE  i \in U
    <3>1. s[i - 1] = t[i - 1] /\ i \in 0..n
      BY <2>2
    <3> QED BY <3>1
  <2> QED BY <2>1, <2>2
<1> HIDE DEF U
<1>2. \A i \in 0..n : i \in U
  BY <1>1, SetInduction
<1>3. n \in U
  BY <1>2
<1> QED BY <1>3 DEF U

LEMMA TokensOfNone ==
  ASSUME NEW T, NEW start \in States(T)
  PROVE  Tokens(start, <<>>) = start
<1>1. <<>> \in Seq(T) /\ Len(<<>>) = 0
  BY EmptySeq
<1>2. PICK s : Reads(T, start, <<>>, s) /\ Tokens(start, <<>>) = s[Len(<<>>)]
  BY <1>1, ReadsExists, Zenon
<1>3. s[0] = start
  BY <1>2, Zenon DEF Reads, Steps
<1> QED BY <1>1, <1>2, <1>3

LEMMA TokensAreState ==
  ASSUME NEW T, NEW start \in States(T), NEW line \in Seq(T)
  PROVE  Tokens(start, line) \in States(T)
<1>1. PICK s : Reads(T, start, line, s) /\ Tokens(start, line) = s[Len(line)]
  BY ReadsExists
<1>2. Len(line) \in 0..Len(line)
  BY LenProperties
<1> QED BY <1>1, <1>2 DEF Reads, Steps

LEMMA TokensOfOne ==
  ASSUME NEW T, NEW start \in States(T), NEW t \in T
  PROVE  Tokens(start, <<t>>) = Token(start, t)
<1>1. <<t>> \in Seq(T) /\ Len(<<t>>) = 1 /\ <<t>>[1] = t
  OBVIOUS
<1>2. PICK s : Reads(T, start, <<t>>, s) /\ Tokens(start, <<t>>) = s[1]
  BY <1>1, ReadsExists
<1>3. s[0] = start /\ s[1] = Token(s[0], t)
  BY <1>1, <1>2 DEF Reads, Steps
<1> QED BY <1>2, <1>3

(* A line is read on where its beginning ended.                            *)
LEMMA TokensOfBoth ==
  ASSUME NEW T, NEW start \in States(T), NEW a \in Seq(T), NEW b \in Seq(T)
  PROVE  Tokens(start, a \o b) = Tokens(Tokens(start, a), b)
<1> DEFINE c == a \o b
           m == Len(a)
           n == Len(b)
           middle == Tokens(start, a)
<1>1. /\ m \in Nat /\ n \in Nat /\ c \in Seq(T) /\ Len(c) = m + n
      /\ \A i \in 1..m : c[i] = a[i]
      /\ \A i \in 1..n : c[m + i] = b[i]
  <2>1. m \in Nat /\ n \in Nat
    BY LenProperties
  <2>2. /\ c \in Seq(T) /\ Len(c) = m + n
        /\ \A i \in 1..m + n : c[i] = IF i <= m THEN a[i] ELSE b[i - m]
    BY ConcatProperties
  <2> HIDE DEF c, m, n
  <2>3. \A i \in 1..n : m + i \in 1..m + n /\ ~(m + i <= m) /\ (m + i) - m = i
    BY <2>1
  <2>4. \A i \in 1..m : i \in 1..m + n /\ i <= m
    BY <2>1
  <2> QED BY <2>1, <2>2, <2>3, <2>4
<1>2. middle \in States(T)
  BY TokensAreState
<1>3. PICK s : Reads(T, start, c, s) /\ Tokens(start, c) = s[m + n]
  <2> HIDE DEF c
  <2>1. \E s : Reads(T, start, c, s) /\ Tokens(start, c) = s[Len(c)]
    BY <1>1, ReadsExists, Zenon
  <2> QED BY <1>1, <2>1, Zenon
<1>4. PICK u : Reads(T, start, a, u) /\ middle = u[m]
  BY ReadsExists, Zenon
<1>5. PICK v : Reads(T, middle, b, v) /\ Tokens(middle, b) = v[n]
  <2> HIDE DEF middle
  <2> QED BY <1>2, ReadsExists, Zenon
<1> HIDE DEF c, middle
<1>6. s[m] = middle
  <2>1. Steps(start, a, m, s)
    <3>1. \A i \in 1..m : i \in 1..Len(c)
      BY <1>1
    <3>2. \A i \in 1..m : s[i] = Token(s[i - 1], a[i])
      BY <1>1, <1>3, <3>1 DEF Reads, Steps
    <3> QED BY <1>3, <3>2 DEF Reads, Steps
  <2>2. Steps(start, a, m, u)
    BY <1>4 DEF Reads
  <2>3. s[m] = u[m]
    <3>1. m \in Nat
      BY <1>1
    <3> HIDE DEF m
    <3> QED BY <2>1, <2>2, <3>1, SameReads
  <2> QED BY <1>4, <2>3
<1> DEFINE w == [i \in 0..n |-> s[m + i]]
<1>7. w[0] = middle /\ w[n] = s[m + n]
  BY <1>1, <1>6
<1>8. \A i \in 1..n : w[i] = Token(w[i - 1], b[i])
  <2> TAKE i \in 1..n
  <2>1. m + i \in 1..Len(c) /\ i \in 0..n /\ i - 1 \in 0..n /\ (m + i) - 1 = m + (i - 1)
    BY <1>1
  <2>2. s[m + i] = Token(s[(m + i) - 1], c[m + i])
    BY <1>3, <2>1 DEF Reads, Steps
  <2> QED BY <1>1, <2>1, <2>2
<1> HIDE DEF w
<1>9. w[n] = v[n]
  <2>1. Steps(middle, b, n, v)
    BY <1>5 DEF Reads
  <2>2. Steps(middle, b, n, w)
    BY <1>7, <1>8 DEF Steps
  <2>3. n \in Nat
    BY <1>1
  <2> HIDE DEF n
  <2> QED BY <2>1, <2>2, <2>3, SameReads
<1> QED BY <1>3, <1>5, <1>7, <1>9 DEF c, middle

(* Nothing is read after an error.                                         *)
LEMMA ErrorStays ==
  ASSUME NEW T, NEW start \in States(T), start.how # "ok", NEW line \in Seq(T)
  PROVE  Tokens(start, line) = start
<1> DEFINE n == Len(line)
<1>1. PICK s : Reads(T, start, line, s) /\ Tokens(start, line) = s[n]
  BY ReadsExists
<1>2. n \in Nat
  BY LenProperties
<1> DEFINE U == {i \in 0..n : s[i] = start}
<1>3. 0 \in U /\ \A i \in 1..n : i - 1 \in U => i \in U
  <2>1. 0 \in U
    BY <1>1, <1>2 DEF Reads, Steps
  <2>2. ASSUME NEW i \in 1..n, i - 1 \in U
        PROVE  i \in U
    <3>1. s[i] = Token(start, line[i]) /\ i \in 0..n
      BY <1>1, <1>2, <2>2 DEF Reads, Steps
    <3> QED BY <3>1 DEF Token
  <2> QED BY <2>1, <2>2
<1> HIDE DEF U
<1>4. n \in U
  <2> HIDE DEF n
  <2>1. \A i \in 0..n : i \in U
    BY <1>2, <1>3, SetInduction
  <2> QED BY <1>2, <2>1
<1> QED BY <1>1, <1>4 DEF U
-----------------------------------------------------------------------------
(* The fields of a line.                                                   *)

(* Where the name of a field is read.                                      *)
Ready(T) == {st \in States(T) : st.how = "ok" /\ st.next = "name"}

ReadOption(key, option) ==
  {IF key \in AddressKeys THEN Text(ParseAddress(t.addr)) ELSE t : t \in option}

IsOption(key, option) ==
  /\ \A s, t \in option : s = t
  /\ key \in AddressKeys => \A t \in option : IsAddress(t.addr)

(* Writing a field of a route that has it already changes nothing.         *)
LEMMA SameField ==
  ASSUME NEW T, NEW route \in RouteOf(T), NEW key \in Keys
  PROVE  [route EXCEPT ![key] = route[key]] = route
<1>1. route = [dest |-> route.dest, via |-> route.via, dev |-> route.dev,
               proto |-> route.proto, scope |-> route.scope, src |-> route.src,
               metric |-> route.metric]
  BY DEF RouteOf
<1> QED BY <1>1 DEF Keys

(* Two tokens, one after the other.                                        *)
LEMMA PairIsConcat ==
  ASSUME NEW T, NEW a \in T, NEW b \in T
  PROVE  <<a, b>> \in Seq(T) /\ <<a, b>> = <<a>> \o <<b>>
<1> DEFINE s == <<a>> \o <<b>>
           p == <<a, b>>
<1>1. /\ <<a>> \in Seq(T) /\ Len(<<a>>) = 1 /\ <<a>>[1] = a
      /\ <<b>> \in Seq(T) /\ Len(<<b>>) = 1 /\ <<b>>[1] = b
  OBVIOUS
<1>2. s \in Seq(T) /\ Len(s) = 2 /\ s[1] = a /\ s[2] = b
  BY <1>1, ConcatProperties
<1>3. p \in Seq(T) /\ Len(p) = 2 /\ p[1] = a /\ p[2] = b
  OBVIOUS
<1> HIDE DEF p, s
<1>4. \A i \in 1..Len(p) : p[i] = s[i]
  BY <1>2, <1>3
<1>5. p = s
  BY <1>2, <1>3, <1>4, SeqEqual
<1> QED BY <1>3, <1>5 DEF p, s

LEMMA FieldTokens ==
  ASSUME NEW T, NEW key \in Keys, Word(key) \in T, NEW option \in SUBSET T
  PROVE  /\ Field(key, option) \in Seq(T)
         /\ option = {} => Field(key, option) = <<>>
         /\ \A t \in option : IsOption(key, option) =>
              Field(key, option) = <<Word(key)>> \o <<t>> /\ option = {t}
<1>1. CASE option = {}
  <2>1. Field(key, option) = <<>>
    BY <1>1 DEF Field
  <2> QED BY <1>1, <2>1, EmptySeq
<1>2. CASE option # {}
  <2>1. The(option) \in option
    BY <1>2, Zenon DEF The
  <2>2. Field(key, option) = <<Word(key), The(option)>>
    BY <1>2 DEF Field
  <2> DEFINE w == Word(key)
             t == The(option)
  <2>3. t \in T
    BY <2>1
  <2> HIDE DEF w, t
  <2>4. <<w, t>> \in Seq(T) /\ <<w, t>> = <<w>> \o <<t>>
    <3>1. w \in T
      BY DEF w
    <3> QED BY <2>3, <3>1, PairIsConcat
  <2>5. \A u \in option : IsOption(key, option) => u = t /\ option = {t}
    BY <2>1 DEF IsOption, t
  <2> QED BY <1>2, <2>2, <2>4, <2>5 DEF w, t
<1> QED BY <1>1, <1>2

(* The value of a key.                                                     *)
LEMMA ValueIsRead ==
  ASSUME NEW T, NEW st \in Ready(T), NEW key \in Keys, Word(key) \in T, NEW t \in T,
         key \in AddressKeys => IsAddress(t.addr),
         NEW end, end = Tokens(st, <<Word(key)>> \o <<t>>)
  PROVE  /\ end \in States(T)
         /\ (key = "metric" => FitsInt(t.num)) =>
              /\ end \in Ready(T)
              /\ end.route = [st.route EXCEPT ![key] = ReadOption(key, {t})]
         /\ key = "metric" /\ ~FitsInt(t.num) => end.how # "ok"
<1> DEFINE named == [st EXCEPT !.last = Word(key), !.next = "value"]
<1>1. st \in States(T) /\ st.how = "ok" /\ st.next = "name"
  BY DEF Ready
<1>2. Tokens(st, <<Word(key)>>) = named
  <2>1. Token(st, Word(key)) = Name(st, Word(key))
    BY <1>1 DEF Token
  <2>2. Tokens(st, <<Word(key)>>) = Token(st, Word(key))
    BY <1>1, TokensOfOne, Zenon
  <2> QED BY <2>1, <2>2 DEF Name
<1>3. /\ named \in States(T)
      /\ named.how = "ok" /\ named.next = "value" /\ named.last.word = key
      /\ named.route = st.route
  BY <1>1 DEF States, Word
<1> HIDE DEF named
<1>4. end = Value(named, t)
  <2> DEFINE w == Word(key)
             a == <<w>>
             b == <<t>>
  <2>1. a \in Seq(T) /\ b \in Seq(T)
    <3>1. w \in T
      OBVIOUS
    <3> HIDE DEF w
    <3> QED BY <3>1
  <2>2. end = Tokens(st, a \o b) /\ named = Tokens(st, a)
    BY <1>2
  <2> HIDE DEF w, a, b
  <2>3. end = Tokens(named, b)
    BY <1>1, <2>1, <2>2, TokensOfBoth
  <2>4. Tokens(named, b) = Token(named, t)
    BY <1>3, TokensOfOne, Zenon DEF b
  <2> QED BY <1>3, <2>3, <2>4 DEF Token
<1>5. end \in States(T)
  BY <1>3, <1>4, TokenIsState DEF Token
<1> DEFINE option == {IF key \in AddressKeys THEN Text(ParseAddress(t.addr)) ELSE t}
<1>6. CASE key = "metric" => FitsInt(t.num)
  <2>1. end = [named EXCEPT !.next = "name", !.route[key] = option]
    <3>1. /\ ~(key \notin Keys)
          /\ ~(key \in AddressKeys /\ ~IsAddress(t.addr))
          /\ ~(key = "metric" /\ ~FitsInt(t.num))
      BY <1>6
    <3>2. Value(named, t) = [[named EXCEPT !.next = "name"] EXCEPT !.route[key] = option]
      BY <1>3, <3>1 DEF Value
    <3> HIDE DEF option
    <3> QED BY <1>3, <1>4, <3>2 DEF States
  <2>2. ReadOption(key, {t}) = option
    BY DEF ReadOption
  <2> HIDE DEF option
  <2>3. end.how = "ok" /\ end.next = "name" /\ end.route = [st.route EXCEPT ![key] = option]
    BY <1>3, <2>1 DEF States
  <2> QED BY <1>5, <1>6, <2>2, <2>3 DEF Ready
<1>7. CASE key = "metric" /\ ~FitsInt(t.num)
  <2>1. key \in Keys /\ key \notin AddressKeys
    BY <1>7 DEF Keys, AddressKeys
  <2>2. end = [[named EXCEPT !.next = "name"] EXCEPT !.how = "throws"]
    BY <1>3, <1>4, <1>7, <2>1 DEF Value
  <2>3. end.how = "throws"
    BY <1>3, <2>2 DEF States
  <2> QED BY <1>5, <1>7, <2>3
<1> QED BY <1>6, <1>7

(* A field, that the route may not have.                                   *)
LEMMA FieldIsRead ==
  ASSUME NEW T, NEW st \in Ready(T), NEW key \in Keys, Word(key) \in T,
         NEW option \in SUBSET T, IsOption(key, option), st.route[key] = {},
         NEW end, end = Tokens(st, Field(key, option))
  PROVE  /\ end \in States(T)
         /\ (key = "metric" => \A t \in option : FitsInt(t.num)) =>
              /\ end \in Ready(T)
              /\ end.route = [st.route EXCEPT ![key] = ReadOption(key, option)]
         /\ key = "metric" /\ (\E t \in option : ~FitsInt(t.num)) => end.how # "ok"
<1>1. st \in States(T) /\ st.route \in RouteOf(T)
  BY DEF Ready, States
<1>2. CASE option = {}
  <2>1. end = st
    BY <1>1, <1>2, FieldTokens, TokensOfNone
  <2>2. ReadOption(key, option) = {}
    BY <1>2 DEF ReadOption
  <2>3. st.route = [st.route EXCEPT ![key] = ReadOption(key, option)]
    <3> DEFINE r == st.route
    <3>1. r \in RouteOf(T) /\ r[key] = ReadOption(key, option)
      BY <1>1, <2>2
    <3> HIDE DEF r
    <3>2. r = [r EXCEPT ![key] = ReadOption(key, option)]
      BY <3>1, SameField
    <3> QED BY <3>2 DEF r
  <2> QED BY <1>1, <1>2, <2>1, <2>3
<1>3. CASE option # {}
  <2>1. PICK t : t \in option
    BY <1>3
  <2>2. t \in T /\ end = Tokens(st, <<Word(key)>> \o <<t>>) /\ option = {t}
    BY <2>1, FieldTokens, Zenon
  <2>3. key \in AddressKeys => IsAddress(t.addr)
    BY <2>1 DEF IsOption
  <2>4. /\ end \in States(T)
        /\ (key = "metric" => FitsInt(t.num)) =>
             /\ end \in Ready(T)
             /\ end.route = [st.route EXCEPT ![key] = ReadOption(key, {t})]
        /\ key = "metric" /\ ~FitsInt(t.num) => end.how # "ok"
    BY <2>2, <2>3, ValueIsRead
  <2> QED BY <2>2, <2>4
<1> QED BY <1>2, <1>3

(* Words that are no keys are passed over, each with the one behind it.    *)
LEMMA FlagsArePassedOver ==
  ASSUME NEW T, NEW st \in Ready(T), NEW line \in Seq(T),
         \A i \in 1..Len(line) : line[i].word \notin Keys,
         NEW end, end = Tokens(st, line)
  PROVE  end.how = "ok" /\ end.route = st.route
<1> DEFINE n == Len(line)
           Over(v) == /\ v.how = "ok" /\ v.route = st.route
                      /\ \/ v.next = "name"
                         \/ v.next = "value" /\ v.last.word \notin Keys
<1>1. PICK s : Reads(T, st, line, s) /\ end = s[Len(line)]
  <2>1. st \in States(T)
    BY DEF Ready
  <2> QED BY <2>1, ReadsExists, Zenon
<1>2. n \in Nat /\ n = Len(line)
  BY LenProperties
<1>3. /\ s \in [0..n -> States(T)] /\ s[0] = st
      /\ \A i \in 1..n : s[i] = Token(s[i - 1], line[i]) /\ line[i].word \notin Keys
  BY <1>1 DEF Reads, Steps
<1> HIDE DEF n
<1> DEFINE U == {i \in 0..n : Over(s[i])}
<1>4. 0 \in U
  BY <1>2, <1>3 DEF Ready
<1>5. ASSUME NEW i \in 1..n, i - 1 \in U
      PROVE  i \in U
  <2> DEFINE v == s[i - 1]
             t == line[i]
  <2>1. /\ i \in 0..n /\ v \in States(T) /\ Over(v)
        /\ s[i] = Token(v, t) /\ t.word \notin Keys
    BY <1>2, <1>3, <1>5
  <2> HIDE DEF v, t, Over
  <2>2. CASE v.next = "name"
    <3>1. s[i] = [v EXCEPT !.last = t, !.next = "value"]
      BY <2>1, <2>2 DEF Token, Name, Over
    <3>2. Over(s[i])
      BY <2>1, <3>1 DEF Over, States
    <3> QED BY <2>1, <3>2
  <2>3. CASE v.next = "value" /\ v.last.word \notin Keys
    <3>1. s[i] = [v EXCEPT !.next = "name"]
      BY <2>1, <2>3 DEF Token, Value, Over
    <3>2. Over(s[i])
      BY <2>1, <3>1 DEF Over, States
    <3> QED BY <2>1, <3>2
  <2> QED BY <2>1, <2>2, <2>3 DEF Over
<1>6. n \in U
  <2> HIDE DEF U
  <2>1. \A i \in 0..n : i \in U
    BY <1>2, <1>4, <1>5, SetInduction
  <2> QED BY <1>2, <2>1
<1> QED BY <1>1, <1>2, <1>6

(* The tokens that the fields of a route are read from.                    *)
AreFields(T, route) ==
  \A key \in Keys : Word(key) \in T /\ route[key] \in SUBSET T /\ IsOption(key, route[key])

(* The fields, for a metric that is an int or none: all is read.           *)
LEMMA FieldsAreRead ==
  ASSUME NEW T, NEW route, AreFields(T, route),
         NEW st \in Ready(T), \A key \in Keys : st.route[key] = {}
  PROVE  LET end == Tokens(st, Fields(route))
         IN /\ Fields(route) \in Seq(T) /\ end \in States(T)
            /\ (\A t \in route.metric : FitsInt(t.num)) =>
                 /\ end \in Ready(T)
                 /\ end.route =
                      [dest |-> st.route.dest, via |-> ReadOption("via", route.via),
                       dev |-> route.dev, proto |-> route.proto, scope |-> route.scope,
                       src |-> ReadOption("src", route.src), metric |-> route.metric]
            /\ (\E t \in route.metric : ~FitsInt(t.num)) => end.how # "ok"
<1> DEFINE f1 == Field("via", route.via)
           f2 == Field("dev", route.dev)
           f3 == Field("proto", route.proto)
           f4 == Field("scope", route.scope)
           f5 == Field("src", route.src)
           f6 == Field("metric", route.metric)
           s1 == Tokens(st, f1)
           s2 == Tokens(s1, f2)
           s3 == Tokens(s2, f3)
           s4 == Tokens(s3, f4)
           s5 == Tokens(s4, f5)
           end == Tokens(s5, f6)
<1>1. {"via", "dev", "proto", "scope", "src", "metric"} = Keys
  BY DEF Keys
<1>2. /\ Word("via") \in T /\ route.via \in SUBSET T /\ IsOption("via", route.via)
      /\ Word("dev") \in T /\ route.dev \in SUBSET T /\ IsOption("dev", route.dev)
      /\ Word("proto") \in T /\ route.proto \in SUBSET T /\ IsOption("proto", route.proto)
      /\ Word("scope") \in T /\ route.scope \in SUBSET T /\ IsOption("scope", route.scope)
      /\ Word("src") \in T /\ route.src \in SUBSET T /\ IsOption("src", route.src)
      /\ Word("metric") \in T /\ route.metric \in SUBSET T /\ IsOption("metric", route.metric)
  BY <1>1 DEF AreFields
<1>3. /\ f1 \in Seq(T) /\ f2 \in Seq(T) /\ f3 \in Seq(T)
      /\ f4 \in Seq(T) /\ f5 \in Seq(T) /\ f6 \in Seq(T)
  BY <1>1, <1>2, FieldTokens
<1>4. /\ st.route \in RouteOf(T) /\ st \in States(T)
      /\ st.route.via = {} /\ st.route.dev = {} /\ st.route.proto = {}
      /\ st.route.scope = {} /\ st.route.src = {} /\ st.route.metric = {}
  BY <1>1 DEF Ready, States
<1> HIDE DEF f1, f2, f3, f4, f5, f6
<1>5. Tokens(st, Fields(route)) = end /\ Fields(route) \in Seq(T)
  <2> DEFINE t2 == f1 \o f2
             t3 == t2 \o f3
             t4 == t3 \o f4
             t5 == t4 \o f5
             t6 == t5 \o f6
  <2>1. Fields(route) = t6
    BY DEF Fields, f1, f2, f3, f4, f5, f6
  <2>2. t2 \in Seq(T) /\ Tokens(st, t2) = s2
    BY <1>3, <1>4, TokensOfBoth, ConcatProperties
  <2> HIDE DEF t2, s2
  <2>3. t3 \in Seq(T) /\ Tokens(st, t3) = s3
    BY <1>3, <1>4, <2>2, TokensOfBoth, ConcatProperties
  <2> HIDE DEF t3, s3
  <2>4. t4 \in Seq(T) /\ Tokens(st, t4) = s4
    BY <1>3, <1>4, <2>3, TokensOfBoth, ConcatProperties
  <2> HIDE DEF t4, s4
  <2>5. t5 \in Seq(T) /\ Tokens(st, t5) = s5
    BY <1>3, <1>4, <2>4, TokensOfBoth, ConcatProperties
  <2> HIDE DEF t5, s5
  <2>6. t6 \in Seq(T) /\ Tokens(st, t6) = end
    BY <1>3, <1>4, <2>5, TokensOfBoth, ConcatProperties
  <2> QED BY <2>1, <2>6
<1>6. /\ "dev" \notin AddressKeys /\ "proto" \notin AddressKeys
      /\ "scope" \notin AddressKeys /\ "metric" \notin AddressKeys
  BY DEF AddressKeys
<1>7. /\ ReadOption("dev", route.dev) = route.dev
      /\ ReadOption("proto", route.proto) = route.proto
      /\ ReadOption("scope", route.scope) = route.scope
      /\ ReadOption("metric", route.metric) = route.metric
  BY <1>6 DEF ReadOption
<1> DEFINE r0 == st.route
           r1 == [r0 EXCEPT !["via"] = ReadOption("via", route.via)]
           r2 == [r1 EXCEPT !["dev"] = route.dev]
           r3 == [r2 EXCEPT !["proto"] = route.proto]
           r4 == [r3 EXCEPT !["scope"] = route.scope]
           r5 == [r4 EXCEPT !["src"] = ReadOption("src", route.src)]
           r6 == [r5 EXCEPT !["metric"] = route.metric]
<1>8. /\ r1.dev = {} /\ r2.proto = {} /\ r3.scope = {} /\ r4.src = {} /\ r5.metric = {}
      /\ r6 = [dest |-> r0.dest, via |-> ReadOption("via", route.via),
               dev |-> route.dev, proto |-> route.proto, scope |-> route.scope,
               src |-> ReadOption("src", route.src), metric |-> route.metric]
  <2> HIDE DEF r0
  <2>1. r0 \in RouteOf(T) /\ r0.dev = {} /\ r0.proto = {} /\ r0.scope = {}
        /\ r0.src = {} /\ r0.metric = {}
    BY <1>4 DEF r0
  <2> DEFINE v == ReadOption("via", route.via)
             w == ReadOption("src", route.src)
  <2>2. PICK d, x : r0 = [dest |-> d, via |-> x, dev |-> {}, proto |-> {},
                           scope |-> {}, src |-> {}, metric |-> {}]
    <3>1. r0 = [dest |-> r0.dest, via |-> r0.via, dev |-> {}, proto |-> {},
                scope |-> {}, src |-> {}, metric |-> {}]
      BY <2>1 DEF RouteOf
    <3> QED BY <3>1
  <2> HIDE DEF v, w
  <2>3. r1 = [dest |-> r0.dest, via |-> v, dev |-> {}, proto |-> {},
              scope |-> {}, src |-> {}, metric |-> {}]
    BY <2>2 DEF v
  <2> HIDE DEF r1
  <2>4. r2 = [dest |-> r0.dest, via |-> v, dev |-> route.dev, proto |-> {},
              scope |-> {}, src |-> {}, metric |-> {}]
    BY <2>3
  <2> HIDE DEF r2
  <2>5. r3 = [dest |-> r0.dest, via |-> v, dev |-> route.dev, proto |-> route.proto,
              scope |-> {}, src |-> {}, metric |-> {}]
    BY <2>4
  <2> HIDE DEF r3
  <2>6. r4 = [dest |-> r0.dest, via |-> v, dev |-> route.dev, proto |-> route.proto,
              scope |-> route.scope, src |-> {}, metric |-> {}]
    BY <2>5
  <2> HIDE DEF r4
  <2>7. r5 = [dest |-> r0.dest, via |-> v, dev |-> route.dev, proto |-> route.proto,
              scope |-> route.scope, src |-> w, metric |-> {}]
    BY <2>6 DEF w
  <2> HIDE DEF r5
  <2>8. r6 = [dest |-> r0.dest, via |-> v, dev |-> route.dev, proto |-> route.proto,
              scope |-> route.scope, src |-> w, metric |-> route.metric]
    BY <2>7
  <2> HIDE DEF r6
  <2> QED BY <2>3, <2>4, <2>5, <2>6, <2>7, <2>8 DEF v, w
<1> HIDE DEF s1, s2, s3, s4, s5, end
<1>9. s1 \in Ready(T) /\ s1.route = r1
  <2>1. "via" \in Keys /\ "via" # "metric" /\ st.route["via"] = {}
    BY <1>1, <1>4
  <2> QED BY <1>2, <2>1, FieldIsRead DEF s1, f1
<1> HIDE DEF r1
<1>10. s2 \in Ready(T) /\ s2.route = r2
  <2>1. "dev" \in Keys /\ "dev" # "metric" /\ s1.route["dev"] = {}
    BY <1>1, <1>8, <1>9
  <2> QED BY <1>2, <1>7, <1>9, <2>1, FieldIsRead DEF s2, f2
<1> HIDE DEF r2
<1>11. s3 \in Ready(T) /\ s3.route = r3
  <2>1. "proto" \in Keys /\ "proto" # "metric" /\ s2.route["proto"] = {}
    BY <1>1, <1>8, <1>10
  <2> QED BY <1>2, <1>7, <1>10, <2>1, FieldIsRead DEF s3, f3
<1> HIDE DEF r3
<1>12. s4 \in Ready(T) /\ s4.route = r4
  <2>1. "scope" \in Keys /\ "scope" # "metric" /\ s3.route["scope"] = {}
    BY <1>1, <1>8, <1>11
  <2> QED BY <1>2, <1>7, <1>11, <2>1, FieldIsRead DEF s4, f4
<1> HIDE DEF r4
<1>13. s5 \in Ready(T) /\ s5.route = r5
  <2>1. "src" \in Keys /\ "src" # "metric" /\ s4.route["src"] = {}
    BY <1>1, <1>8, <1>12
  <2> QED BY <1>2, <1>12, <2>1, FieldIsRead DEF s5, f5
<1> HIDE DEF r5
<1>14. /\ end \in States(T)
       /\ (\A t \in route.metric : FitsInt(t.num)) => end \in Ready(T) /\ end.route = r6
       /\ (\E t \in route.metric : ~FitsInt(t.num)) => end.how # "ok"
  <2>1. "metric" \in Keys /\ s5.route["metric"] = {}
    BY <1>1, <1>8, <1>13
  <2> QED BY <1>2, <1>7, <1>13, <2>1, FieldIsRead DEF end, f6
<1> HIDE DEF r6
<1> QED BY <1>5, <1>8, <1>14 DEF r0
=============================================================================
