----------------------------- MODULE MCTunnel -----------------------------
(***************************************************************************)
(* Tunnels with addresses of two and three bits.  A short has 16 values,   *)
(* an int is at most 31 and a size_t at most 63; the packets of a server   *)
(* without options have six bytes.                                         *)
(***************************************************************************)
EXTENDS Tunnel

MCBits == "v4" :> 2 @@ "v6" :> 3

Addr(kind, host, prefix) == [kind |-> kind, host |-> host, prefix |-> prefix]

MCDefaults ==
  [mtu |-> 6, qsize |-> 2, port |-> 5, threads |-> 4, statFrequence |-> 5,
   address |-> "localhost", cert |-> "none", key |-> "none"]

(* Options out of their range, repeated, of all three types, and unknown.  *)
Option(name, arg) == [name |-> name, arg |-> arg]

MCCommandLines ==
  {<<>>,
   <<Option("mtu", 16)>>, <<Option("mtu", -12)>>, <<Option("mtu", 5)>>,
   <<Option("mtu", 9), Option("mtu", 3)>>,
   <<Option("qsize", 16)>>, <<Option("qsize", 17), Option("threads", -1)>>,
   <<Option("cert", "file"), Option("key", "file"), Option("help", "")>>}

(* Addresses in one network, in others, of both kinds, with a full, an     *)
(* empty and no prefix, and a text that is none.                           *)
Host4 == Addr("v4", 1, 1)
Peer4 == Addr("v4", 0, 1)
Alone4 == Addr("v4", 2, NoPrefix)
Host6 == Addr("v6", 5, 2)

SmallTexts == {Host4, Peer4, Alone4, Host6}

Lists(S) == {<<>>} \cup {<<s>> : s \in S}

MCRoutes ==
  {<<>>, <<[dest |-> Addr("v4", 2, 1), via |-> Addr("v4", 0, 1)]>>,
   <<[dest |-> Addr("v6", 0, 0), via |-> Addr("v4", 0, NoPrefix)]>>}

BadRoutes == <<[dest |-> Host4, via |-> Peer4], [dest |-> Host4, via |-> NoAddress]>>

Request(mtu, dests, addrs, routes) ==
  [mtu |-> mtu, dests |-> dests, addrs |-> addrs, routes |-> routes]

MCRequests ==
  {Request(mtu, dests, addrs, routes) :
     mtu \in {4, 6}, dests \in Lists({Peer4, Host6}),
     addrs \in Lists(SmallTexts) \cup {<<Host4, Host6>>, <<Host4, Alone4>>},
     routes \in MCRoutes}
  \cup {Request(mtu, <<Peer4, Alone4>>, <<Host4>>, <<>>) : mtu \in {-1, 0, 7, 20, 40}}
  \cup {[r \in {"dests", "addrs", "routes"} |-> <<>>],
        Request(4, <<NoAddress>>, <<Host4>>, <<>>),
        Request(4, <<Peer4>>, <<Host4, NoAddress, Host6>>, <<>>),
        Request(4, <<>>, <<Host4>>, BadRoutes)}

(* The host's other routes: a default of each kind, a flagged one with a   *)
(* metric, one of a type that ip prints first, and one with a metric that  *)
(* is no int.                                                              *)
Unmentioned == [type |-> "", via |-> {}, proto |-> {}, scope |-> {}, src |-> {},
                metric |-> {}, flags |-> <<>>]

Default4 == [dest |-> Addr("v4", 0, 0), via |-> {Text(Addr("v4", 3, NoPrefix))},
             dev |-> {Word("eth0")}] @@ Unmentioned
Default6 == [dest |-> Addr("v6", 0, 0), via |-> {Text(Addr("v6", 7, NoPrefix))},
             dev |-> {Word("eth0")}, metric |-> {Number(31)}] @@ Unmentioned
Bridge == [dest |-> Addr("v4", 2, 1), dev |-> {Word("br12")}, proto |-> {Word("kernel")},
           scope |-> {Word("link")}, src |-> {Text(Addr("v4", 3, NoPrefix))},
           metric |-> {Number(5)}, flags |-> <<Word("linkdown")>>] @@ Unmentioned
Unreachable == [dest |-> Addr("v6", 4, 1), dev |-> {Word("lo")},
                type |-> "unreachable"] @@ Unmentioned

Far == [dest |-> Addr("v6", 2, 3), dev |-> {Word("eth0")},
        metric |-> {Number(32)}] @@ Unmentioned

MCHostRoutes ==
  {{}, {Default4, Bridge}, {Default4, Far}, {Default4, Default6, Bridge}, {Default4, Unreachable}}
===========================================================================
