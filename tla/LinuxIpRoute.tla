---------------------------- MODULE LinuxIpRoute ----------------------------
(***************************************************************************)
(* LinuxIpRoute (src/linux_ip_route.hpp): reads what `ip route list`       *)
(* prints, and writes routes in the same form for `ip route add` and       *)
(* `ip route del`.  A line is a sequence of tokens: a word, the text of an *)
(* address, or a number.  A field of an IPRoute (src/iproute.hpp) is a set *)
(* of at most one token, as an Option is.                                  *)
(***************************************************************************)
EXTENDS IfAddrs

Word(w) == [word |-> w, addr |-> NoAddress, num |-> 0]
Text(a) == [word |-> "", addr |-> a, num |-> 0]
Number(n) == [word |-> "", addr |-> NoAddress, num |-> n]

ZeroV4 == [kind |-> "v4", host |-> 0, prefix |-> 0]

(* The keys, and those of an address.                                      *)
Keys == {"via", "dev", "proto", "scope", "src", "metric"}
AddressKeys == {"via", "src"}

NoRoute == [dest |-> ZeroV4, via |-> {}, dev |-> {}, proto |-> {}, scope |-> {},
            src |-> {}, metric |-> {}]

(* The fields that a route has, in the order of serialize() and of ip.     *)
The(option) == CHOOSE t \in option : TRUE

Field(key, option) == IF option = {} THEN <<>> ELSE <<Word(key), The(option)>>

Fields(route) ==
  Field("via", route.via) \o Field("dev", route.dev) \o Field("proto", route.proto)
    \o Field("scope", route.scope) \o Field("src", route.src)
    \o Field("metric", route.metric)

(* serialize(), without the line's end.                                    *)
Serialize(route) ==
  <<IF route.dest = ZeroV4 THEN Word("default") ELSE Text(route.dest)>>
    \o Fields([route EXCEPT !.via = {Text(ToS(t.addr)) : t \in @},
                            !.src = {Text(ToS(t.addr)) : t \in @}])

(* command(), for add and del.                                             *)
Command(route, mod) ==
  <<Word("/sbin/ip"), Word("route"), Word(mod)>> \o Serialize(route)
-----------------------------------------------------------------------------
(* parse(), a line: what is kept from one token to the next.               *)
Begin == [route |-> NoRoute, next |-> "first", last |-> Word(""), how |-> "ok"]

Dest(state, t) ==
  LET dest == IF t = Word("default") THEN ZeroV4 ELSE ParseAddress(t.addr)
  IN IF IsAddress(dest)
     THEN [state EXCEPT !.route.dest = dest, !.next = "name"]
     ELSE [state EXCEPT !.how = "refused"]

Name(state, t) == [state EXCEPT !.last = t, !.next = "value"]

(* A value of a key that is not known is passed over.  stoi() throws at a  *)
(* metric that is no int.                                                  *)
Value(state, t) ==
  LET key == state.last.word
      read == [state EXCEPT !.next = "name"]
  IN IF key \notin Keys THEN read
     ELSE IF key \in AddressKeys /\ ~IsAddress(t.addr)
     THEN [read EXCEPT !.how = "refused"]
     ELSE IF key = "metric" /\ ~FitsInt(t.num)
     THEN [read EXCEPT !.how = "throws"]
     ELSE [read EXCEPT !.route[key] = {IF key \in AddressKeys
                                       THEN Text(ParseAddress(t.addr)) ELSE t}]

(* Mutant: a value does not end the wait for a value.                      *)
Token_NameOnce(state, t) ==
  IF state.how # "ok" THEN state
  ELSE IF state.next = "first" THEN Dest(state, t)
  ELSE IF state.next = "name" THEN Name(state, t)
  ELSE [Value(state, t) EXCEPT !.next = "value"]

Token(state, t) ==
  IF state.how # "ok" THEN state
  ELSE CASE state.next = "first" -> Dest(state, t)
         [] state.next = "name"  -> Name(state, t)
         [] state.next = "value" -> Value(state, t)

Tokens(start, line) ==
  LET state[i \in 0..Len(line)] ==
        IF i = 0 THEN start ELSE Token(state[i - 1], line[i])
  IN state[Len(line)]

ParseLine(line) == Tokens(Begin, line)

(* The first bad line makes the whole listing an Err, or throws.           *)
Parse(lines) ==
  LET read == [i \in DOMAIN lines |-> ParseLine(lines[i])]
      bad == {i \in DOMAIN lines : read[i].how # "ok"}
  IN [how |-> IF bad = {} THEN "ok" ELSE read[Min(bad)].how,
      routes |-> [i \in DOMAIN lines |-> read[i].route]]

(* read(): the listings of both kinds, one after the other, or an Err.     *)
Read(ran4, lines4, ran6, lines6) ==
  IF ran4 /\ ran6 THEN Parse(lines4 \o lines6)
  ELSE [how |-> "refused", routes |-> <<>>]
=============================================================================
