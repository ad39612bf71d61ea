-------------------------- MODULE PacketStatistic --------------------------
(***************************************************************************)
(* PacketStatistic (src/packet_statistic.hpp): the counters of one         *)
(* PacketQueue.  The pushing and the popping thread count, each its own    *)
(* fields; the threads that report (a device's stat thread, the handler    *)
(* that answers an init: nobody else asks) call collect() and asJson().    *)
(* Nothing is atomic and nothing is locked: an increment is a load and a   *)
(* store, and collect() copies, clears and sums the fields one by one.     *)
(***************************************************************************)
EXTENDS Integers, FiniteSets

CONSTANTS
  Fields,      \* the counters of Data a model follows
  Writers,     \* the threads that count
  Writer,      \* the thread each counter belongs to
  Collectors,  \* the threads that report
  MaxCount,    \* bound: increments of a counter
  MaxReports   \* bound: reports of a thread

ASSUME StatisticAssumption ==
  /\ IsFiniteSet(Fields) /\ "none" \notin Fields
  /\ Collectors \subseteq {"stat", "handler"}
  /\ Writer \in [Fields -> Writers]
  /\ MaxCount \in Nat
  /\ MaxReports \in Nat

VARIABLES
  current,   \* PacketStatistic::current
  total,     \* PacketStatistic::total
  inc,       \* per writer: the field and the value its increment loaded
  phase,     \* per collector: where it is in collect() and asJson()
  todo,      \* per collector: the fields this phase has yet to visit
  add,       \* per collector: the field and the total its += loaded
  ret,       \* per collector: the PacketStatistic collect() returns
  json,      \* per collector: the last "current" and "total" it reported
  counted,   \* history: the increments of each field
  reported,  \* history: the sum of the "current" values reported
  reports,   \* history: the reports of each collector
  overlapped,\* history: the fields a collect()'s swap was met on
  crossed    \* history: the fields two += met on

vars == <<current, total, inc, phase, todo, add, ret, json, counted,
          reported, reports, overlapped, crossed>>

counting == <<inc, counted>>
shared == <<current, total>>
history == <<reported, reports, crossed>>

Idle == [field |-> "none", value |-> 0]
Zero == [f \in Fields |-> 0]

(* A collector holds a copy of the field it has not cleared yet.           *)
InWindow(c, f) == \/ phase[c] = "copy" /\ f \notin todo[c]
                  \/ phase[c] = "clear" /\ f \in todo[c]

Init ==
  /\ current = Zero /\ total = Zero
  /\ inc = [w \in Writers |-> Idle]
  /\ phase = [c \in Collectors |-> "idle"]
  /\ todo = [c \in Collectors |-> {}]
  /\ add = [c \in Collectors |-> Idle]
  /\ ret = [c \in Collectors |-> [current |-> Zero, total |-> Zero]]
  /\ json = [c \in Collectors |-> [current |-> Zero, total |-> Zero]]
  /\ counted = Zero /\ reported = Zero
  /\ reports = [c \in Collectors |-> 0]
  /\ overlapped = {} /\ crossed = {}
-----------------------------------------------------------------------------
(* ++current.f: the load and the store of one increment.                   *)
IncLoad(f) ==
  /\ inc[Writer[f]] = Idle
  /\ counted[f] < MaxCount
  /\ inc' = [inc EXCEPT ![Writer[f]] = [field |-> f, value |-> current[f]]]
  /\ UNCHANGED <<shared, phase, todo, add, ret, json, counted, history,
                 overlapped>>

IncStore(f) ==
  /\ inc[Writer[f]].field = f
  /\ current' = [current EXCEPT ![f] = inc[Writer[f]].value + 1]
  /\ inc' = [inc EXCEPT ![Writer[f]] = Idle]
  /\ counted' = [counted EXCEPT ![f] = @ + 1]
  /\ overlapped' = overlapped \cup {g \in {f} : \E c \in Collectors : InWindow(c, g)}
  /\ UNCHANGED <<total, phase, todo, add, ret, json, history>>
-----------------------------------------------------------------------------
(* collect().                                                              *)
CollectCall(c) ==
  /\ phase[c] = "idle" /\ reports[c] < MaxReports
  /\ phase' = [phase EXCEPT ![c] = "copy"]
  /\ todo' = [todo EXCEPT ![c] = Fields]
  /\ UNCHANGED <<shared, counting, add, ret, json, history, overlapped>>

(* A phase visits every field, then gives way to the next.  The code's      *)
(* order is the fields' order in memory or in the text; any order is       *)
(* allowed here, the compiler's included.                                  *)
Visit(c, f, next) ==
  /\ f \in todo[c]
  /\ IF todo[c] = {f}
     THEN /\ phase' = [phase EXCEPT ![c] = next]
          /\ todo' = [todo EXCEPT ![c] = Fields]
     ELSE /\ todo' = [todo EXCEPT ![c] = @ \ {f}]
          /\ UNCHANGED phase

(* std::swap copies current out ...                                        *)
Copy(c, f) ==
  /\ phase[c] = "copy"
  /\ Visit(c, f, "clear")
  /\ ret' = [ret EXCEPT ![c].current[f] = current[f]]
  /\ UNCHANGED <<shared, counting, add, json, history, overlapped>>

(* An increment, or another collector's swap, is under way.                *)
SwapMet(c, f) == \/ inc[Writer[f]].field = f
                 \/ \E d \in Collectors \ {c} : InWindow(d, f)

(* Mutant: current is copied, not swapped.                                 *)
Clear_Kept(c, f) ==
  /\ phase[c] = "clear"
  /\ Visit(c, f, "add")
  /\ overlapped' = overlapped \cup {g \in {f} : SwapMet(c, g)}
  /\ UNCHANGED <<shared, counting, add, ret, json, history>>

(* ... and then the fresh zeros in.                                        *)
Clear(c, f) ==
  /\ phase[c] = "clear"
  /\ Visit(c, f, "add")
  /\ current' = [current EXCEPT ![f] = 0]
  /\ overlapped' = overlapped \cup {g \in {f} : SwapMet(c, g)}
  /\ UNCHANGED <<total, counting, add, ret, json, history>>

(* total.f += ret.current.f: again a load and a store.                     *)
AddLoad(c, f) ==
  /\ phase[c] = "add" /\ add[c] = Idle
  /\ f \in todo[c]
  /\ add' = [add EXCEPT ![c] = [field |-> f, value |-> total[f]]]
  /\ UNCHANGED <<shared, counting, phase, todo, ret, json, history, overlapped>>

(* Mutant: total.f = ret.current.f.                                        *)
AddStore_Overwrites(c, f) ==
  /\ add[c].field = f
  /\ Visit(c, f, "return")
  /\ total' = [total EXCEPT ![f] = ret[c].current[f]]
  /\ add' = [add EXCEPT ![c] = Idle]
  /\ crossed' = crossed \cup {g \in {f} : \E d \in Collectors \ {c} : add[d].field = g}
  /\ UNCHANGED <<current, counting, ret, json, reported, reports, overlapped>>

AddStore(c, f) ==
  /\ add[c].field = f
  /\ Visit(c, f, "return")
  /\ total' = [total EXCEPT ![f] = add[c].value + ret[c].current[f]]
  /\ add' = [add EXCEPT ![c] = Idle]
  /\ crossed' = crossed \cup {g \in {f} : \E d \in Collectors \ {c} : add[d].field = g}
  /\ UNCHANGED <<current, counting, ret, json, reported, reports, overlapped>>

(* ret.total = total                                                       *)
CopyTotal(c, f) ==
  /\ phase[c] = "return"
  /\ Visit(c, f, "json")
  /\ ret' = [ret EXCEPT ![c].total[f] = total[f]]
  /\ UNCHANGED <<shared, counting, add, json, history, overlapped>>

(* A second collect() on a PacketStatistic nobody else has: it moves       *)
(* current into the result and adds it to total.                           *)
CollectAlone(s) ==
  [current |-> s.current,
   total |-> [f \in Fields |-> s.total[f] + s.current[f]]]

(* TunDevice::asJson() asks getStatistic(), which collects, and collects   *)
(* what it got once more.                                                  *)
Report(c) ==
  /\ phase[c] = "json"
  /\ json' = [json EXCEPT ![c] = CollectAlone(ret[c])]
  /\ reported' = [f \in Fields |-> reported[f] + ret[c].current[f]]
  /\ reports' = [reports EXCEPT ![c] = @ + 1]
  /\ phase' = [phase EXCEPT ![c] = "idle"]
  /\ todo' = [todo EXCEPT ![c] = {}]
  /\ UNCHANGED <<shared, counting, add, ret, overlapped, crossed>>
-----------------------------------------------------------------------------
Count(f) == IncLoad(f) \/ IncStore(f)

Collect(c) ==
  \/ CollectCall(c)
  \/ \E f \in Fields :
       Copy(c, f) \/ Clear(c, f) \/ AddLoad(c, f) \/ AddStore(c, f)
         \/ CopyTotal(c, f)
  \/ Report(c)

Next ==
  \/ \E f \in Fields : Count(f)
  \/ \E c \in Collectors : Collect(c)

Spec == Init /\ [][Next]_vars
-----------------------------------------------------------------------------
(* Properties.                                                             *)

(* What collector c took out of current and did not add to total yet, and  *)
(* what it added and did not report yet.                                   *)
InHand(c, f) ==
  IF /\ c \in Collectors
     /\ \/ phase[c] = "clear" /\ f \notin todo[c]
        \/ phase[c] = "add" /\ f \in todo[c]
  THEN ret[c].current[f] ELSE 0

Added(c, f) ==
  IF /\ c \in Collectors
     /\ \/ phase[c] = "add" /\ f \notin todo[c]
        \/ phase[c] \in {"return", "json"}
  THEN ret[c].current[f] ELSE 0

AllInHand(f) == InHand("stat", f) + InHand("handler", f)
AllAdded(f) == Added("stat", f) + Added("handler", f)

(* collect() loses and invents counts of a field only if an increment, or  *)
(* another collect(), falls into its swap, or if two collect() add the     *)
(* field to the total at once; every other interleaving is exact           *)
(* (packet_statistic.hpp:54-65, 79, 86-97).                                *)
ExactUnlessOverlapped ==
  \A f \in Fields \ (overlapped \cup crossed) :
    counted[f] = current[f] + AllInHand(f) + total[f]

(* Whatever was lost on the way into current, the "current" values of all  *)
(* reports add up to "total", unless two collect() added the field to it   *)
(* at once (packet_statistic.hpp:86-98).                                   *)
TotalIsSumOfReports ==
  \A f \in Fields \ crossed : total[f] = reported[f] + AllAdded(f)

(* "loosing a bit" (packet_statistic.hpp:72): collect() may miss counts,   *)
(* so what it shows is never more than what was counted.                   *)
OnlyLoses == \A f \in Fields : current[f] + total[f] <= counted[f]

(* The "total" a device reports is the total of what it counted, as the    *)
(* test of the queue expects of getTotal() (test/packet_queue_test.cpp:90).*)
JsonTotalIsTotal ==
  \A c \in Collectors : phase[c] = "idle" => json[c].total = reported
=============================================================================
