----------------------- MODULE PacketStatisticProofs -----------------------
(***************************************************************************)
(* What the counters of a queue keep for any fields, any threads that      *)
(* count them and any number of increments and reports.                    *)
(***************************************************************************)
EXTENDS PacketStatistic, TLAPS

Phases == {"idle", "copy", "clear", "add", "return", "json"}
Loaded == [field : Fields \cup {"none"}, value : Nat]
Data == [Fields -> Nat]

Types ==
  /\ current \in Data /\ total \in Data
  /\ counted \in Data /\ reported \in Data
  /\ inc \in [Writers -> Loaded]
  /\ phase \in [Collectors -> Phases]
  /\ todo \in [Collectors -> SUBSET Fields]
  /\ add \in [Collectors -> Loaded]
  /\ ret \in [Collectors -> [current : Data, total : Data]]
  /\ reports \in [Collectors -> Nat]
  /\ overlapped \subseteq Fields /\ crossed \subseteq Fields

(* An increment under way is its own thread's, and what it loaded is still *)
(* the counter's value unless a swap met it.                               *)
IncIsFresh ==
  \A w \in Writers, f \in Fields : inc[w].field = f =>
    /\ Writer[f] = w
    /\ f \notin overlapped => inc[w].value = current[f]

(* The copy a collector swapped out, and is yet to clear, is still the     *)
(* counter's value unless something met the swap.                          *)
CopyIsFresh ==
  \A c \in Collectors, f \in Fields : InWindow(c, f) /\ f \notin overlapped =>
    ret[c].current[f] = current[f]

(* A += under way belongs to a field its collector has yet to add, and     *)
(* what it loaded is still the total unless another += met it.             *)
AddIsFresh ==
  \A c \in Collectors, f \in Fields : add[c].field = f =>
    /\ phase[c] = "add" /\ f \in todo[c]
    /\ f \notin crossed => add[c].value = total[f]

Fresh == Types /\ IncIsFresh /\ CopyIsFresh /\ AddIsFresh
IInv == Fresh /\ ExactUnlessOverlapped /\ TotalIsSumOfReports
-----------------------------------------------------------------------------
LEMMA NoneIsNoField == Idle \in Loaded /\ \A f \in Fields : Idle.field # f
BY StatisticAssumption DEF Idle, Loaded

(* What is in hand, or added, is a number.                                 *)
LEMMA HandsHoldNumbers ==
  ASSUME Types, NEW c, NEW f \in Fields
  PROVE  InHand(c, f) \in Nat /\ Added(c, f) \in Nat
BY DEF Types, Data, InHand, Added

(* A visit leaves a phase only for the next, with every field to visit.    *)
LEMMA VisitStays ==
  ASSUME Types, NEW c \in Collectors, NEW f \in Fields, NEW next \in Phases,
         Visit(c, f, next)
  PROVE  /\ phase' \in [Collectors -> Phases]
         /\ todo' \in [Collectors -> SUBSET Fields]
BY DEF Types, Visit

LEMMA InitHolds == Init => IInv
<1> SUFFICES ASSUME Init PROVE IInv
  OBVIOUS
<1>1. Zero \in Data /\ \A f \in Fields : Zero[f] = 0
  BY DEF Zero, Data
<1>2. Types
  BY <1>1, NoneIsNoField, StatisticAssumption DEF Init, Types, Phases
<1>3. IncIsFresh /\ AddIsFresh
  BY NoneIsNoField DEF Init, IncIsFresh, AddIsFresh
<1>4. CopyIsFresh
  BY DEF Init, CopyIsFresh, InWindow
<1>5. \A c, f : InHand(c, f) = 0 /\ Added(c, f) = 0
  BY DEF Init, InHand, Added
<1>6. ExactUnlessOverlapped /\ TotalIsSumOfReports
  BY <1>1, <1>5 DEF Init, ExactUnlessOverlapped, TotalIsSumOfReports, AllInHand, AllAdded
<1> QED BY <1>2, <1>3, <1>4, <1>6 DEF IInv, Fresh
-----------------------------------------------------------------------------
(* Counting.                                                               *)
LEMMA IncLoadKeeps ==
  ASSUME IInv, NEW f \in Fields, IncLoad(f)
  PROVE  IInv'
<1> DEFINE w == Writer[f]
<1> USE DEF IInv, Fresh
<1>1. w \in Writers
  BY StatisticAssumption
<1>2. Types'
  BY <1>1 DEF IncLoad, Types, Loaded, Data, shared, history
<1>3. IncIsFresh'
  BY <1>1 DEF IncLoad, IncIsFresh, Types, Loaded, shared
<1>4. CopyIsFresh' /\ AddIsFresh'
  BY DEF IncLoad, CopyIsFresh, AddIsFresh, InWindow, shared, history
<1>5. ExactUnlessOverlapped' /\ TotalIsSumOfReports'
  BY DEF IncLoad, ExactUnlessOverlapped, TotalIsSumOfReports, AllInHand, AllAdded,
         InHand, Added, shared, history
<1> QED BY <1>2, <1>3, <1>4, <1>5

LEMMA IncStoreKeeps ==
  ASSUME IInv, NEW f \in Fields, IncStore(f)
  PROVE  IInv'
<1> DEFINE w == Writer[f]
<1> USE DEF IInv, Fresh
<1>1. w \in Writers
  BY StatisticAssumption
<1>2. Types'
  BY <1>1, NoneIsNoField DEF IncStore, Types, Loaded, Data, history
<1>3. IncIsFresh'
  <2> SUFFICES ASSUME NEW v \in Writers, NEW g \in Fields, inc'[v].field = g
      PROVE  Writer[g] = v /\ (g \notin overlapped' => inc'[v].value = current'[g])
    BY DEF IncIsFresh
  <2>1. v # w /\ inc'[v] = inc[v]
    BY <1>1, NoneIsNoField DEF IncStore, Types
  <2>2. Writer[g] = v /\ g # f
    BY <2>1 DEF IncIsFresh
  <2> QED BY <2>1, <2>2 DEF IncStore, IncIsFresh, Types, Data
<1>4. CopyIsFresh'
  BY DEF IncStore, CopyIsFresh, InWindow, Types, Data, history
<1>5. AddIsFresh'
  BY DEF IncStore, AddIsFresh, history
<1>6. \A c, g : InHand(c, g)' = InHand(c, g) /\ Added(c, g)' = Added(c, g)
  BY DEF IncStore, InHand, Added
<1>7. ExactUnlessOverlapped'
  <2> SUFFICES ASSUME NEW g \in Fields, g \notin overlapped', g \notin crossed'
      PROVE  counted'[g] = current'[g] + AllInHand(g)' + total'[g]
    BY DEF ExactUnlessOverlapped
  <2>1. counted[g] = current[g] + AllInHand(g) + total[g] /\ AllInHand(g)' = AllInHand(g)
    BY <1>6 DEF IncStore, ExactUnlessOverlapped, AllInHand, history
  <2>2. AllInHand(g) \in Nat /\ current[g] \in Nat /\ total[g] \in Nat
    BY HandsHoldNumbers DEF AllInHand, Types, Data
  <2>3. CASE g = f
    <3>1. inc[w].value = current[f]
      BY <1>1, <2>3 DEF IncStore, IncIsFresh
    <3>2. counted'[f] = counted[f] + 1 /\ current'[f] = current[f] + 1 /\ total' = total
      BY <3>1 DEF IncStore, Types, Data
    <3> QED BY <2>1, <2>2, <2>3, <3>2
  <2>4. CASE g # f
    BY <2>1, <2>4 DEF IncStore, Types, Data
  <2> QED BY <2>3, <2>4
<1>8. TotalIsSumOfReports'
  BY <1>6 DEF IncStore, TotalIsSumOfReports, AllAdded, history
<1> QED BY <1>2, <1>3, <1>4, <1>5, <1>7, <1>8
-----------------------------------------------------------------------------
(* The swap.                                                               *)
LEMMA CollectCallKeeps ==
  ASSUME IInv, NEW c \in Collectors, CollectCall(c)
  PROVE  IInv'
<1> USE DEF IInv, Fresh
<1>1. Types'
  BY DEF CollectCall, Types, Data, Phases, shared, counting, history
<1>2. IncIsFresh'
  BY DEF CollectCall, IncIsFresh, shared, counting
<1>3. CopyIsFresh' /\ AddIsFresh'
  BY DEF CollectCall, CopyIsFresh, AddIsFresh, InWindow, Types, shared, history
<1>4. \A d, f : InHand(d, f)' = InHand(d, f) /\ Added(d, f)' = Added(d, f)
  BY DEF CollectCall, InHand, Added, Types
<1>5. ExactUnlessOverlapped' /\ TotalIsSumOfReports'
  BY <1>4 DEF CollectCall, ExactUnlessOverlapped, TotalIsSumOfReports, AllInHand, AllAdded,
              shared, counting, history
<1> QED BY <1>1, <1>2, <1>3, <1>5

LEMMA CopyKeeps ==
  ASSUME IInv, NEW c \in Collectors, NEW f \in Fields, Copy(c, f)
  PROVE  IInv'
<1> USE DEF IInv, Fresh
<1>1. Types'
  BY VisitStays DEF Copy, Types, Data, Phases, shared, counting, history
<1>2. IncIsFresh'
  BY DEF Copy, IncIsFresh, shared, counting
<1>3. CopyIsFresh'
  BY DEF Copy, Visit, CopyIsFresh, InWindow, Types, Data, shared
<1>4. AddIsFresh'
  BY DEF Copy, Visit, AddIsFresh, Types, shared, history
<1>5. \A d : \A g \in Fields : InHand(d, g)' = InHand(d, g) /\ Added(d, g)' = Added(d, g)
  BY DEF Copy, Visit, InHand, Added, Types, Data
<1>6. ExactUnlessOverlapped' /\ TotalIsSumOfReports'
  BY <1>5 DEF Copy, ExactUnlessOverlapped, TotalIsSumOfReports, AllInHand, AllAdded,
              shared, counting, history
<1> QED BY <1>1, <1>2, <1>3, <1>4, <1>6

LEMMA ClearKeeps ==
  ASSUME IInv, NEW c \in Collectors, NEW f \in Fields, Clear(c, f)
  PROVE  IInv'
<1> USE DEF IInv, Fresh
<1>1. Types'
  <2>1. phase' \in [Collectors -> Phases] /\ todo' \in [Collectors -> SUBSET Fields]
    <3>1. "add" \in Phases /\ Visit(c, f, "add")
      BY DEF Clear, Phases
    <3> QED BY <3>1, VisitStays
  <2>2. current' \in Data /\ overlapped' \subseteq Fields
    BY DEF Clear, Types, Data
  <2>3. UNCHANGED <<total, counted, reported, inc, add, ret, reports, crossed>>
    BY DEF Clear, counting, history
  <2>4. /\ total \in Data /\ counted \in Data /\ reported \in Data
        /\ inc \in [Writers -> Loaded] /\ add \in [Collectors -> Loaded]
        /\ ret \in [Collectors -> [current : Data, total : Data]]
        /\ reports \in [Collectors -> Nat] /\ crossed \subseteq Fields
    BY Zenon DEF Types
  <2> QED BY <2>1, <2>2, <2>3, <2>4, Zenon DEF Types
<1>2. IncIsFresh'
  <2> SUFFICES ASSUME NEW w \in Writers, NEW g \in Fields, inc[w].field = g
      PROVE  Writer[g] = w /\ (g \notin overlapped' => inc[w].value = current'[g])
    BY DEF IncIsFresh, Clear, counting
  <2>1. Writer[g] = w /\ (g \notin overlapped => inc[w].value = current[g])
    BY DEF IncIsFresh
  <2>2. overlapped \subseteq overlapped' /\ (g = f => g \in overlapped')
    BY <2>1 DEF Clear, SwapMet
  <2>3. g # f => current'[g] = current[g]
    BY DEF Clear, Types, Data
  <2> QED BY <2>1, <2>2, <2>3
<1>3. CopyIsFresh'
  <2> SUFFICES ASSUME NEW d \in Collectors, NEW g \in Fields,
                      InWindow(d, g)', g \notin overlapped'
      PROVE  ret'[d].current[g] = current'[g]
    BY DEF CopyIsFresh
  <2>1. InWindow(d, g) /\ ~(d = c /\ g = f)
    BY DEF Clear, Visit, InWindow, Types
  <2>2. g # f
    BY <2>1 DEF Clear, SwapMet
  <2> QED BY <2>1, <2>2 DEF Clear, CopyIsFresh, Types, Data
<1>4. AddIsFresh'
  BY DEF Clear, Visit, AddIsFresh, Types, history
<1>5. \A d : \A g \in Fields :
        /\ d # c \/ g # f => InHand(d, g)' = InHand(d, g)
        /\ Added(d, g)' = Added(d, g)
  BY DEF Clear, Visit, InHand, Added, Types
<1>6. InHand(c, f) = 0 /\ InHand(c, f)' = ret[c].current[f]
  BY DEF Clear, Visit, InHand, Types
<1>7. ExactUnlessOverlapped'
  <2> SUFFICES ASSUME NEW g \in Fields, g \notin overlapped', g \notin crossed'
      PROVE  counted'[g] = current'[g] + AllInHand(g)' + total'[g]
    BY DEF ExactUnlessOverlapped
  <2>1. counted[g] = current[g] + AllInHand(g) + total[g]
    BY DEF Clear, ExactUnlessOverlapped, history
  <2>2. CASE g = f
    <3>1. ret[c].current[f] = current[f]
      BY <2>2 DEF Clear, Visit, CopyIsFresh, InWindow
    <3>2. AllInHand(f)' = current[f] + AllInHand(f)
      <4>1. c = "stat" \/ c = "handler"
        BY StatisticAssumption
      <4>2. \A d : InHand(d, f) \in Nat
        BY HandsHoldNumbers
      <4>3. current[f] \in Nat
        BY DEF Types, Data
      <4>4. \A d : d # c => InHand(d, f)' = InHand(d, f)
        BY <1>5
      <4> QED BY <1>6, <3>1, <4>1, <4>2, <4>3, <4>4 DEF AllInHand
    <3>3. current'[f] = 0 /\ counted' = counted /\ total' = total
      BY DEF Clear, counting, Types, Data
    <3> QED BY <2>1, <2>2, <3>2, <3>3, HandsHoldNumbers DEF AllInHand, Types, Data
  <2>3. CASE g # f
    BY <1>5, <2>1, <2>3 DEF Clear, AllInHand, counting, Types, Data
  <2> QED BY <2>2, <2>3
<1>8. TotalIsSumOfReports'
  BY <1>5 DEF Clear, TotalIsSumOfReports, AllAdded, history
<1> QED BY <1>1, <1>2, <1>3, <1>4, <1>7, <1>8
-----------------------------------------------------------------------------
(* The sums.                                                               *)
LEMMA AddLoadKeeps ==
  ASSUME IInv, NEW c \in Collectors, NEW f \in Fields, AddLoad(c, f)
  PROVE  IInv'
<1> USE DEF IInv, Fresh
<1>1. Types'
  BY DEF AddLoad, Types, Data, Loaded, shared, counting, history
<1>2. IncIsFresh' /\ CopyIsFresh'
  BY DEF AddLoad, IncIsFresh, CopyIsFresh, InWindow, shared, counting
<1>3. AddIsFresh'
  BY DEF AddLoad, AddIsFresh, Types, shared, history
<1>4. ExactUnlessOverlapped' /\ TotalIsSumOfReports'
  BY DEF AddLoad, ExactUnlessOverlapped, TotalIsSumOfReports, AllInHand, AllAdded,
         InHand, Added, shared, counting, history
<1> QED BY <1>1, <1>2, <1>3, <1>4

LEMMA AddStoreKeeps ==
  ASSUME IInv, NEW c \in Collectors, NEW f \in Fields, AddStore(c, f)
  PROVE  IInv'
<1> USE DEF IInv, Fresh
<1>1. phase[c] = "add" /\ f \in todo[c]
  BY DEF AddStore, AddIsFresh
<1>2. Types'
  BY VisitStays, NoneIsNoField DEF AddStore, Types, Data, Phases, Loaded, counting
<1>3. IncIsFresh'
  BY DEF AddStore, IncIsFresh, counting
<1>4. CopyIsFresh'
  BY <1>1 DEF AddStore, Visit, CopyIsFresh, InWindow, Types
<1>5. AddIsFresh'
  <2> SUFFICES ASSUME NEW d \in Collectors, NEW g \in Fields, add'[d].field = g
      PROVE  /\ phase'[d] = "add" /\ g \in todo'[d]
             /\ g \notin crossed' => add'[d].value = total'[g]
    BY DEF AddIsFresh
  <2>1. d # c /\ add'[d] = add[d]
    BY NoneIsNoField DEF AddStore, Types
  <2>2. phase'[d] = "add" /\ g \in todo'[d]
    BY <2>1 DEF AddStore, Visit, AddIsFresh, Types
  <2>3. g \notin crossed' => g # f
    BY <2>1 DEF AddStore
  <2> QED BY <2>1, <2>2, <2>3 DEF AddStore, AddIsFresh, Types, Data
<1>6. \A d : \A g \in Fields : d # c \/ g # f =>
        InHand(d, g)' = InHand(d, g) /\ Added(d, g)' = Added(d, g)
  BY <1>1 DEF AddStore, Visit, InHand, Added, Types
<1>7. /\ InHand(c, f) = ret[c].current[f] /\ InHand(c, f)' = 0
      /\ Added(c, f) = 0 /\ Added(c, f)' = ret[c].current[f]
  BY <1>1 DEF AddStore, Visit, InHand, Added, Types
<1>8. /\ AllInHand(f) = AllInHand(f)' + ret[c].current[f]
      /\ AllAdded(f)' = AllAdded(f) + ret[c].current[f]
  <2>1. c = "stat" \/ c = "handler"
    BY StatisticAssumption
  <2>2. \A d : InHand(d, f) \in Nat /\ Added(d, f) \in Nat
    BY HandsHoldNumbers
  <2>3. ret[c].current[f] \in Nat
    BY DEF Types, Data
  <2>4. \A d : d # c => InHand(d, f)' = InHand(d, f) /\ Added(d, f)' = Added(d, f)
    BY <1>6
  <2> QED BY <1>7, <2>1, <2>2, <2>3, <2>4 DEF AllInHand, AllAdded
<1>9. f \notin crossed' => total'[f] = total[f] + ret[c].current[f]
  BY DEF AddStore, AddIsFresh, Types, Data
<1>10. \A g \in Fields : g # f => /\ total'[g] = total[g]
                                /\ AllInHand(g)' = AllInHand(g)
                                /\ AllAdded(g)' = AllAdded(g)
  BY <1>6 DEF AddStore, AllInHand, AllAdded, Types, Data
<1>11. \A g \in Fields : AllInHand(g)' \in Nat /\ AllAdded(g) \in Nat
  <2>1. \A d : \A g \in Fields : InHand(d, g) \in Nat /\ Added(d, g) \in Nat
    BY HandsHoldNumbers
  <2>2. \A d : \A g \in Fields : InHand(d, g)' \in Nat
    BY <1>6, <1>7, <2>1 
  <2> QED BY <2>1, <2>2 DEF AllInHand, AllAdded
<1>12. ExactUnlessOverlapped'
  <2> SUFFICES ASSUME NEW g \in Fields, g \notin overlapped', g \notin crossed'
      PROVE  counted'[g] = current'[g] + AllInHand(g)' + total'[g]
    BY DEF ExactUnlessOverlapped
  <2>1. counted'[g] = current'[g] + AllInHand(g) + total[g]
    BY DEF AddStore, ExactUnlessOverlapped, counting
  <2>2. CASE g = f
    BY <1>8, <1>9, <1>11, <2>1, <2>2 DEF AddStore, Types, Data
  <2>3. CASE g # f
    BY <1>10, <2>1, <2>3
  <2> QED BY <2>2, <2>3
<1>13. TotalIsSumOfReports'
  <2> SUFFICES ASSUME NEW g \in Fields, g \notin crossed'
      PROVE  total'[g] = reported'[g] + AllAdded(g)'
    BY DEF TotalIsSumOfReports
  <2>1. total[g] = reported'[g] + AllAdded(g)
    BY DEF AddStore, TotalIsSumOfReports
  <2>2. CASE g = f
    BY <1>8, <1>9, <1>11, <2>1, <2>2 DEF AddStore, Types, Data
  <2>3. CASE g # f
    BY <1>10, <2>1, <2>3
  <2> QED BY <2>2, <2>3
<1> QED BY <1>2, <1>3, <1>4, <1>5, <1>12, <1>13

LEMMA CopyTotalKeeps ==
  ASSUME IInv, NEW c \in Collectors, NEW f \in Fields, CopyTotal(c, f)
  PROVE  IInv'
<1> USE DEF IInv, Fresh
<1>1. Types'
  BY VisitStays DEF CopyTotal, Types, Data, Phases, shared, counting, history
<1>2. IncIsFresh'
  BY DEF CopyTotal, IncIsFresh, shared, counting
<1>3. \A d \in Collectors : ret'[d].current = ret[d].current
  BY DEF CopyTotal, Types
<1>4. CopyIsFresh' /\ AddIsFresh'
  BY <1>3 DEF CopyTotal, Visit, CopyIsFresh, AddIsFresh, InWindow, Types, shared, history
<1>5. \A d : \A g \in Fields : InHand(d, g)' = InHand(d, g) /\ Added(d, g)' = Added(d, g)
  BY <1>3 DEF CopyTotal, Visit, InHand, Added, Types
<1>6. ExactUnlessOverlapped' /\ TotalIsSumOfReports'
  BY <1>5 DEF CopyTotal, ExactUnlessOverlapped, TotalIsSumOfReports, AllInHand, AllAdded,
              shared, counting, history
<1> QED BY <1>1, <1>2, <1>4, <1>6

LEMMA ReportKeeps ==
  ASSUME IInv, NEW c \in Collectors, Report(c)
  PROVE  IInv'
<1> USE DEF IInv, Fresh
<1>1. Types'
  BY DEF Report, Types, Data, Phases, shared, counting
<1>2. IncIsFresh'
  BY DEF Report, IncIsFresh, shared, counting
<1>3. CopyIsFresh' /\ AddIsFresh'
  BY DEF Report, CopyIsFresh, AddIsFresh, InWindow, Types, shared
<1>4. \A d, f : InHand(d, f)' = InHand(d, f) /\ (d # c => Added(d, f)' = Added(d, f))
  BY DEF Report, InHand, Added, Types
<1>5. \A f \in Fields : Added(c, f) = ret[c].current[f] /\ Added(c, f)' = 0
  BY DEF Report, Added, Types
<1>6. ExactUnlessOverlapped'
  BY <1>4 DEF Report, ExactUnlessOverlapped, AllInHand, shared, counting
<1>7. TotalIsSumOfReports'
  <2> SUFFICES ASSUME NEW f \in Fields, f \notin crossed'
      PROVE  total'[f] = reported'[f] + AllAdded(f)'
    BY DEF TotalIsSumOfReports
  <2>1. total'[f] = reported[f] + AllAdded(f)
    BY DEF Report, TotalIsSumOfReports, shared
  <2>2. AllAdded(f) = AllAdded(f)' + ret[c].current[f] /\ AllAdded(f)' \in Nat
    <3>1. c = "stat" \/ c = "handler"
      BY StatisticAssumption
    <3> QED BY <1>4, <1>5, <3>1, HandsHoldNumbers DEF AllAdded, Types, Data
  <2> QED BY <2>1, <2>2 DEF Report, Types, Data
<1> QED BY <1>1, <1>2, <1>3, <1>6, <1>7
-----------------------------------------------------------------------------
LEMMA StepKeeps == IInv /\ [Next]_vars => IInv'
<1> SUFFICES ASSUME IInv, [Next]_vars PROVE IInv'
  OBVIOUS
<1>1. CASE UNCHANGED vars
  BY <1>1 DEF vars, IInv, Fresh, Types, IncIsFresh, CopyIsFresh, AddIsFresh, InWindow,
              ExactUnlessOverlapped, TotalIsSumOfReports, AllInHand, AllAdded, InHand, Added
<1>2. ASSUME NEW f \in Fields, Count(f) PROVE IInv'
  BY <1>2, IncLoadKeeps, IncStoreKeeps DEF Count
<1>3. ASSUME NEW c \in Collectors, Collect(c) PROVE IInv'
  BY <1>3, CollectCallKeeps, CopyKeeps, ClearKeeps, AddLoadKeeps, AddStoreKeeps,
     CopyTotalKeeps, ReportKeeps DEF Collect
<1> QED BY <1>1, <1>2, <1>3 DEF Next

(* What a thread loaded stays the value of its counter, and what a report  *)
(* copied stays the value it is about to clear, unless the histories name  *)
(* the field (packet_statistic.hpp:54-65, 79, 86-97).                      *)
THEOREM LoadsAreFresh == Spec => []IInv
<1> QED BY InitHolds, StepKeeps, PTL DEF Spec

(* collect() loses and invents counts of a field only if an increment, or  *)
(* another collect(), falls into its swap, or if two collect() add the     *)
(* field to the total at once (packet_statistic.hpp:54-65, 79, 86-97).     *)
THEOREM CountsAreExact == Spec => []ExactUnlessOverlapped
<1>1. IInv => ExactUnlessOverlapped
  BY DEF IInv
<1> QED BY <1>1, LoadsAreFresh, PTL

(* The "current" values of all reports add up to "total", whatever was     *)
(* lost on the way into current, unless two collect() added the field to   *)
(* it at once (packet_statistic.hpp:86-98).                                *)
THEOREM ReportsAddUp == Spec => []TotalIsSumOfReports
<1>1. IInv => TotalIsSumOfReports
  BY DEF IInv
<1> QED BY <1>1, LoadsAreFresh, PTL
=============================================================================
